------------------------------ MODULE HttpClient ------------------------------
(***************************************************************************)
(* quicpro_http_request_send (http_client/http_client.c): one transfer by  *)
(* libcurl's easy interface.  libcurl is external; it delivers one or more *)
(* responses (an interim one, or the ones before a redirect) line by line  *)
(* to header_callback, the body chunk by chunk to write_callback, and may  *)
(* fail at any point.                                                      *)
(*                                                                         *)
(* A header name is <<word, upper>>: lower case folds upper away.          *)
(***************************************************************************)
EXTENDS Integers, Sequences, FiniteSets, FilterSeq

CONSTANTS
    HcWord,        \* header names in lower case
    HcValue,       \* header values
    HcMaxLines,    \* bound on the lines delivered
    HcMaxChunks    \* bound on the chunks delivered

ASSUME HttpClientAssumption == HcMaxLines \in Nat /\ HcMaxChunks \in Nat

VARIABLES
    hc_pc,        \* idle, performing, or how the last call ended: array, false
    hc_held,      \* what the call has allocated and not released
    hc_wire,      \* what libcurl delivers next: status, head, body
    hc_first,     \* header_data.first_line_parsed
    hc_raw,       \* response_headers_raw: the lines kept
    hc_received,  \* history: the header lines delivered
    hc_body,      \* the string of response_body: its references and chunks
    hc_headers    \* headers of the returned array: word -> values joined

hcvars == <<hc_pc, hc_held, hc_wire, hc_first, hc_raw, hc_received, hc_body, hc_headers>>

Name == HcWord \X BOOLEAN
StatusLine == <<"status">>
BlankLine == <<"blank">>
HeaderLine == {"header"} \X Name \X HcValue
Named(w) == {"header"} \X ({w} \X BOOLEAN) \X HcValue

NoString == [refs |-> 0, chunks |-> 0]

HcInit ==
    /\ hc_pc = "idle"
    /\ hc_held = {}
    /\ hc_wire = "status" /\ hc_first = FALSE
    /\ hc_raw = <<>> /\ hc_received = <<>>
    /\ hc_body = NoString
    /\ hc_headers = <<>>

------------------------------------------------------------------------------
(* The call up to curl_easy_perform; without a handle it throws.  The list *)
(* of headers exists only when there is a valid one.                       *)
http_request_starts(list) ==
    /\ hc_pc # "performing"
    /\ hc_pc' = "performing"
    /\ hc_held' = {"curl"} \cup list
    /\ hc_wire' = "status" /\ hc_first' = FALSE
    /\ hc_raw' = <<>> /\ hc_received' = <<>>
    /\ hc_body' = NoString
    /\ hc_headers' = <<>>

curl_easy_init_fails ==
    /\ hc_pc # "performing"
    /\ hc_pc' = "false"
    /\ hc_held' = {}
    /\ hc_raw' = <<>> /\ hc_received' = <<>>
    /\ hc_body' = NoString
    /\ hc_headers' = <<>>
    /\ UNCHANGED <<hc_wire, hc_first>>

(* Nothing is kept before the first status line; after it every line that  *)
(* is not blank, the status lines of later responses among them.           *)
header_callback(l) ==
    \/ ~hc_first /\ hc_first' = (l = StatusLine) /\ UNCHANGED <<hc_raw, hc_held>>
    \/ hc_first /\ l = BlankLine /\ UNCHANGED <<hc_first, hc_raw, hc_held>>
    \/ /\ hc_first /\ l # BlankLine
       /\ hc_raw' = Append(hc_raw, l)
       /\ hc_held' = hc_held \cup {"raw"}
       /\ UNCHANGED hc_first

(* External: libcurl delivers a line of a head, or starts a further response. *)
curl_delivers(l) ==
    /\ hc_pc = "performing" /\ Len(hc_raw) < HcMaxLines
    /\ \/ hc_wire = "status" /\ l = StatusLine /\ hc_wire' = "head"
       \/ hc_wire = "head" /\ l \in HeaderLine /\ hc_wire' = "head"
       \/ hc_wire = "head" /\ l = BlankLine /\ hc_wire' \in {"status", "body"}
    /\ hc_received' = IF l \in HeaderLine THEN Append(hc_received, l) ELSE hc_received
    /\ header_callback(l)
    /\ UNCHANGED <<hc_pc, hc_body, hc_headers>>

(* smart_str_appendl: the string is allocated with the first chunk. *)
write_callback ==
    /\ hc_pc = "performing" /\ hc_wire = "body" /\ hc_body.chunks < HcMaxChunks
    /\ hc_body' = [refs |-> 1, chunks |-> hc_body.chunks + 1]
    /\ hc_held' = hc_held \cup {"body"}
    /\ UNCHANGED <<hc_pc, hc_wire, hc_first, hc_raw, hc_received, hc_headers>>

(* Mutant: a repeated header keeps its last value only. *)
parse_raw_headers_to_assoc_array_Mutant(lines) ==
    LET kept == Among(lines, HeaderLine)
        words == {kept[i][2][1] : i \in DOMAIN kept}
    IN  [w \in words |-> LET of == Among(kept, Named(w)) IN <<of[Len(of)][3]>>]

(* A line without a colon is passed over; names are lower case, and the    *)
(* values of one name are joined in order.                                 *)
parse_raw_headers_to_assoc_array(lines) ==
    LET kept == Among(lines, HeaderLine)
        words == {kept[i][2][1] : i \in DOMAIN kept}
    IN  [w \in words |-> LET of == Among(kept, Named(w)) IN [i \in DOMAIN of |-> of[i][3]]]

(* The buffer of raw lines has no terminator: bytes left in its block from *)
(* before may read as one more line.                                       *)
Leftover == {<<>>} \cup {<<l>> : l \in HeaderLine}

Released == [hc_body EXCEPT !.refs = @ - (IF "body" \in hc_held THEN 1 ELSE 0)]

perform_fails ==
    /\ hc_pc = "performing"
    /\ hc_pc' = "false"
    /\ hc_held' = hc_held \ {"body", "raw", "headers_list", "curl"}
    /\ hc_body' = Released
    /\ UNCHANGED <<hc_wire, hc_first, hc_raw, hc_received, hc_headers>>

(* The array takes the string of the body without a reference of its own,  *)
(* and the final cleanup releases the buffer's.                            *)
perform_returns ==
    /\ hc_pc = "performing" /\ hc_wire = "body"
    /\ hc_pc' = "array"
    /\ \E rest \in (IF "raw" \in hc_held THEN Leftover ELSE {<<>>}) :
          hc_headers' = parse_raw_headers_to_assoc_array(hc_raw \o rest)
    /\ hc_held' = hc_held \ {"body", "raw", "headers_list", "curl"}
    /\ hc_body' = Released
    /\ UNCHANGED <<hc_wire, hc_first, hc_raw, hc_received>>

HcNext ==
    \/ \E list \in {{}, {"headers_list"}} : http_request_starts(list)
    \/ curl_easy_init_fails
    \/ \E l \in HeaderLine \cup {StatusLine, BlankLine} : curl_delivers(l)
    \/ write_callback
    \/ perform_fails
    \/ perform_returns

HcSpec == HcInit /\ [][HcNext]_hcvars

------------------------------------------------------------------------------
(* The returned headers begin with every value delivered under a name, in  *)
(* the order of delivery, whatever the case of the name and however many   *)
(* responses came (header_callback, parse_raw_headers_to_assoc_array).     *)
HeadersAreKept ==
    hc_pc = "array" =>
        \A w \in HcWord :
            LET of == Among(hc_received, Named(w))
                values == [i \in DOMAIN of |-> of[i][3]]
            IN  values # <<>> => w \in DOMAIN hc_headers /\ BeginsWith(hc_headers[w], values)

(* The body of the returned array is a live string ("'body' (string): The  *)
(* complete HTTP response body.", the comment on the function).            *)
BodyIsLive == hc_pc = "array" /\ hc_body.chunks > 0 => hc_body.refs > 0

(* However the call ends, and wherever libcurl failed, the handle, the     *)
(* list and the buffers are released.                                      *)
NothingHeldAfterCall == hc_pc # "performing" => hc_held = {}

==============================================================================
