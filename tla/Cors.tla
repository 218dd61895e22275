--------------------------------- MODULE Cors ---------------------------------
(***************************************************************************)
(* The CORS decision: is_origin_allowed walks a comma-separated list with  *)
(* pointers, quicpro_internal_handle_cors answers a request.  Strings are  *)
(* sequences over a small alphabet.                                        *)
(***************************************************************************)
EXTENDS Integers, Sequences, FilterSeq

CONSTANTS
    CorsLetter,     \* the characters of an origin
    CorsMaxOrigin,  \* bound: length of an origin
    CorsMax         \* bound: length of the list

ASSUME CorsAssumption ==
    CorsLetter \cap {",", " ", "*"} = {} /\ CorsMaxOrigin \in Nat /\ CorsMax \in Nat

VARIABLES cors_request, cors_answer

corsvars == <<cors_request, cors_answer>>

(* A request without an Origin header, a configuration without a list. *)
NoOrigin == <<"no origin">>
NoList == <<"no list">>

(* The header may be there and empty.  Otherwise it holds one origin: no   *)
(* blank and no comma.                                                     *)
CorsInit ==
    /\ cors_request \in [origin : {NoOrigin} \cup SeqUpTo(CorsLetter, CorsMaxOrigin),
                         allowed : {NoList, <<"*">>} \cup SeqUpTo(CorsLetter \cup {",", " "}, CorsMax),
                         method : {"OPTIONS", "GET"}]
    /\ cors_answer = "none"

------------------------------------------------------------------------------
Blank(c) == c = " "
Comma(c) == c = ","

(* The walk from position p: skip blanks, find the comma, trim, compare.   *)
(* Mutant: the blanks after an entry are kept. *)
is_origin_allowed_Mutant(origin, list) ==
    LET n == Len(list)
        walk[p \in 1..(n + 1)] ==
            IF p > n THEN FALSE
            ELSE LET start == CHOOSE i \in p..(n + 1) : /\ i = n + 1 \/ ~Blank(list[i])
                                                        /\ \A k \in p..(i - 1) : Blank(list[k])
                     end == CHOOSE i \in start..(n + 1) : /\ i = n + 1 \/ Comma(list[i])
                                                          /\ \A k \in start..(i - 1) : ~Comma(list[k])
                 IN  SubSeq(list, start, end - 1) = origin \/ (end <= n /\ walk[end + 1])
    IN  list = <<"*">> \/ walk[1]

is_origin_allowed(origin, list) ==
    LET n == Len(list)
        walk[p \in 1..(n + 1)] ==
            IF p > n THEN FALSE
            ELSE LET start == CHOOSE i \in p..(n + 1) : /\ i = n + 1 \/ ~Blank(list[i])
                                                        /\ \A k \in p..(i - 1) : Blank(list[k])
                     end == CHOOSE i \in start..(n + 1) : /\ i = n + 1 \/ Comma(list[i])
                                                          /\ \A k \in start..(i - 1) : ~Comma(list[k])
                     last == CHOOSE i \in (start - 1)..(end - 1) :
                                /\ i = start - 1 \/ ~Blank(list[i])
                                /\ \A k \in (i + 1)..(end - 1) : Blank(list[k])
                 IN  SubSeq(list, start, last) = origin \/ (end <= n /\ walk[end + 1])
    IN  list = <<"*">> \/ walk[1]

quicpro_internal_handle_cors ==
    /\ cors_answer = "none"
    /\ cors_answer' =
          IF cors_request.origin = NoOrigin THEN "ok"
          ELSE IF \/ cors_request.allowed = NoList
                  \/ ~is_origin_allowed(cors_request.origin, cors_request.allowed) THEN "forbidden"
          ELSE IF cors_request.method = "OPTIONS" THEN "preflight" ELSE "ok_with_headers"
    /\ UNCHANGED cors_request

CorsNext == quicpro_internal_handle_cors
CorsSpec == CorsInit /\ [][CorsNext]_corsvars

------------------------------------------------------------------------------
CorsTypeOK == cors_answer \in {"none", "ok", "forbidden", "preflight", "ok_with_headers"}

(* The list's entries: the text between two commas, blanks at its ends cut *)
(* off.  Nothing begins behind the last character: a comma at the end does *)
(* not open one more entry, and an empty list has none.                    *)
ListEntry(list, entry) ==
    \E i \in 0..(Len(list) - 1), j \in 1..(Len(list) + 1) :
       /\ i < j
       /\ i = 0 \/ Comma(list[i])
       /\ j = Len(list) + 1 \/ Comma(list[j])
       /\ \E a \in (i + 1)..j, b \in i..(j - 1) :
             /\ SubSeq(list, a, b) = entry
             /\ \A k \in ((i + 1)..(a - 1)) \cup ((b + 1)..(j - 1)) : Blank(list[k])

(* A request with an Origin header gets its headers exactly when there is  *)
(* a list, and it is "*" or has that origin as one of its entries: the     *)
(* pointer walk reads the list as its format means it, blanks, empty       *)
(* entries and a comma at the end included.  For the empty origin this     *)
(* says that ",a" and "a, " allow it while "a," and "" do not.             *)
OriginIsAnEntry ==
    cors_answer # "none" /\ cors_request.origin # NoOrigin =>
       (cors_answer \in {"preflight", "ok_with_headers"}
        <=> /\ cors_request.allowed # NoList
            /\ \/ cors_request.allowed = <<"*">>
               \/ ListEntry(cors_request.allowed, cors_request.origin))

==============================================================================
