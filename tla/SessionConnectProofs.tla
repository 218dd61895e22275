------------------------ MODULE SessionConnectProofs ------------------------
(***************************************************************************)
(* Proofs about SessionConnect, for any number of sessions and addresses.  *)
(***************************************************************************)
EXTENDS SessionConnect, TLAPS

SessionApi == api = "quicpro_client_session_connect"

\* What the session under construction owns at each step of the call.
OwnedAt ==
    /\ pc = "host" => SessionApi /\ held[s] = {"session"}
    /\ pc = "resolve" => held[s] = IF SessionApi THEN {"session"} ELSE {}
    /\ pc \in Families =>
        held[s] = IF SessionApi THEN {"session", "addrinfo"} ELSE {"addrinfo"}
    /\ pc = "selected" =>
        held[s] = IF SessionApi THEN {"session", "addrinfo", "socket"}
                                ELSE {"addrinfo", "socket"}
    /\ pc = "quiche" =>
        held[s] = IF SessionApi THEN {"session", "socket"}
                                ELSE {"addrinfo", "socket", "session"}
    /\ pc = "h3_cfg" =>
        held[s] = IF SessionApi THEN {"session", "socket", "conn"}
                                ELSE {"addrinfo", "socket", "session", "conn"}
    /\ pc = "h3" =>
        IF SessionApi
        THEN held[s] = {"session", "socket", "conn", "h3_cfg"}
        ELSE held[s] \ {"h3_cfg"} = {"addrinfo", "socket", "session", "conn"}

\* Only the session of the running call is under construction.
OneBuilt ==
    /\ pc # "php" => state[s] = "building" /\ opened_by[s] = api
    /\ \A t \in Sessions : state[t] = "building" => pc # "php" /\ t = s
    /\ \A t \in Sessions : state[t] = "unused" => held[t] = {}

OwnerInv == TypeOK /\ OneBuilt /\ OwnedAt /\ NothingLeaks /\ OpenIsComplete

\* How far the two loops have come.
FamilyInv ==
    /\ pc \in {"host", "resolve", "v6", "v4"} => family = "none"
    /\ pc \in {"host", "resolve"} => v6_failed = 0
    /\ pc = "v6" /\ mode = "auto" => v6_failed + todo = addrs["v6"]
    /\ pc = "v4" /\ mode = "auto" => v6_failed = addrs["v6"]
    /\ pc = "v6" /\ todo > 0 => mode # "ipv4"
    /\ pc = "v4" /\ todo > 0 => mode # "ipv6"
    /\ FamilyPreference

\* Every step keeps the variables of the running call in their types.
LEMMA CallTypeStep == ASSUME TypeOK, [Next]_vars PROVE CallTypeOK'
<1> USE DEF TypeOK, CallTypeOK, Apis, Modes, Steps
<1>1. ASSUME NEW t \in Sessions, NEW a \in Apis, InvalidConfig(t, a) PROVE CallTypeOK'
  BY <1>1 DEF InvalidConfig, Begin
<1>2. ASSUME NEW t \in Sessions, ClientSessionConnect(t) PROVE CallTypeOK'
  BY <1>2 DEF ClientSessionConnect, Begin
<1>3. ASSUME NEW t \in Sessions, QuicproConnect(t) PROVE CallTypeOK'
  BY <1>3 DEF QuicproConnect, Begin
<1>4. ASSUME NEW t \in Sessions, SessionDtor(t) PROVE CallTypeOK'
  BY <1>4 DEF SessionDtor, call
<1>5. CASE CopyHost
  BY <1>5 DEF CopyHost, ReturnFalse, Release, Throw, call
<1>6. CASE ResolveHost
  <2>1. pc' \in Steps /\ result' \in {"none", "false", "resource"}
    BY <1>6 DEF ResolveHost, ReturnFalse
  <2>2. addrs' \in [Families -> Nat] /\ todo' \in Nat
    BY <1>6, ConnectAssumption DEF ResolveHost, Families
  <2>3. exception' \in BOOLEAN
    BY <1>6 DEF ResolveHost, Throw
  <2>4. UNCHANGED <<api, s, mode, v6_failed, family>>
    BY <1>6 DEF ResolveHost, call
  <2>. QED
    BY <2>1, <2>2, <2>3, <2>4
<1>7. CASE TryAddress
  <2>1. pc' \in Steps /\ family' \in Families \cup {"none"}
    BY <1>7 DEF TryAddress
  <2>2. todo' \in Nat /\ v6_failed' \in Nat
    BY <1>7 DEF TryAddress
  <2>3. exception' \in BOOLEAN
    BY <1>7 DEF TryAddress, Throw
  <2>4. UNCHANGED <<api, s, mode, addrs, result>>
    BY <1>7 DEF TryAddress, call
  <2>. QED
    BY <2>1, <2>2, <2>3, <2>4
<1>8. CASE FallBack
  BY <1>8 DEF FallBack, call, Families
<1>9. CASE NoConnectedSocket
  BY <1>9 DEF NoConnectedSocket, ReturnFalse, Release, Throw, call
<1>10. CASE AdoptSocket
  BY <1>10 DEF AdoptSocket, Own, Release, call
<1>11. CASE QuicheConnect
  BY <1>11 DEF QuicheConnect, ReturnFalse, Release, Own, Throw, call
<1>12. CASE NewH3Config
  BY <1>12 DEF NewH3Config, ReturnFalse, Release, Own, Throw, call
<1>13. CASE NewH3Conn
  BY <1>13 DEF NewH3Conn, ReturnResource, ReturnFalse, Release, Own, Throw, call
<1>14. CASE UNCHANGED vars
  BY <1>14 DEF vars, call
<1> HIDE DEF TypeOK, CallTypeOK, Apis, Modes, Steps
<1>. QED
  BY <1>1, <1>2, <1>3, <1>4, <1>5, <1>6, <1>7, <1>8, <1>9, <1>10, <1>11, <1>12, <1>13, <1>14 DEF Next

\* Every step keeps the sessions and what they own in their types.
LEMMA ObjectTypeStep == ASSUME TypeOK, [Next]_vars PROVE ObjectTypeOK'
<1> USE DEF TypeOK, CallTypeOK, ObjectTypeOK, Apis, Owned
<1>1. ASSUME NEW t \in Sessions, NEW a \in Apis, InvalidConfig(t, a) PROVE ObjectTypeOK'
  BY <1>1 DEF InvalidConfig, Begin
<1>2. ASSUME NEW t \in Sessions, ClientSessionConnect(t) PROVE ObjectTypeOK'
  BY <1>2 DEF ClientSessionConnect, Begin
<1>3. ASSUME NEW t \in Sessions, QuicproConnect(t) PROVE ObjectTypeOK'
  BY <1>3 DEF QuicproConnect, Begin
<1>4. ASSUME NEW t \in Sessions, SessionDtor(t) PROVE ObjectTypeOK'
  BY <1>4 DEF SessionDtor, call
<1>5. CASE CopyHost
  BY <1>5 DEF CopyHost, ReturnFalse, Release, Throw, call
<1>6. CASE ResolveHost
  BY <1>6 DEF ResolveHost, ReturnFalse, Release, Own, Throw, call
<1>7. CASE TryAddress
  BY <1>7 DEF TryAddress, Own, Throw, call
<1>8. CASE FallBack
  BY <1>8 DEF FallBack, call
<1>9. CASE NoConnectedSocket
  BY <1>9 DEF NoConnectedSocket, ReturnFalse, Release, Throw, call
<1>10. CASE AdoptSocket
  BY <1>10 DEF AdoptSocket, Own, Release, call
<1>11. CASE QuicheConnect
  BY <1>11 DEF QuicheConnect, ReturnFalse, Release, Own, Throw, call
<1>12. CASE NewH3Config
  BY <1>12 DEF NewH3Config, ReturnFalse, Release, Own, Throw, call
<1>13. CASE NewH3Conn
  BY <1>13 DEF NewH3Conn, ReturnResource, ReturnFalse, Release, Own, Throw, call
<1>14. CASE UNCHANGED vars
  BY <1>14 DEF vars, call
<1> HIDE DEF TypeOK, CallTypeOK, ObjectTypeOK, Apis, Owned
<1>. QED
  BY <1>1, <1>2, <1>3, <1>4, <1>5, <1>6, <1>7, <1>8, <1>9, <1>10, <1>11, <1>12, <1>13, <1>14 DEF Next

\* Only the session of the running call is ever under construction.
LEMMA OneBuiltStep == ASSUME TypeOK, OneBuilt, [Next]_vars PROVE OneBuilt'
<1> USE DEF TypeOK, CallTypeOK, ObjectTypeOK, OneBuilt
<1>1. ASSUME NEW t \in Sessions, NEW a \in Apis, InvalidConfig(t, a) PROVE OneBuilt'
  BY <1>1 DEF InvalidConfig, Begin
<1>2. ASSUME NEW t \in Sessions, ClientSessionConnect(t) PROVE OneBuilt'
  BY <1>2 DEF ClientSessionConnect, Begin
<1>3. ASSUME NEW t \in Sessions, QuicproConnect(t) PROVE OneBuilt'
  BY <1>3 DEF QuicproConnect, Begin
<1>4. ASSUME NEW t \in Sessions, SessionDtor(t) PROVE OneBuilt'
  BY <1>4 DEF SessionDtor, call
<1>5. CASE CopyHost
  BY <1>5 DEF CopyHost, ReturnFalse, Release, Throw, call
<1>6. CASE ResolveHost
  BY <1>6 DEF ResolveHost, ReturnFalse, Release, Own, Throw, call
<1>7. CASE TryAddress
  BY <1>7 DEF TryAddress, Own, Throw, call, Families
<1>8. CASE FallBack
  BY <1>8 DEF FallBack, call
<1>9. CASE NoConnectedSocket
  BY <1>9 DEF NoConnectedSocket, ReturnFalse, Release, Throw, call
<1>10. CASE AdoptSocket
  BY <1>10 DEF AdoptSocket, Own, Release, call
<1>11. CASE QuicheConnect
  BY <1>11 DEF QuicheConnect, ReturnFalse, Release, Own, Throw, call
<1>12. CASE NewH3Config
  BY <1>12 DEF NewH3Config, ReturnFalse, Release, Own, Throw, call
<1>13. CASE NewH3Conn
  BY <1>13 DEF NewH3Conn, ReturnResource, ReturnFalse, Release, Own, Throw, call
<1>14. CASE UNCHANGED vars
  BY <1>14 DEF vars, call
<1> HIDE DEF TypeOK, CallTypeOK, ObjectTypeOK, OneBuilt
<1>. QED
  BY <1>1, <1>2, <1>3, <1>4, <1>5, <1>6, <1>7, <1>8, <1>9, <1>10, <1>11, <1>12, <1>13, <1>14 DEF Next

\* What is left of the selected session's things, and what is added to them.
LEMMA Adopted ==
    /\ {"session", "addrinfo", "socket"} \ {"addrinfo"} = {"session", "socket"}
    /\ {"addrinfo", "socket"} \cup {"session"} = {"addrinfo", "socket", "session"}
  OBVIOUS

\* At each step of a call the session owns what the code has acquired so far.
LEMMA OwnedAtStep == ASSUME OwnerInv, [Next]_vars PROVE OwnedAt'
<1> USE DEF OwnerInv, TypeOK, CallTypeOK, ObjectTypeOK, OneBuilt, OwnedAt, SessionApi, Families, Apis
<1>1. ASSUME NEW t \in Sessions, NEW a \in Apis, InvalidConfig(t, a) PROVE OwnedAt'
  BY <1>1 DEF InvalidConfig, Begin
<1>2. ASSUME NEW t \in Sessions, ClientSessionConnect(t) PROVE OwnedAt'
  BY <1>2 DEF ClientSessionConnect, Begin
<1>3. ASSUME NEW t \in Sessions, QuicproConnect(t) PROVE OwnedAt'
  BY <1>3 DEF QuicproConnect, Begin
<1>4. ASSUME NEW t \in Sessions, SessionDtor(t) PROVE OwnedAt'
  BY <1>4 DEF SessionDtor, call
<1>5. CASE CopyHost
  BY <1>5 DEF CopyHost, ReturnFalse, Release, Throw, call
<1>6. CASE ResolveHost
  BY <1>6 DEF ResolveHost, ReturnFalse, Release, Own, Throw, call
<1>7. CASE TryAddress
  BY <1>7 DEF TryAddress, Own, Throw, call
<1>8. CASE FallBack
  BY <1>8 DEF FallBack, call
<1>9. CASE NoConnectedSocket
  BY <1>9 DEF NoConnectedSocket, ReturnFalse, Release, Throw, call
<1>10. CASE AdoptSocket
  <2>1. pc' = "quiche" /\ s' = s /\ api' = api /\ s \in Sessions /\ DOMAIN held = Sessions
    BY <1>10 DEF AdoptSocket, call
  <2>2. held[s] = IF SessionApi THEN {"session", "addrinfo", "socket"} ELSE {"addrinfo", "socket"}
    BY <1>10 DEF AdoptSocket
  <2>3. held'[s] = IF SessionApi THEN held[s] \ {"addrinfo"} ELSE held[s] \cup {"session"}
    BY <1>10, <2>1 DEF AdoptSocket, Own, Release
  <2>4. held'[s] = IF SessionApi THEN {"session", "socket"} ELSE {"addrinfo", "socket", "session"}
    BY <2>2, <2>3, Adopted
  <2> QED
    BY <2>1, <2>4
<1>11. CASE QuicheConnect
  BY <1>11 DEF QuicheConnect, ReturnFalse, Release, Own, Throw, call
<1>12. CASE NewH3Config
  BY <1>12 DEF NewH3Config, ReturnFalse, Release, Own, Throw, call
<1>13. CASE NewH3Conn
  BY <1>13 DEF NewH3Conn, ReturnResource, ReturnFalse, Release, Own, Throw, call
<1>14. CASE UNCHANGED vars
  BY <1>14 DEF vars, call
<1> HIDE DEF OwnerInv, TypeOK, CallTypeOK, ObjectTypeOK, OneBuilt, OwnedAt, SessionApi, Families, Apis
<1>. QED
  BY <1>1, <1>2, <1>3, <1>4, <1>5, <1>6, <1>7, <1>8, <1>9, <1>10, <1>11, <1>12, <1>13, <1>14 DEF Next

\* No step leaves anything with a session that failed or was destroyed.
LEMMA NothingLeaksStep == ASSUME OwnerInv, [Next]_vars PROVE NothingLeaks'
<1> USE DEF OwnerInv, TypeOK, CallTypeOK, ObjectTypeOK, OneBuilt, OwnedAt, SessionApi, Families, Apis,
            Owned, NothingLeaks, OpenIsComplete
<1>1. ASSUME NEW t \in Sessions, NEW a \in Apis, InvalidConfig(t, a) PROVE NothingLeaks'
  BY <1>1 DEF InvalidConfig, Begin
<1>2. ASSUME NEW t \in Sessions, ClientSessionConnect(t) PROVE NothingLeaks'
  BY <1>2 DEF ClientSessionConnect, Begin
<1>3. ASSUME NEW t \in Sessions, QuicproConnect(t) PROVE NothingLeaks'
  BY <1>3 DEF QuicproConnect, Begin
<1>4. ASSUME NEW t \in Sessions, SessionDtor(t) PROVE NothingLeaks'
  BY <1>4 DEF SessionDtor, call
<1>5. CASE CopyHost
  BY <1>5 DEF CopyHost, ReturnFalse, Release, Throw, call
<1>6. CASE ResolveHost
  BY <1>6 DEF ResolveHost, ReturnFalse, Release, Own, Throw, call
<1>7. CASE TryAddress
  BY <1>7 DEF TryAddress, Own, Throw, call
<1>8. CASE FallBack
  BY <1>8 DEF FallBack, call
<1>9. CASE NoConnectedSocket
  BY <1>9 DEF NoConnectedSocket, ReturnFalse, Release, Throw, call
<1>10. CASE AdoptSocket
  BY <1>10 DEF AdoptSocket, Own, Release, call
<1>11. CASE QuicheConnect
  BY <1>11 DEF QuicheConnect, ReturnFalse, Release, Own, Throw, call
<1>12. CASE NewH3Config
  BY <1>12 DEF NewH3Config, ReturnFalse, Release, Own, Throw, call
<1>13. CASE NewH3Conn
  BY <1>13 DEF NewH3Conn, ReturnResource, ReturnFalse, Release, Own, Throw, call
<1>14. CASE UNCHANGED vars
  BY <1>14 DEF vars, call
<1> HIDE DEF OwnerInv, TypeOK, CallTypeOK, ObjectTypeOK, OneBuilt, OwnedAt, SessionApi, Families, Apis,
            Owned, NothingLeaks, OpenIsComplete
<1>. QED
  BY <1>1, <1>2, <1>3, <1>4, <1>5, <1>6, <1>7, <1>8, <1>9, <1>10, <1>11, <1>12, <1>13, <1>14 DEF Next

\* Every session handed to PHP is complete.
LEMMA OpenIsCompleteStep == ASSUME OwnerInv, [Next]_vars PROVE OpenIsComplete'
<1> USE DEF OwnerInv, TypeOK, CallTypeOK, ObjectTypeOK, OneBuilt, OwnedAt, SessionApi, Families, Apis,
            OpenIsComplete
<1>1. ASSUME NEW t \in Sessions, NEW a \in Apis, InvalidConfig(t, a) PROVE OpenIsComplete'
  BY <1>1 DEF InvalidConfig, Begin
<1>2. ASSUME NEW t \in Sessions, ClientSessionConnect(t) PROVE OpenIsComplete'
  BY <1>2 DEF ClientSessionConnect, Begin
<1>3. ASSUME NEW t \in Sessions, QuicproConnect(t) PROVE OpenIsComplete'
  BY <1>3 DEF QuicproConnect, Begin
<1>4. ASSUME NEW t \in Sessions, SessionDtor(t) PROVE OpenIsComplete'
  BY <1>4 DEF SessionDtor, call
<1>5. CASE CopyHost
  BY <1>5 DEF CopyHost, ReturnFalse, Release, Throw, call
<1>6. CASE ResolveHost
  BY <1>6 DEF ResolveHost, ReturnFalse, Release, Own, Throw, call
<1>7. CASE TryAddress
  BY <1>7 DEF TryAddress, Own, Throw, call
<1>8. CASE FallBack
  BY <1>8 DEF FallBack, call
<1>9. CASE NoConnectedSocket
  BY <1>9 DEF NoConnectedSocket, ReturnFalse, Release, Throw, call
<1>10. CASE AdoptSocket
  BY <1>10 DEF AdoptSocket, Own, Release, call
<1>11. CASE QuicheConnect
  BY <1>11 DEF QuicheConnect, ReturnFalse, Release, Own, Throw, call
<1>12. CASE NewH3Config
  BY <1>12 DEF NewH3Config, ReturnFalse, Release, Own, Throw, call
<1>13. CASE NewH3Conn
  BY <1>13 DEF NewH3Conn, ReturnResource, ReturnFalse, Release, Own, Throw, call
<1>14. CASE UNCHANGED vars
  BY <1>14 DEF vars, call
<1> HIDE DEF OwnerInv, TypeOK, CallTypeOK, ObjectTypeOK, OneBuilt, OwnedAt, SessionApi, Families, Apis,
            OpenIsComplete
<1>. QED
  BY <1>1, <1>2, <1>3, <1>4, <1>5, <1>6, <1>7, <1>8, <1>9, <1>10, <1>11, <1>12, <1>13, <1>14 DEF Next

\* The loops keep count of the addresses they have tried.
LEMMA FamilyStep == ASSUME TypeOK, FamilyInv, [Next]_vars PROVE FamilyInv'
<1> USE DEF TypeOK, CallTypeOK, FamilyInv, FamilyPreference, Families, Modes
<1>1. ASSUME NEW t \in Sessions, NEW a \in Apis, InvalidConfig(t, a) PROVE FamilyInv'
  BY <1>1 DEF InvalidConfig, Begin
<1>2. ASSUME NEW t \in Sessions, ClientSessionConnect(t) PROVE FamilyInv'
  BY <1>2 DEF ClientSessionConnect, Begin
<1>3. ASSUME NEW t \in Sessions, QuicproConnect(t) PROVE FamilyInv'
  BY <1>3 DEF QuicproConnect, Begin
<1>4. ASSUME NEW t \in Sessions, SessionDtor(t) PROVE FamilyInv'
  BY <1>4 DEF SessionDtor, call
<1>5. CASE CopyHost
  BY <1>5 DEF CopyHost, ReturnFalse, call
<1>6. CASE ResolveHost
  BY <1>6, ConnectAssumption DEF ResolveHost, ReturnFalse, call, TryFamily
<1>7. CASE TryAddress
  BY <1>7 DEF TryAddress, call
<1>8. CASE FallBack
  BY <1>8 DEF FallBack, call, TryFamily
<1>9. CASE NoConnectedSocket
  BY <1>9 DEF NoConnectedSocket, ReturnFalse, call
<1>10. CASE AdoptSocket
  BY <1>10 DEF AdoptSocket, call
<1>11. CASE QuicheConnect
  BY <1>11 DEF QuicheConnect, ReturnFalse, call
<1>12. CASE NewH3Config
  BY <1>12 DEF NewH3Config, ReturnFalse, call
<1>13. CASE NewH3Conn
  BY <1>13 DEF NewH3Conn, ReturnResource, ReturnFalse, call
<1>14. CASE UNCHANGED vars
  BY <1>14 DEF vars, call
<1> HIDE DEF TypeOK, CallTypeOK, FamilyInv, FamilyPreference, Families, Modes
<1>. QED
  BY <1>1, <1>2, <1>3, <1>4, <1>5, <1>6, <1>7, <1>8, <1>9, <1>10, <1>11, <1>12, <1>13, <1>14 DEF Next

\* Every failing step throws, and only a new call clears the exception.
LEMMA FailureThrowsStep == ASSUME TypeOK, FailureThrows, [Next]_vars PROVE FailureThrows'
<1> USE DEF TypeOK, CallTypeOK, FailureThrows, Apis
<1>1. ASSUME NEW t \in Sessions, NEW a \in Apis, InvalidConfig(t, a) PROVE FailureThrows'
  BY <1>1 DEF InvalidConfig, Begin
<1>2. ASSUME NEW t \in Sessions, ClientSessionConnect(t) PROVE FailureThrows'
  BY <1>2 DEF ClientSessionConnect, Begin
<1>3. ASSUME NEW t \in Sessions, QuicproConnect(t) PROVE FailureThrows'
  BY <1>3 DEF QuicproConnect, Begin
<1>4. ASSUME NEW t \in Sessions, SessionDtor(t) PROVE FailureThrows'
  BY <1>4 DEF SessionDtor, call
<1>5. CASE CopyHost
  BY <1>5 DEF CopyHost, ReturnFalse, Throw, call
<1>6. CASE ResolveHost
  BY <1>6 DEF ResolveHost, ReturnFalse, Throw, call
<1>7. CASE TryAddress
  <2>1. exception' = TRUE \/ UNCHANGED exception
    BY <1>7 DEF TryAddress, Throw
  <2>2. UNCHANGED <<result, api>>
    BY <1>7 DEF TryAddress, call
  <2>. QED
    BY <2>1, <2>2
<1>8. CASE FallBack
  BY <1>8 DEF FallBack, call
<1>9. CASE NoConnectedSocket
  BY <1>9 DEF NoConnectedSocket, ReturnFalse, Throw, call
<1>10. CASE AdoptSocket
  BY <1>10 DEF AdoptSocket, call
<1>11. CASE QuicheConnect
  BY <1>11 DEF QuicheConnect, ReturnFalse, Throw, call
<1>12. CASE NewH3Config
  BY <1>12 DEF NewH3Config, ReturnFalse, Throw, call
<1>13. CASE NewH3Conn
  BY <1>13 DEF NewH3Conn, ReturnResource, ReturnFalse, Throw, call
<1>14. CASE UNCHANGED vars
  BY <1>14 DEF vars, call
<1> HIDE DEF TypeOK, CallTypeOK, FailureThrows, Apis
<1>. QED
  BY <1>1, <1>2, <1>3, <1>4, <1>5, <1>6, <1>7, <1>8, <1>9, <1>10, <1>11, <1>12, <1>13, <1>14 DEF Next

\* The initial state has the types of SessionConnect.
LEMMA InitTyped == Init => TypeOK
<1>. SUFFICES ASSUME Init PROVE TypeOK
  OBVIOUS
<1>1. CallTypeOK
  BY DEF Init, CallTypeOK, Modes, Steps
<1>2. ObjectTypeOK
  BY DEF Init, ObjectTypeOK, Apis
<1>. QED
  BY <1>1, <1>2 DEF TypeOK

\* The variables of SessionConnect keep their types.
THEOREM ConnectTypeCorrect == Spec => []TypeOK
<1>1. TypeOK /\ [Next]_vars => TypeOK'
  BY CallTypeStep, ObjectTypeStep DEF TypeOK
<1>. QED
  BY InitTyped, <1>1, PTL DEF Spec

\* Whatever fails and however many addresses there are, a session that is not
\* open owns nothing, and one that is open is complete.
THEOREM ConnectOwnershipCorrect == Spec => [](NothingLeaks /\ OpenIsComplete)
<1>1. Init => OwnerInv
  <2>. SUFFICES ASSUME Init PROVE OwnerInv
    OBVIOUS
  <2>1. OneBuilt /\ OwnedAt /\ NothingLeaks /\ OpenIsComplete
    BY DEF Init, OneBuilt, OwnedAt, NothingLeaks, OpenIsComplete, Families
  <2>. QED
    BY InitTyped, <2>1 DEF OwnerInv
<1>2. OwnerInv /\ [Next]_vars => OwnerInv'
  BY CallTypeStep, ObjectTypeStep, OneBuiltStep, OwnedAtStep, NothingLeaksStep,
     OpenIsCompleteStep DEF OwnerInv, TypeOK
<1>3. OwnerInv => NothingLeaks /\ OpenIsComplete
  BY DEF OwnerInv
<1>. QED
  BY <1>1, <1>2, <1>3, PTL DEF Spec

\* A session PHP can use has everything the later calls dereference: socket,
\* connection and HTTP/3 state, whichever of the two connect functions built it.
THEOREM OpenSessionsAreComplete == Spec => []OpenIsComplete
  BY ConnectOwnershipCorrect, PTL

\* IPv4 is taken only after every IPv6 address failed, unless the option says
\* otherwise, for any number of addresses.
THEOREM FamilyPreferenceCorrect == Spec => []FamilyPreference
<1>1. Init => FamilyInv
  BY DEF Init, FamilyInv, FamilyPreference
<1>2. TypeOK /\ FamilyInv /\ [Next]_vars => FamilyInv'
  BY FamilyStep
<1>3. FamilyInv => FamilyPreference
  BY DEF FamilyInv
<1>. QED
  BY ConnectTypeCorrect, <1>1, <1>2, <1>3, PTL DEF Spec

\* quicpro_client_session_connect never returns FALSE without an exception.
THEOREM FailureThrowsCorrect == Spec => []FailureThrows
<1>1. Init => FailureThrows
  BY DEF Init, FailureThrows
<1>. QED
  BY ConnectTypeCorrect, <1>1, FailureThrowsStep, PTL DEF Spec
=============================================================================
