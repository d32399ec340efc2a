---------------------------- MODULE CatalogProofs ----------------------------
(***************************************************************************)
(* Tokens are unique and clients read their own writes, for any number of  *)
(* clients, titles and rows.                                               *)
(***************************************************************************)
EXTENDS VideoCatalog, TLAPS

\* At first the table is empty and nobody has a token.
LEMMA InitInv == Init => IInv
<1> SUFFICES ASSUME Init PROVE IInv
  OBVIOUS
<1>1. TypeOK
  BY CatalogAssumption DEF Init, TypeOK
<1>2. TokensName /\ OrphansAreLostAnswers /\ IdInv /\ OwnInv /\ SeenInv
  BY DEF Init, TokensName, OrphansAreLostAnswers, IdInv, OwnInv, SeenInv
<1>3. QED
  BY <1>1, <1>2 DEF IInv

\* The row that is inserted is new.
LEMMA InsertStep ==
  ASSUME IInv, NEW c \in Clients, Insert(c)
  PROVE  IInv'
<1> DEFINE row == Row(lastId + 1, title[c])
<1>1. /\ pc[c] = "insert" /\ pc' = [pc EXCEPT ![c] = "inserted"]
      /\ lastId < MaxId /\ lastId' = lastId + 1
      /\ master' = master \cup {row}
      /\ result' = [result EXCEPT ![c] = {row}]
      /\ title[c] # None
      /\ UNCHANGED <<title, tokens, replica, listing, lost>>
  BY DEF Insert, Goto
<1>2. title[c] \in Titles
  BY <1>1 DEF IInv, TypeOK
<1>3. row \in Rows /\ row.id = lastId + 1
  BY <1>1, <1>2, CatalogAssumption DEF IInv, TypeOK, Rows, Row, Ids
<1>4. row \notin master
  BY <1>3 DEF IInv, IdInv, TypeOK
<1> HIDE DEF row
<1>5. TypeOK'
  <2>1. /\ lastId' \in 0 .. MaxId /\ master' \in SUBSET Rows
        /\ result' \in [Clients -> SUBSET Rows]
        /\ pc' \in [Clients -> {"idle", "insert", "inserted", "select", "selected"}]
    BY <1>1, <1>3, CatalogAssumption DEF IInv, TypeOK
  <2>2. ASSUME NEW d \in Clients
        PROVE  /\ pc'[d] = "inserted" => \E r \in master' : result'[d] = {r}
               /\ pc'[d] \in {"idle", "insert", "select"} => result'[d] = {}
    BY <1>1 DEF IInv, TypeOK
  <2>3. QED
    BY <1>1, <2>1, <2>2 DEF IInv, TypeOK
<1>6. TokensName'
  <2>1. \A r, s \in master' : r.id = s.id => r = s
    <3>1. \A r \in master : r.id # row.id
      BY <1>3 DEF IInv, IdInv, TypeOK, Rows, Ids
    <3>2. QED
      BY <1>1, <3>1 DEF IInv, TokensName
  <2>2. QED
    BY <1>1, <2>1 DEF IInv, TokensName
<1>7. IdInv'
  BY <1>1, <1>3 DEF IInv, IdInv, TypeOK, Rows, Ids
<1>8. OwnInv'
  <2>1. \A d \in Clients : row \notin tokens[d]
    BY <1>4 DEF IInv, TokensName
  <2>2. \A d \in Clients : pc[d] = "inserted" => row \notin result[d]
    BY <1>4 DEF IInv, TypeOK
  <2>3. QED
    BY <1>1, <2>1, <2>2 DEF IInv, OwnInv, TypeOK
<1>9. SeenInv'
  BY <1>1 DEF IInv, SeenInv, TypeOK
<1>10. OrphansAreLostAnswers'
  <2>1. \A d \in Clients : Awaited(d)' = IF d = c THEN {row} ELSE Awaited(d)
    BY <1>1 DEF Awaited, IInv, TypeOK
  <2>2. row \notin lost' /\ row \in Awaited(c)'
    BY <1>1, <1>4, <2>1 DEF IInv, TypeOK
  <2>3. Awaited(c) = {}
    BY <1>1 DEF Awaited
  <2>4. QED
    BY <1>1, <1>4, <2>1, <2>2, <2>3 DEF IInv, OrphansAreLostAnswers
<1>11. QED
  BY <1>5, <1>6, <1>7, <1>8, <1>9, <1>10 DEF IInv

\* The token that is answered is nobody else's.
LEMMA AnswerTokenStep ==
  ASSUME IInv, NEW c \in Clients, AnswerToken(c)
  PROVE  IInv'
<1>1. /\ pc[c] = "inserted" /\ pc' = [pc EXCEPT ![c] = "idle"]
      /\ tokens' = [tokens EXCEPT ![c] = tokens[c] \cup result[c]]
      /\ result' = [result EXCEPT ![c] = {}]
      /\ UNCHANGED <<title, master, replica, lastId, listing, lost>>
  BY DEF AnswerToken, Goto
<1>2. result[c] \subseteq master /\ result[c] \subseteq Rows
  BY <1>1 DEF IInv, TypeOK
<1>3. TypeOK'
  BY <1>1, <1>2 DEF IInv, TypeOK
<1>4. TokensName'
  <2>1. \A d \in Clients : d # c => result[c] \cap tokens[d] = {}
    BY <1>1 DEF IInv, OwnInv
  <2>2. \A d, e \in Clients : tokens'[d] \cap tokens'[e] # {} => d = e
    BY <1>1, <2>1 DEF IInv, TokensName, TypeOK
  <2>3. \A d \in Clients : tokens'[d] \subseteq master'
    BY <1>1, <1>2 DEF IInv, TokensName, TypeOK
  <2>4. QED
    BY <1>1, <2>2, <2>3 DEF IInv, TokensName
<1>5. OwnInv'
  BY <1>1 DEF IInv, OwnInv, TypeOK
<1>6. SeenInv'
  BY <1>1 DEF IInv, SeenInv, TypeOK
<1>7. IdInv'
  BY <1>1 DEF IInv, IdInv, TypeOK
<1>8. OrphansAreLostAnswers'
  <2>1. \A d \in Clients :
          tokens'[d] \cup Awaited(d)' = tokens[d] \cup Awaited(d)
    BY <1>1 DEF Awaited, IInv, TypeOK
  <2>2. QED
    BY <1>1, <2>1 DEF IInv, OrphansAreLostAnswers
<1>9. QED
  BY <1>3, <1>4, <1>5, <1>6, <1>7, <1>8 DEF IInv

\* A row whose answer is lost is awaited by nobody else and named by no token.
LEMMA AnswerLostStep ==
  ASSUME IInv, NEW c \in Clients, AnswerLost(c)
  PROVE  IInv'
<1>1. /\ pc[c] = "inserted" /\ pc' = [pc EXCEPT ![c] = "idle"]
      /\ lost' = lost \cup result[c]
      /\ result' = [result EXCEPT ![c] = {}]
      /\ UNCHANGED <<title, tokens, master, replica, lastId, listing>>
  BY DEF AnswerLost, Goto
<1>2. result[c] \subseteq master /\ result[c] \subseteq Rows
  BY <1>1 DEF IInv, TypeOK
<1>3. TypeOK'
  BY <1>1, <1>2 DEF IInv, TypeOK
<1>4. TokensName' /\ IdInv' /\ OwnInv' /\ SeenInv'
  BY <1>1 DEF IInv, TypeOK, TokensName, IdInv, OwnInv, SeenInv
<1>5. OrphansAreLostAnswers'
  <2>1. \A d \in Clients : Awaited(d)' = IF d = c THEN {} ELSE Awaited(d)
    BY <1>1 DEF Awaited, IInv, TypeOK
  <2>2. Awaited(c) = result[c]
    BY <1>1 DEF Awaited
  <2>3. \A d \in Clients : d # c => result[c] \cap (tokens[d] \cup Awaited(d)) = {}
    BY <1>1 DEF Awaited, IInv, OwnInv
  <2>4. result[c] \cap tokens[c] = {}
    BY <1>1 DEF IInv, OwnInv
  <2>5. ASSUME NEW r \in master
        PROVE  r \in lost' <=>
                 \A d \in Clients : r \notin tokens[d] \cup Awaited(d)'
    <3>1. CASE r \in result[c]
      BY <1>1, <2>1, <2>3, <2>4, <3>1
    <3>2. CASE r \notin result[c]
      BY <1>1, <2>1, <2>2, <3>2 DEF IInv, OrphansAreLostAnswers
    <3>3. QED
      BY <3>1, <3>2
  <2>6. QED
    BY <1>1, <2>5 DEF OrphansAreLostAnswers
<1>6. QED
  BY <1>3, <1>4, <1>5 DEF IInv

\* The other steps of a client touch no row and no token.
LEMMA OtherSteps ==
  ASSUME IInv, NEW c \in Clients,
         \/ \E t \in Titles \cup {None} : Register(c, t)
         \/ RegisterRefused(c) \/ InsertFails(c) \/ RequestList(c) \/ Select(c)
         \/ SelectFails(c) \/ AnswerList(c)
  PROVE  IInv'
<1>10. OrphansAreLostAnswers'
  <2>1. UNCHANGED <<master, lost, tokens>>
    BY DEF Register, RegisterRefused, InsertFails, RequestList, Select, kSelectVideos,
           SelectFails, AnswerList
  <2>2. \A d \in Clients : Awaited(d)' = Awaited(d)
    BY DEF Register, RegisterRefused, InsertFails, RequestList, Select, kSelectVideos,
           SelectFails, AnswerList, Goto, Awaited, IInv, TypeOK
  <2>3. QED
    BY <2>1, <2>2 DEF IInv, OrphansAreLostAnswers
<1> USE <1>10 DEF Goto, IInv, TypeOK, TokensName, IdInv, OwnInv, SeenInv
<1>1. ASSUME NEW t \in Titles \cup {None}, Register(c, t)
      PROVE  IInv'
  BY <1>1 DEF Register
<1>9. CASE RegisterRefused(c)
  BY <1>9 DEF RegisterRefused
<1>2. CASE InsertFails(c)
  <2>1. /\ pc' = [pc EXCEPT ![c] = "idle"] /\ pc[c] = "insert"
        /\ lastId' \in 0 .. MaxId /\ lastId <= lastId'
        /\ UNCHANGED <<title, tokens, master, replica, result, listing, lost>>
    BY <1>2, CatalogAssumption DEF InsertFails
  <2>2. IdInv'
    BY <2>1 DEF Rows, Ids
  <2>3. TypeOK'
    BY <2>1
  <2>4. TokensName' /\ OwnInv' /\ SeenInv'
    BY <2>1
  <2>5. QED
    BY <2>2, <2>3, <2>4
<1>4. CASE RequestList(c)
  BY <1>4 DEF RequestList
<1>5. CASE Select(c)
  BY <1>5 DEF Select, kSelectVideos
<1>6. CASE SelectFails(c)
  BY <1>6 DEF SelectFails
<1>7. CASE AnswerList(c)
  <2>1. /\ pc[c] = "selected" /\ pc' = [pc EXCEPT ![c] = "idle"]
        /\ listing' = [listing EXCEPT ![c] = result[c]]
        /\ result' = [result EXCEPT ![c] = {}]
        /\ UNCHANGED <<title, tokens, master, replica, lastId, lost>>
    BY <1>7 DEF AnswerList
  <2>2. result[c] \subseteq master
    BY <2>1
  <2>3. SeenInv'
    BY <2>1, <2>2
  <2>4. TypeOK'
    <3>1. result[c] \in SUBSET Rows
      BY <2>1
    <3>2. listing' \in [Clients -> SUBSET Rows] /\ result' \in [Clients -> SUBSET Rows]
      BY <2>1, <3>1
    <3>3. QED
      BY <2>1, <3>2
  <2>5. TokensName' /\ IdInv' /\ OwnInv'
    BY <2>1
  <2>6. QED
    BY <2>3, <2>4, <2>5
<1>8. QED
  BY <1>1, <1>2, <1>4, <1>5, <1>6, <1>7, <1>9

\* Every step keeps the inductive invariant.
LEMMA NextInv == IInv /\ [Next]_vars => IInv'
<1> SUFFICES ASSUME IInv, [Next]_vars PROVE IInv'
  OBVIOUS
<1>1. CASE Replicate \/ UNCHANGED vars
  BY <1>1 DEF Replicate, vars, IInv, TypeOK, TokensName, OrphansAreLostAnswers,
       Awaited, IdInv, OwnInv, SeenInv
<1>2. QED
  BY <1>1, InsertStep, AnswerTokenStep, AnswerLostStep, OtherSteps DEF Next

\* The inductive invariant of the table, for any number of clients.
THEOREM Invariance == Spec => []IInv
<1>1. QED
  BY InitInv, NextInv, PTL DEF Spec

\* Every variable of the catalog always has its type, and an insert that has
\* been executed has exactly one row.
THEOREM TypeCorrect == Spec => []TypeOK
<1>1. IInv => TypeOK
  BY DEF IInv
<1>2. QED
  BY <1>1, Invariance, PTL

\* No two clients ever hold one token, whatever is lost and sent again.
THEOREM TokensUnique == Spec => []TokensName
<1>1. IInv => TokensName
  BY DEF IInv
<1>2. QED
  BY <1>1, Invariance, PTL

\* A row without a token is one whose answer was lost.
THEOREM OrphansExplained == Spec => []OrphansAreLostAnswers
<1>1. IInv => OrphansAreLostAnswers
  BY DEF IInv
<1>2. QED
  BY <1>1, Invariance, PTL

\* Every list a client is answered has what it has registered and what it has
\* seen before, also when the list is the one it was answered last.
THEOREM ClientsReadTheirWrites == Spec => ReadsOwnWrites
<1>1. ASSUME IInv, NEW c \in Clients, AnswerList(c)
      PROVE  tokens[c] \cup listing[c] \subseteq listing'[c]
  <2>1. pc[c] = "selected" /\ listing' = [listing EXCEPT ![c] = result[c]]
    BY <1>1 DEF AnswerList, Goto
  <2>2. listing'[c] = result[c]
    BY <1>1, <2>1 DEF IInv, TypeOK
  <2>3. QED
    BY <1>1, <2>1, <2>2 DEF IInv, SeenInv
<1>2. ASSUME IInv
      PROVE  [\A c \in Clients : AnswerList(c) =>
                tokens[c] \cup listing[c] \subseteq listing'[c]]_vars
  BY <1>1, <1>2
<1>3. QED
  BY <1>2, Invariance, PTL DEF ReadsOwnWrites

=============================================================================
