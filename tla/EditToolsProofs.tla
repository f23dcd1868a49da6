---------------------------- MODULE EditToolsProofs ----------------------------
(***************************************************************************)
(* Proofs about EditTools, for every set of calls, rows, boards and        *)
(* requests.                                                               *)
(*                                                                         *)
(* AnswerInv says how far a call has come with its list of writes, and     *)
(* RowsInv that no list holds a write that could spoil a connector.  The   *)
(* second part follows a call from its first query: what it has read while *)
(* it still asks (ReadsFit), and what it sends thereafter (WritesFit).     *)
(*                                                                         *)
(* EditInv adds that places and sizes are numbers, stored and read, and    *)
(* that what a call has read answers its queries (Knows).  From it follow  *)
(* the types and what a stored write changes: the fields that were named,  *)
(* the members of a moved area, the bounds around an area's members.       *)
(*                                                                         *)
(* NamesInv adds that nobody names a row before the server has drawn its   *)
(* id, so a stale list cannot come to hold a row of another kind or board. *)
(***************************************************************************)
EXTENDS EditTools, WellFoundedInduction, FiniteSetTheorems, SequenceTheorems, TLAPS

Refusals == {"VALIDATION_ERROR", "NOT_FOUND", "FORBIDDEN", "INTERNAL_ERROR"}

\* The writes that c sends.
List(c) == Writes(request[c], seen[c])

Types ==
  /\ phase \in [Call -> {"validate", "query", "emit", "wait", "done"}]
  /\ sent \in [Call -> 0..MaxWrites]
  /\ results \in [Call -> Seq(Result)]
  /\ DOMAIN answer = Call
  /\ DOMAIN seen = Call
  /\ Delivery!TypeOK
  /\ reply \in [Sending -> SUBSET {"ok", "refused"}]
  /\ \A c \in Call : Accepted(request[c])

\* A call that has sent or may send has a valid request; the writes it has not sent
\* are still of its list, which is never empty.
Progress(c) ==
  /\ phase[c] # "done" => answer[c] = "none"
  /\ phase[c] \in {"validate", "query"} => sent[c] = 0
  /\ phase[c] \in {"query", "emit", "wait"} \/ sent[c] > 0 => Valid(request[c])
  /\ phase[c] = "emit" => sent[c] < Len(List(c)) /\ Len(List(c)) <= MaxWrites
  /\ sent[c] > 0 => sent[c] <= Len(List(c))
  /\ phase[c] = "wait" => sent[c] > 0 /\ Len(results[c]) = sent[c] - 1
  /\ phase[c] # "wait" => Len(results[c]) = sent[c]

\* What was answered, by write and for the whole.
Account(c) ==
  /\ \A n \in DOMAIN results[c] : results[c][n] = "ok" => "ok" \in reply[<<c, n>>]
  /\ request[c].tool # "bulk_update_positions" =>
       \A n \in DOMAIN results[c] :
         results[c][n] = "ok" \/ (phase[c] = "done" /\ n = Len(results[c]))
  /\ \A n \in 1..MaxWrites : n > sent[c] => handled[<<c, n>>] = 0
  /\ answer[c] = "ok" => Len(results[c]) = Len(List(c))
  /\ answer[c] \in Refusals => sent[c] = 0

AnswerInv == Types /\ \A c \in Call : Progress(c) /\ Account(c)

-----------------------------------------------------------------------------
(* The lists of writes.                                                     *)

OneWriteTool == Tool \ {"update_table", "bulk_update_positions"}

\* All tools but two send one write.
LEMMA OneWrite ==
  ASSUME NEW r, NEW read, r.tool \in OneWriteTool
  PROVE  Len(Writes(r, read)) = 1
<1>1. CASE r.tool \in {"create_area", "create_table", "create_column", "create_relationship"}
  BY <1>1 DEF Writes, createAreaWrites, createTableWrites, createColumnWrites,
              createRelationshipWrites
<1>2. CASE r.tool \in {"add_table_to_area", "remove_table_from_area"}
  BY <1>2 DEF Writes, mutateAreaMembershipWrites
<1>3. CASE r.tool = "move_area"
  BY <1>3 DEF Writes, moveAreaWrites
<1>4. CASE r.tool \in {"delete_table", "delete_column", "delete_relationship"}
  BY <1>4 DEF Writes, deleteTableWrites, deleteColumnWrites, deleteRelationshipWrites
<1>5. CASE r.tool \in {"update_column", "update_relationship", "reorder_columns"}
  BY <1>5 DEF Writes, updateColumnWrites, updateRelationshipWrites, reorderColumnsWrites
<1>6. CASE r.tool \in {"create_canvas_element", "update_canvas_element", "delete_canvas_element"}
  BY <1>6 DEF Writes, createElementWrites, updateElementWrites, deleteElementWrites
<1>7. CASE r.tool \in {"create_canvas_connector", "update_canvas_connector"}
  BY <1>7 DEF Writes, createConnectorWrites, updateConnectorWrites
<1> QED  BY <1>1, <1>2, <1>3, <1>4, <1>5, <1>6, <1>7 DEF OneWriteTool, Tool

\* update_table sends one write or two.
LEMMA TableWrites ==
  ASSUME NEW r, NEW read, r.tool = "update_table", Accepted(r), Valid(r)
  PROVE  Len(Writes(r, read)) \in 1..2
<1>1. DOMAIN r.set # {} /\ DOMAIN r.set \subseteq {"name", "width", "x", "y"}
  BY DEF Accepted, MembershipTool, FieldsOf, Valid, updateTableValid
<1>2. Writes(r, read) = updateTableWrites(r, read)
  BY DEF Writes
<1> DEFINE meta == Named(r, {"name", "width"})
           none == DOMAIN meta = {}
           still == {"x", "y"} \cap DOMAIN r.set = {}
<1>3. DOMAIN meta = {"name", "width"} \cap DOMAIN r.set
  BY DEF Named, Restrict
<1>4. ~(none /\ still)
  BY <1>1, <1>3
<1>5. PICK u, m : updateTableWrites(r, read)
                    = (IF none THEN <<>> ELSE <<u>>) \o (IF still THEN <<>> ELSE <<m>>)
  BY DEF updateTableWrites
<1> HIDE DEF meta, none, still
<1>6. CASE none
  BY <1>2, <1>4, <1>5, <1>6
<1>7. CASE ~none /\ still
  BY <1>2, <1>5, <1>7
<1>8. CASE ~none /\ ~still
  BY <1>2, <1>5, <1>8
<1> QED  BY <1>6, <1>7, <1>8

\* bulk_update_positions sends one write for each position.
LEMMA PositionWrites ==
  ASSUME NEW r, NEW read, r.tool = "bulk_update_positions", Accepted(r), Valid(r)
  PROVE  Len(Writes(r, read)) \in 1..MaxPositions
<1>1. Len(r.positions) \in 1..MaxPositions /\ DOMAIN r.positions = 1..Len(r.positions)
  BY DEF Accepted, Valid, positionsValid
<1>2. Writes(r, read) = positionsWrites(r)
  BY DEF Writes
<1>3. Len(positionsWrites(r)) = Len(r.positions)
  BY <1>1 DEF positionsWrites
<1> QED  BY <1>1, <1>2, <1>3

LEMMA WritesBounded ==
  ASSUME NEW r, NEW read, Accepted(r), Valid(r)
  PROVE  Len(Writes(r, read)) \in 1..MaxWrites
<1> DEFINE k == Len(Writes(r, read))
<1> SUFFICES k \in 1..MaxWrites
  OBVIOUS
<1>1. CASE r.tool = "update_table"
  <2>1. k \in 1..2
    BY <1>1, TableWrites
  <2> HIDE DEF k
  <2> QED  BY <2>1, BoundsAssumption
<1>2. CASE r.tool = "bulk_update_positions"
  <2>1. k \in 1..MaxPositions
    BY <1>2, PositionWrites
  <2> HIDE DEF k
  <2> QED  BY <2>1, BoundsAssumption
<1>3. CASE r.tool \in OneWriteTool
  <2>1. k = 1
    BY <1>3, OneWrite
  <2> HIDE DEF k
  <2> QED  BY <2>1, BoundsAssumption
<1> QED  BY <1>1, <1>2, <1>3 DEF Accepted, OneWriteTool

-----------------------------------------------------------------------------
(* What a call answers.                                                     *)

LEMMA TypesInit == Init => Types
<1> SUFFICES ASSUME Init PROVE Types
  OBVIOUS
<1>1. sent \in [Call -> 0..MaxWrites]
  BY BoundsAssumption DEF Init
<1>2. results \in [Call -> Seq(Result)]
  <2>1. <<>> \in Seq(Result)
    OBVIOUS
  <2> QED  BY <2>1 DEF Init
<1>a. DOMAIN answer = Call
  BY DEF Init
<1>3. Delivery!TypeOK
  BY DEF Init, Delivery!Init, Delivery!TypeOK, Delivery!Outcome
<1>4. \A c \in Call : Accepted(request[c])
  BY ScenarioAssumption DEF Init
<1>5. phase \in [Call -> {"validate", "query", "emit", "wait", "done"}] /\ DOMAIN seen = Call
  BY DEF Init
<1>6. reply \in [Sending -> SUBSET {"ok", "refused"}]
  BY DEF Init
<1> QED  BY <1>1, <1>2, <1>a, <1>3, <1>4, <1>5, <1>6 DEF Types

LEMMA AnswerInit == Init => AnswerInv
<1> SUFFICES ASSUME Init PROVE AnswerInv
  OBVIOUS
<1>1. Types
  BY TypesInit
<1>2. ASSUME NEW c \in Call PROVE Progress(c) /\ Account(c)
  <2>1. \A n \in 1..MaxWrites : handled[<<c, n>>] = 0
    BY DEF Init, Delivery!Init, Sending
  <2>2. phase[c] = "validate" /\ sent[c] = 0 /\ results[c] = <<>> /\ answer[c] = "none"
    BY DEF Init
  <2> QED  BY <2>1, <2>2 DEF Progress, Account, Refusals
<1> QED  BY <1>1, <1>2 DEF AnswerInv

\* The write that c waits for is one of those that may be on their way.
LEMMA Awaited ==
  ASSUME AnswerInv, NEW c \in Call, phase[c] = "wait"
  PROVE  /\ <<c, sent[c]>> \in Sending
         /\ reply[<<c, sent[c]>>] \subseteq {"ok", "refused"}
<1>1. sent[c] \in 1..MaxWrites
  BY BoundsAssumption DEF AnswerInv, Types, Progress
<1> QED  BY <1>1 DEF AnswerInv, Types, Sending

\* How the awaited write ends, by Delivery.
LEMMA EndsOfWrites ==
  ASSUME AnswerInv, NEW w \in Sending, Delivery!Succeed(w) \/ Delivery!Fail({w})
  PROVE  /\ Delivery!TypeOK' /\ UNCHANGED handled
         /\ Delivery!Fail({w}) => outcome'[w] \in {"connErr", "expired"}
<1>1. Delivery!TypeOK
  BY DEF AnswerInv, Types
<1>2. CASE Delivery!Succeed(w)
  BY <1>1, <1>2 DEF Delivery!Succeed, Delivery!TypeOK, Delivery!Outcome, Delivery!Fail
<1>3. CASE Delivery!Fail({w})
  BY <1>1, <1>3 DEF Delivery!Fail, Delivery!TypeOK, Delivery!Outcome
<1> QED  BY <1>2, <1>3

\* A step of call c keeps the account of the others.
LEMMA OthersKeep ==
  ASSUME AnswerInv, NEW c \in Call, NEW d \in Call \ {c},
         phase'[d] = phase[d], sent'[d] = sent[d], results'[d] = results[d],
         answer'[d] = answer[d], seen'[d] = seen[d],
         UNCHANGED <<request, handled, reply>>
  PROVE  Progress(d)' /\ Account(d)'
<1>1. Progress(d) /\ Account(d)
  BY DEF AnswerInv
<1>2. List(d)' = List(d)
  BY DEF List
<1> QED  BY <1>1, <1>2 DEF Progress, Account

\* A step that only ends a call before it has sent anything.
LEMMA Refused ==
  ASSUME AnswerInv, NEW c \in Call, phase[c] \in {"validate", "query"},
         NEW code, code # "ok",
         Answer(c, code),
         DOMAIN seen' = Call, \A d \in Call \ {c} : seen'[d] = seen[d],
         UNCHANGED <<request, sent, results, writeVars>>
  PROVE  AnswerInv'
<1>t. Types /\ Progress(c) /\ Account(c)
  BY DEF AnswerInv
<1>1. Types'
  BY <1>t DEF Types, Answer, writeVars, Delivery!TypeOK
<1>2. ASSUME NEW d \in Call \ {c} PROVE Progress(d)' /\ Account(d)'
  <2>1. phase'[d] = phase[d] /\ answer'[d] = answer[d]
    BY <1>t DEF Types, Answer
  <2>2. /\ seen'[d] = seen[d] /\ sent'[d] = sent[d] /\ results'[d] = results[d]
        /\ UNCHANGED <<request, handled, reply>>
    BY DEF writeVars
  <2> QED  BY <2>1, <2>2, OthersKeep
<1>3. /\ sent[c] = 0 /\ sent'[c] = 0 /\ results'[c] = results[c]
      /\ phase'[c] = "done" /\ answer'[c] = code
  BY <1>t DEF Types, Progress, Answer
<1>r. results[c] = <<>>
  <2>1. Len(results[c]) = 0
    BY <1>t, <1>3 DEF Progress
  <2> QED  BY <1>t, <2>1 DEF Types
<1>4. Progress(c)'
  BY <1>r, <1>3 DEF Progress
<1>5. Account(c)'
  <2>1. results'[c] = results[c] /\ results[c] = <<>>
    BY <1>r, <1>3
  <2>2. DOMAIN results[c] = {}
    BY <2>1
  <2>3. \A n \in 1..MaxWrites : n > sent'[c] => handled'[<<c, n>>] = 0
    BY <1>t, <1>3 DEF Account, writeVars
  <2> QED  BY <1>3, <2>1, <2>2, <2>3 DEF Account
<1> QED  BY <1>1, <1>2, <1>4, <1>5 DEF AnswerInv

\* A step that brings a call nearer to its writes.
LEMMA Advances ==
  ASSUME AnswerInv, NEW c \in Call, phase[c] \in {"validate", "query"},
         NEW p \in {"query", "emit"}, Valid(request[c]),
         phase' = [phase EXCEPT ![c] = p],
         DOMAIN seen' = Call, \A d \in Call \ {c} : seen'[d] = seen[d],
         UNCHANGED <<request, sent, results, answer, writeVars>>
  PROVE  AnswerInv'
<1>t. Types /\ Progress(c) /\ Account(c)
  BY DEF AnswerInv
<1>1. Types'
  BY <1>t DEF Types, writeVars, Delivery!TypeOK
<1>2. ASSUME NEW d \in Call \ {c} PROVE Progress(d)' /\ Account(d)'
  <2>1. phase'[d] = phase[d] /\ answer'[d] = answer[d]
    BY <1>t DEF Types
  <2>2. /\ seen'[d] = seen[d] /\ sent'[d] = sent[d] /\ results'[d] = results[d]
        /\ UNCHANGED <<request, handled, reply>>
    BY DEF writeVars
  <2> QED  BY <2>1, <2>2, OthersKeep
<1>3. /\ sent[c] = 0 /\ sent' = sent /\ results' = results /\ answer' = answer
      /\ phase'[c] = p /\ answer[c] = "none" /\ request' = request
  BY <1>t DEF Types, Progress
<1>r. results[c] = <<>>
  <2>1. Len(results[c]) = 0
    BY <1>t, <1>3 DEF Progress
  <2> QED  BY <1>t, <2>1 DEF Types
<1>4. Progress(c)'
  <2> DEFINE k == Len(List(c)')
  <2>1. k \in 1..MaxWrites
    BY <1>3, <1>t, WritesBounded DEF List, Types
  <2>2. \/ phase'[c] = "query"
        \/ phase'[c] = "emit" /\ k > 0 /\ k <= MaxWrites
    <3> HIDE DEF k
    <3> QED  BY <1>3, <2>1, BoundsAssumption
  <2> QED  BY <1>r, <1>3, <2>2 DEF Progress
<1>5. Account(c)'
  <2>1. DOMAIN results'[c] = {}
    BY <1>r, <1>3
  <2>2. \A n \in 1..MaxWrites : n > sent'[c] => handled'[<<c, n>>] = 0
    BY <1>t, <1>3 DEF Account, writeVars
  <2> QED  BY <1>3, <2>1, <2>2 DEF Account, Refusals
<1> QED  BY <1>1, <1>2, <1>4, <1>5 DEF AnswerInv

\* A step that ends a write with the result it really had.
LEMMA Proceeds ==
  ASSUME AnswerInv, NEW c \in Call, phase[c] = "wait",
         NEW result \in Result, Proceed(c, result),
         result = "ok" => "ok" \in reply[<<c, sent[c]>>],
         Delivery!TypeOK'
  PROVE  AnswerInv'
<1>t. Types /\ Progress(c) /\ Account(c)
  BY DEF AnswerInv
<1>n. sent[c] \in Nat /\ sent[c] > 0 /\ Len(results[c]) = sent[c] - 1 /\ results[c] \in Seq(Result)
  BY <1>t, BoundsAssumption DEF Types, Progress
<1>s. UNCHANGED <<request, seen, sent, handled, reply>>
  BY DEF Proceed
<1>r. /\ results'[c] = Append(results[c], result) /\ results' \in [Call -> Seq(Result)]
      /\ \A d \in Call \ {c} : results'[d] = results[d]
  BY <1>t DEF Proceed, Types
<1>p. \/ /\ result # "ok" /\ request[c].tool # "bulk_update_positions"
         /\ Answer(c, result)
      \/ /\ result = "ok" \/ request[c].tool = "bulk_update_positions"
         /\ \/ /\ sent[c] < Len(List(c))
               /\ phase' = [phase EXCEPT ![c] = "emit"] /\ answer' = answer
            \/ /\ ~(sent[c] < Len(List(c)))
               /\ Answer(c, "ok")
  BY DEF Proceed, GoesOn, List
<1>1. Types'
  <2>1. /\ phase' \in [Call -> {"validate", "query", "emit", "wait", "done"}]
        /\ DOMAIN answer' = Call
    BY <1>t, <1>p DEF Answer, Types
  <2> QED  BY <1>t, <1>s, <1>r, <2>1 DEF Types
<1>2. ASSUME NEW d \in Call \ {c} PROVE Progress(d)' /\ Account(d)'
  <2>1. phase'[d] = phase[d] /\ answer'[d] = answer[d]
    BY <1>t, <1>p DEF Types, Answer
  <2>2. seen'[d] = seen[d] /\ sent'[d] = sent[d] /\ results'[d] = results[d]
    BY <1>s, <1>r
  <2> QED  BY <1>s, <2>1, <2>2, OthersKeep
<1>a. answer[c] = "none" /\ List(c)' = List(c) /\ request' = request
  BY <1>t, <1>s DEF Progress, List
<1>w. /\ Len(List(c)) \in 1..MaxWrites
      /\ Valid(request[c])
  <2>1. Valid(request[c]) /\ Accepted(request[c])
    BY <1>t DEF Progress, Types
  <2> QED  BY <2>1, WritesBounded DEF List
<1>v. Valid(request[c])
  BY <1>w
<1>l. Len(results'[c]) = sent[c]
  BY <1>n, <1>r
<1>e. \A n \in DOMAIN results'[c] :
        \/ n \in DOMAIN results[c] /\ results'[c][n] = results[c][n] /\ n # Len(results'[c])
        \/ n = sent[c] /\ results'[c][n] = result /\ n = Len(results'[c])
  BY <1>n, <1>r, <1>l
<1>o. \A n \in DOMAIN results[c] : n # Len(results'[c])
  BY <1>n, <1>l
<1>b. sent[c] <= Len(List(c))
  BY <1>t, <1>n DEF Progress
<1>3. Progress(c)'
  <2>1. CASE phase'[c] = "emit" /\ sent[c] < Len(List(c)) /\ answer'[c] = "none"
    <3> DEFINE k == Len(List(c))
    <3>1. k \in 1..MaxWrites
      BY <1>w
    <3>2. k <= MaxWrites
      <4> HIDE DEF k
      <4> QED  BY <3>1, BoundsAssumption
    <3> QED  BY <1>n, <1>s, <1>a, <1>w, <1>l, <1>b, <2>1, <3>2 DEF Progress
  <2>2. CASE phase'[c] = "done"
    BY <1>n, <1>s, <1>a, <1>v, <1>l, <1>b, <2>2 DEF Progress
  <2> QED  BY <1>t, <1>p, <1>a, <2>1, <2>2 DEF Answer, Types
<1>4. Account(c)'
  <2>1. \A n \in DOMAIN results'[c] : results'[c][n] = "ok" => "ok" \in reply'[<<c, n>>]
    BY <1>t, <1>s, <1>e DEF Account
  <2>2. ASSUME request[c].tool # "bulk_update_positions", NEW n \in DOMAIN results'[c]
        PROVE  results'[c][n] = "ok" \/ (phase'[c] = "done" /\ n = Len(results'[c]))
    <3>1. CASE n \in DOMAIN results[c] /\ results'[c][n] = results[c][n]
      BY <1>t, <2>2, <3>1 DEF Account
    <3>2. CASE n = Len(results'[c]) /\ results'[c][n] = result
      BY <1>t, <1>p, <2>2, <3>2 DEF Answer, Types
    <3> QED  BY <1>e, <3>1, <3>2
  <2>3. \A n \in 1..MaxWrites : n > sent'[c] => handled'[<<c, n>>] = 0
    BY <1>t, <1>s DEF Account
  <2>4. answer'[c] = "ok" => Len(results'[c]) = Len(List(c))
    <3>1. answer'[c] = "ok" => ~(sent[c] < Len(List(c)))
      BY <1>t, <1>p, <1>a DEF Answer, Types
    <3> DEFINE k == Len(List(c))
    <3>2. k \in 1..MaxWrites
      BY <1>w
    <3>3. answer'[c] = "ok" => ~(sent[c] < k)
      BY <3>1
    <3>4. sent[c] <= k
      BY <1>b
    <3>5. answer'[c] = "ok" => sent[c] = k
      <4> HIDE DEF k
      <4> QED  BY <1>n, <3>2, <3>3, <3>4, BoundsAssumption
    <3> QED  BY <1>l, <3>5
  <2>5. answer'[c] \notin Refusals
    BY <1>t, <1>p, <1>a DEF Answer, Types, Result, Refusals
  <2> QED  BY <1>a, <2>1, <2>2, <2>3, <2>4, <2>5 DEF Account
<1> QED  BY <1>1, <1>2, <1>3, <1>4 DEF AnswerInv

LEMMA AnswerStep == AnswerInv /\ [Next]_vars => AnswerInv'
<1> SUFFICES ASSUME AnswerInv, [Next]_vars PROVE AnswerInv'
  OBVIOUS
<1>t. Types /\ \A c \in Call : Progress(c) /\ Account(c)
  BY DEF AnswerInv
<1>1. ASSUME NEW c \in Call, Validate(c) PROVE AnswerInv'
  <2>1. CASE Valid(request[c])
    BY <1>1, <1>t, <2>1, Advances DEF Validate, Types
  <2>2. CASE ~Valid(request[c])
    BY <1>1, <1>t, <2>2, Refused DEF Validate, Types
  <2> QED  BY <2>1, <2>2
<1>2. ASSUME NEW c \in Call, Query(c) PROVE AnswerInv'
  <2>1. /\ phase[c] = "query" /\ DOMAIN seen' = Call
        /\ \A d \in Call \ {c} : seen'[d] = seen[d]
        /\ UNCHANGED <<request, sent, results, writeVars>>
    BY <1>2, <1>t DEF Query, Types
  <2>2. PICK verdict : IF verdict = "ok" THEN UNCHANGED <<phase, answer>> ELSE Answer(c, verdict)
    BY <1>2 DEF Query
  <2>3. CASE verdict = "ok"
    <3>1. phase' = [phase EXCEPT ![c] = "query"] /\ answer' = answer
      BY <1>t, <2>1, <2>2, <2>3 DEF Types
    <3>2. Valid(request[c])
      BY <1>t, <2>1 DEF Progress
    <3> QED  BY <2>1, <3>1, <3>2, Advances
  <2>4. CASE verdict # "ok"
    BY <2>1, <2>2, <2>4, Refused
  <2> QED  BY <2>3, <2>4
<1>3. ASSUME NEW c \in Call, QueryFails(c) PROVE AnswerInv'
  BY <1>3, <1>t, Refused DEF QueryFails, Types
<1>4. ASSUME NEW c \in Call, Prepare(c) PROVE AnswerInv'
  <2>1. CASE Refusal(request[c], seen[c]) = "none"
    <3>1. Valid(request[c])
      BY <1>4, <1>t DEF Prepare, Progress
    <3> QED  BY <1>4, <1>t, <2>1, <3>1, Advances DEF Prepare, Types
  <2>2. CASE Refusal(request[c], seen[c]) # "none"
    <3>1. Refusal(request[c], seen[c]) # "ok"
      BY <2>2 DEF Refusal, moveAreaRefusal, updateConnectorRefusal
    <3> QED  BY <1>4, <1>t, <2>2, <3>1, Refused DEF Prepare, Types
  <2> QED  BY <2>1, <2>2
<1>5. ASSUME NEW c \in Call, Emit(c) PROVE AnswerInv'
  <2>1. /\ phase[c] = "emit" /\ phase'[c] = "wait" /\ sent'[c] = sent[c] + 1
        /\ \A d \in Call \ {c} : phase'[d] = phase[d] /\ sent'[d] = sent[d]
        /\ UNCHANGED <<rows, standing, request, seen, results, answer, writeVars>>
    BY <1>5, <1>t DEF Emit, Types
  <2> DEFINE k == Len(List(c))
  <2>2. /\ sent[c] \in Nat /\ sent[c] < k /\ k <= MaxWrites
        /\ Len(results[c]) = sent[c] /\ answer[c] = "none" /\ Valid(request[c])
    BY <1>t, <2>1, BoundsAssumption DEF Types, Progress
  <2>3. k \in 1..MaxWrites
    BY <1>t, <2>2, WritesBounded DEF List, Types
  <2>4. sent'[c] \in 0..MaxWrites /\ sent'[c] <= k
    <3> HIDE DEF k
    <3> QED  BY <2>1, <2>2, <2>3, BoundsAssumption
  <2>5. Types'
    <3>1. /\ sent' \in [Call -> 0..MaxWrites]
          /\ phase' \in [Call -> {"validate", "query", "emit", "wait", "done"}]
      BY <1>5, <1>t, <2>4 DEF Emit, Types
    <3> QED  BY <1>t, <2>1, <3>1 DEF Types, writeVars, Delivery!TypeOK
  <2>6. ASSUME NEW d \in Call \ {c} PROVE Progress(d)' /\ Account(d)'
    BY <2>1, OthersKeep DEF writeVars
  <2>7. Progress(c)'
    <3>1. List(c)' = List(c)
      BY <2>1 DEF List
    <3> QED  BY <2>1, <2>2, <2>4, <3>1 DEF Progress
  <2>8. Account(c)'
    <3>1. Account(c)
      BY <1>t
    <3>2. \A n \in 1..MaxWrites : n > sent'[c] => handled'[<<c, n>>] = 0
      BY <2>1, <2>2, <3>1 DEF Account, writeVars
    <3> QED  BY <2>1, <2>2, <3>1, <3>2 DEF Account, writeVars, Refusals
  <2> QED  BY <2>5, <2>6, <2>7, <2>8 DEF AnswerInv
<1>6. ASSUME NEW c \in Call, Acked(c) PROVE AnswerInv'
  <2>1. phase[c] = "wait" /\ Delivery!Succeed(<<c, sent[c]>>)
    BY <1>6 DEF Acked
  <2>2. PICK result \in reply[<<c, sent[c]>>] : Proceed(c, result)
    BY <1>6 DEF Acked
  <2>3. result \in Result
    BY <2>1, Awaited DEF Result
  <2>4. Delivery!TypeOK'
    BY <2>1, Awaited, EndsOfWrites
  <2> QED  BY <2>1, <2>2, <2>3, <2>4, Proceeds
<1>7. ASSUME NEW c \in Call, EmitFails(c) PROVE AnswerInv'
  <2> DEFINE w == <<c, sent[c]>>
  <2>1. phase[c] = "wait" /\ Delivery!Fail({w}) /\ Proceed(c, outcome'[w])
    BY <1>7 DEF EmitFails
  <2>2. w \in Sending
    BY <2>1, Awaited
  <2>3. Delivery!TypeOK' /\ outcome'[w] \in {"connErr", "expired"}
    BY <2>1, <2>2, EndsOfWrites
  <2> QED  BY <2>1, <2>3, Proceeds DEF Result
<1>8. ASSUME NEW c \in Call, NEW n \in 1..MaxWrites, Handle(c, n) PROVE AnswerInv'
  <2> DEFINE w == <<c, n>>
  <2>1. n <= sent[c] /\ Delivery!Handle(w) /\ UNCHANGED <<request, callVars>>
    BY <1>8 DEF Handle
  <2>2. w \in Sending
    BY DEF Sending
  <2>3. PICK r \in {"ok", "refused"} : reply' = [reply EXCEPT ![w] = @ \cup {r}]
    BY <1>8 DEF Handle
  <2>4. /\ \A v \in Sending : reply[v] \subseteq reply'[v]
        /\ reply' \in [Sending -> SUBSET {"ok", "refused"}]
    BY <1>t, <2>2, <2>3 DEF Types
  <2>5. Delivery!TypeOK' /\ handled' = [handled EXCEPT ![w] = @ + 1]
    <3>1. Delivery!TypeOK /\ handled[w] \in 0..2 /\ handled[w] < 2
      BY <1>t, <2>1, <2>2
         DEF Types, Delivery!TypeOK, Delivery!Handle, Delivery!MostDeliveries, Delivery!Outcome
    <3> QED  BY <2>1, <2>2, <3>1 DEF Delivery!TypeOK, Delivery!Handle
  <2>6. Types'
    BY <1>t, <2>1, <2>4, <2>5 DEF Types, callVars
  <2>7. ASSUME NEW d \in Call PROVE Progress(d)' /\ Account(d)'
    <3>1. Progress(d) /\ Account(d) /\ List(d)' = List(d)
      BY <1>t, <2>1 DEF List, callVars
    <3>2. Progress(d)'
      BY <2>1, <3>1 DEF Progress, callVars
    <3>3. \A m \in 1..MaxWrites : m > sent'[d] => handled'[<<d, m>>] = 0
      <4> SUFFICES ASSUME NEW m \in 1..MaxWrites, m > sent[d] PROVE handled'[<<d, m>>] = 0
        BY <2>1 DEF callVars
      <4>1. <<d, m>> # w
        BY <1>t, <2>1, BoundsAssumption DEF Types
      <4>2. handled'[<<d, m>>] = handled[<<d, m>>]
        BY <1>t, <2>5, <4>1 DEF Types, Delivery!TypeOK, Sending
      <4> QED  BY <3>1, <4>2 DEF Account
    <3>4. \A m \in DOMAIN results'[d] : results'[d][m] = "ok" => "ok" \in reply'[<<d, m>>]
      <4> SUFFICES ASSUME NEW m \in DOMAIN results[d], results[d][m] = "ok"
                   PROVE  "ok" \in reply'[<<d, m>>]
        BY <2>1 DEF callVars
      <4>1. "ok" \in reply[<<d, m>>]
        BY <3>1 DEF Account
      <4>2. m \in 1..MaxWrites
        <5>1. Len(results[d]) <= sent[d] /\ results[d] \in Seq(Result) /\ sent[d] \in 0..MaxWrites
          BY <1>t, <3>1, BoundsAssumption DEF Types, Progress
        <5> QED  BY <5>1, BoundsAssumption
      <4> QED  BY <2>4, <4>1, <4>2 DEF Sending
    <3>5. Account(d)'
      BY <2>1, <3>1, <3>3, <3>4 DEF Account, callVars
    <3> QED  BY <3>2, <3>5
  <2> QED  BY <2>6, <2>7 DEF AnswerInv
<1>9. ASSUME UNCHANGED <<request, callVars, writeVars>> PROVE AnswerInv'
  <2>1. Types'
    BY <1>t, <1>9 DEF Types, callVars, writeVars, Delivery!TypeOK
  <2>2. ASSUME NEW d \in Call PROVE Progress(d)' /\ Account(d)'
    <3>1. Progress(d) /\ Account(d) /\ List(d)' = List(d)
      BY <1>t, <1>9 DEF List, callVars
    <3> QED  BY <1>9, <3>1 DEF Progress, Account, callVars, writeVars
  <2> QED  BY <2>1, <2>2 DEF AnswerInv
<1>10. CASE Meddle
  BY <1>9, <1>10 DEF Meddle
<1>11. CASE UNCHANGED vars
  BY <1>9, <1>11 DEF vars
<1> QED  BY <1>1, <1>2, <1>3, <1>4, <1>5, <1>6, <1>7, <1>8, <1>10, <1>11 DEF Next, CallStep

\* What a call answers is true of the server, for any requests, rows and schedule.
THEOREM AnswersTellTheTruth == Spec => []AnswerTellsStored
<1>1. AnswerInv => AnswerTellsStored
  <2> SUFFICES ASSUME AnswerInv, NEW c \in Call
               PROVE  /\ \A n \in DOMAIN results[c] : results[c][n] = "ok" => "ok" \in reply[<<c, n>>]
                      /\ request[c].tool # "bulk_update_positions" =>
                           \A n \in 1..(sent[c] - 1) : "ok" \in reply[<<c, n>>]
                      /\ answer[c] = "ok" => Len(results[c]) = Len(List(c))
                      /\ answer[c] \in Refusals => \A n \in 1..MaxWrites : handled[<<c, n>>] = 0
    BY DEF AnswerTellsStored, List, Refusals
  <2>1. Types /\ Progress(c) /\ Account(c)
    BY DEF AnswerInv
  <2>2. ASSUME request[c].tool # "bulk_update_positions", NEW n \in 1..(sent[c] - 1)
        PROVE  "ok" \in reply[<<c, n>>]
    <3>1. /\ sent[c] \in 0..MaxWrites /\ results[c] \in Seq(Result)
          /\ phase[c] \in {"validate", "query", "emit", "wait", "done"}
      BY <2>1 DEF Types
    <3>2. n \in DOMAIN results[c] /\ ~(phase[c] = "done" /\ n = Len(results[c]))
      BY <2>1, <3>1, BoundsAssumption DEF Progress
    <3> QED  BY <2>1, <2>2, <3>2 DEF Account
  <2>3. ASSUME answer[c] \in Refusals, NEW n \in 1..MaxWrites PROVE handled[<<c, n>>] = 0
    BY <2>1, <2>3 DEF Account
  <2> QED  BY <2>1, <2>2, <2>3 DEF Account
<1> QED  BY <1>1, AnswerInit, AnswerStep, PTL DEF Spec

-----------------------------------------------------------------------------
(* What a call reads and sends.                                             *)

RowsInv == \A id \in DOMAIN rows : SoundRow(rows[id])

\* A write that leaves sound rows sound: what it creates is sound, and an update
\* stays on a diagram board, or touches no prop, or replaces all of them.
GoodWrite(w) ==
  /\ w.event \in {"create", "update", "delete"}
  /\ w.event = "create" => SoundRow([kind |-> w.kind, board |-> w.board, f |-> w.f])
  /\ w.event = "update" =>
       \/ w.board \in Whiteboard
       \/ w.moves = NoMoves /\ DOMAIN w.f \cap PropKeys = {}
       \/ w.moves = NoMoves /\ DOMAIN w.f = PropKeys /\ WellFormedEnds(w.f)

DiagramCreate == {"create_area", "create_table", "create_relationship", "bulk_update_positions"}

AreaEdit == {"add_table_to_area", "remove_table_from_area", "move_area"}

TableEdit == {"update_table", "delete_table", "create_column", "reorder_columns",
              "update_relationship", "delete_relationship"}

ColumnEdit == {"update_column", "delete_column"}

CanvasEdit == {"create_canvas_element", "update_canvas_element", "delete_canvas_element",
               "create_canvas_connector", "update_canvas_connector"}

\* What has been read for a request says where its writes go.
Located(r, read) ==
  /\ r.tool \in DiagramCreate /\ Len(read) >= 1 => r.board \in Whiteboard
  /\ r.tool \in AreaEdit /\ Len(read) >= 1 => read[1].board \in Whiteboard
  /\ r.tool \in TableEdit /\ Len(read) >= 3 => read[3].board \in Whiteboard
  /\ r.tool \in ColumnEdit /\ Len(read) >= 4 => read[4].board \in Whiteboard
  /\ r.tool \in CanvasEdit /\ Len(read) >= 1 => r.board \in CanvasBoard
  /\ r.tool = "update_canvas_connector" /\ Len(read) >= 3 =>
       (read[3].kind = "connector" => DOMAIN read[3].f = PropKeys /\ WellFormedEnds(read[3].f))

\* Finite sequences, whatever their elements.
IsList(s) == \E S : s \in Seq(S)

ReadsFit(c) ==
  /\ IsList(seen[c])
  /\ phase[c] = "validate" => seen[c] = <<>>
  /\ phase[c] = "query" => Located(request[c], seen[c])

WritesFit(c) ==
  phase[c] \in {"emit", "wait"} \/ sent[c] > 0 =>
    \A n \in 1..Len(List(c)) : GoodWrite(List(c)[n])

SendInv == AnswerInv /\ RowsInv /\ \A c \in Call : ReadsFit(c) /\ WritesFit(c)

LEMMA AppendToList ==
  ASSUME NEW s, NEW x, IsList(s)
  PROVE  /\ IsList(Append(s, x)) /\ Len(s) \in Nat
         /\ Len(Append(s, x)) = Len(s) + 1
         /\ Append(s, x)[Len(s) + 1] = x
         /\ \A n \in 1..Len(s) : Append(s, x)[n] = s[n]
         /\ s = <<>> <=> Len(s) = 0
<1>1. PICK S : s \in Seq(S)
  BY DEF IsList
<1>2. s \in Seq(S \cup {x})
  BY <1>1
<1>3. Append(s, x) \in Seq(S \cup {x})
  BY <1>2
<1> QED  BY <1>2, <1>3 DEF IsList

\* The board of a row that a step found.
LEMMA Found ==
  ASSUME RowsInv, NEW s, s.by \in {"table", "column", "area", "relationship"},
         s.missing # "ok", Verdict(rows, standing, s) = "ok"
  PROVE  RowOf(rows, s).board \in Whiteboard
<1>1. RowOf(rows, s) # None
  BY DEF Verdict, Resolver
<1>2. RowOf(rows, s) = rows[s.id] /\ s.id \in DOMAIN rows /\ rows[s.id].kind \in {s.by}
  BY <1>1 DEF RowOf, Find, FindDiagramTableByID, FindColumnByID, FindAreaByID,
              FindRelationshipByID
<1> QED  BY <1>2 DEF RowsInv, SoundRow, CanvasKind

LEMMA FoundElement ==
  ASSUME RowsInv, NEW s, s.by = "element",
         s.missing # "ok", Verdict(rows, standing, s) = "ok",
         RowOf(rows, s).kind = "connector"
  PROVE  /\ DOMAIN RowOf(rows, s).f = PropKeys
         /\ WellFormedEnds(RowOf(rows, s).f)
<1>1. RowOf(rows, s) # None
  BY DEF Verdict, Resolver
<1>2. RowOf(rows, s) = rows[s.id] /\ s.id \in DOMAIN rows
  BY <1>1 DEF RowOf, Find, FindCanvasElementByID
<1> QED  BY <1>2 DEF RowsInv, SoundRow

\* The first step on a board that is named.
OfWhiteboard(r) == Must("project of whiteboard", r.board)

OfCanvasBoard(r) == Must("project of canvas board", r.board)

LEMMA Resolved ==
  ASSUME NEW r
  PROVE  /\ Verdict(rows, standing, OfWhiteboard(r)) = "ok" => r.board \in Whiteboard
         /\ Verdict(rows, standing, OfCanvasBoard(r)) = "ok" => r.board \in CanvasBoard
BY DEF OfWhiteboard, OfCanvasBoard, Must, Step, Verdict, Resolver, Resolves,
       GetWhiteboardProjectID, GetCanvasBoardProjectID

LEMMA ListLength ==
  ASSUME NEW s, IsList(s)
  PROVE  Len(s) \in Nat
BY DEF IsList

LEMMA Concatenation ==
  ASSUME NEW s, NEW t, IsList(s), IsList(t),
         NEW k \in Nat, Len(s) = k, NEW l \in Nat, Len(t) = l
  PROVE  /\ IsList(s \o t) /\ Len(s \o t) = k + l
         /\ \A n \in 1..k : (s \o t)[n] = s[n]
         /\ \A n \in 1..l : (s \o t)[k + n] = t[n]
<1>1. PICK S, T : s \in Seq(S) /\ t \in Seq(T)
  BY DEF IsList
<1>2. s \in Seq(S \cup T) /\ t \in Seq(S \cup T)
  BY <1>1
<1>3. s \o t \in Seq(S \cup T)
  BY <1>2
<1> QED  BY <1>2, <1>3 DEF IsList

\* The steps of each group of tools, as far as the boards depend on them.
LEMMA DiagramCreateSteps ==
  ASSUME NEW r, NEW read, r.tool \in DiagramCreate
  PROVE  Len(Steps(r, read)) = 2 /\ Steps(r, read)[1] = OfWhiteboard(r)
BY DEF Steps, DiagramCreate, createSteps, positionsSteps, OfWhiteboard

LEMMA AreaEditSteps ==
  ASSUME NEW r, r.tool \in AreaEdit
  PROVE  Len(Steps(r, <<>>)) = 1 /\ Steps(r, <<>>)[1] = Must("area", r.id)
BY DEF Steps, AreaEdit, mutateAreaMembershipSteps, moveAreaSteps

LEMMA TableEditSteps ==
  ASSUME NEW r, NEW read, r.tool \in TableEdit
  PROVE  /\ Len(Steps(r, read)) = 3
         /\ Steps(r, read)[3] \in {Must("table", r.id), Must("relationship", r.id)}
BY DEF Steps, TableEdit, tableSteps, tableColumnSteps, relationshipSteps

LEMMA ColumnEditSteps ==
  ASSUME NEW r, NEW read, r.tool \in ColumnEdit
  PROVE  /\ read = <<>> => Len(Steps(r, read)) = 1
         /\ read # <<>> => /\ Len(Steps(r, read)) = 4
                           /\ Steps(r, read)[4] = Must("table", read[1].f.table)
<1>1. CASE read = <<>>
  BY <1>1 DEF Steps, ColumnEdit, columnSteps
<1>2. CASE read # <<>>
  <2> DEFINE s == <<Must("column", r.id)>>
             t == tableColumnSteps(read[1].f.table)
  <2>1. Steps(r, read) = s \o t
    BY <1>2 DEF Steps, ColumnEdit, columnSteps
  <2>2. Len(s) = 1 /\ s \in Seq({Must("column", r.id)})
    OBVIOUS
  <2>3. Len(t) = 3 /\ t[3] = Must("table", read[1].f.table)
    BY DEF tableColumnSteps
  <2>4. t \in Seq({t[1], t[2], t[3]})
    BY DEF tableColumnSteps
  <2>5. IsList(s) /\ IsList(t)
    BY <2>2, <2>4 DEF IsList
  <2> HIDE DEF s, t
  <2> DEFINE k == 1
             l == 3
  <2>6. k \in Nat /\ l \in Nat /\ Len(s) = k /\ Len(t) = l
    BY <2>2, <2>3
  <2> HIDE DEF k, l
  <2>7. Len(s \o t) = k + l /\ \A n \in 1..l : (s \o t)[k + n] = t[n]
    BY <2>5, <2>6, Concatenation
  <2>8. Len(s \o t) = 4 /\ (s \o t)[4] = t[3]
    BY <2>7 DEF k, l
  <2> QED  BY <1>2, <2>1, <2>3, <2>8
<1> QED  BY <1>1, <1>2

LEMMA CanvasEditSteps ==
  ASSUME NEW r, NEW read, r.tool \in CanvasEdit
  PROVE  /\ Len(Steps(r, read)) >= 2
         /\ Steps(r, read)[1] = OfCanvasBoard(r)
<1> DEFINE gate == authorizeCanvasEdit(r)
<1>1. /\ Len(gate) = 2 /\ gate[1] = OfCanvasBoard(r)
      /\ gate \in Seq({gate[1], gate[2]})
  BY DEF authorizeCanvasEdit, OfCanvasBoard
<1>2. IsList(gate)
  BY <1>1 DEF IsList
<1>3. \A t : IsList(t) => Len(gate \o t) >= 2 /\ (gate \o t)[1] = gate[1] /\ IsList(gate \o t)
  <2> HIDE DEF gate
  <2> SUFFICES ASSUME NEW t, IsList(t)
               PROVE  Len(gate \o t) >= 2 /\ (gate \o t)[1] = gate[1] /\ IsList(gate \o t)
    OBVIOUS
  <2> DEFINE k == 2
  <2>1. PICK l \in Nat : Len(t) = l
    BY ListLength
  <2>2. k \in Nat /\ Len(gate) = k
    BY <1>1
  <2> HIDE DEF k
  <2>3. /\ IsList(gate \o t) /\ Len(gate \o t) = k + l
        /\ \A n \in 1..k : (gate \o t)[n] = gate[n]
    BY <1>2, <2>1, <2>2, Concatenation
  <2>4. k + l >= 2 /\ 1 \in 1..k
    BY DEF k
  <2> QED  BY <2>3, <2>4
<1>4. CASE r.tool = "update_canvas_connector"
  <2> DEFINE s == <<loadCanvasElementOnBoard(r.board, r.id)>>
  <2>1. s \in Seq({loadCanvasElementOnBoard(r.board, r.id)})
    OBVIOUS
  <2>2. IsList(s)
    BY <2>1 DEF IsList
  <2>3. Steps(r, read) = gate \o s
    BY <1>4 DEF Steps, updateConnectorSteps
  <2> HIDE DEF gate, s
  <2> QED  BY <1>1, <1>3, <2>2, <2>3
<1>5. CASE r.tool = "create_canvas_connector"
  <2>1. PICK a, b : /\ a = <<>> \/ \E x : a = <<x>>
                    /\ b = <<>> \/ \E x : b = <<x>>
                    /\ Steps(r, read) = gate \o a \o b
    BY <1>5 DEF Steps, createConnectorSteps
  <2>2. \A x : <<>> \in Seq({x}) /\ <<x>> \in Seq({x})
    OBVIOUS
  <2>3. IsList(a) /\ IsList(b)
    BY <2>1, <2>2 DEF IsList
  <2> HIDE DEF gate
  <2>4. Len(gate \o a) >= 2 /\ (gate \o a)[1] = gate[1] /\ IsList(gate \o a)
    BY <1>3, <2>3
  <2> DEFINE g == gate \o a
  <2>5. PICK k \in Nat, l \in Nat : Len(g) = k /\ Len(b) = l
    BY <2>3, <2>4, ListLength
  <2> HIDE DEF g
  <2>6. IsList(g) /\ k >= 2 /\ g[1] = gate[1]
    BY <2>4, <2>5 DEF g
  <2>7. Len(g \o b) = k + l /\ (g \o b)[1] = g[1]
    BY <2>3, <2>5, <2>6, Concatenation
  <2>8. k + l >= 2
    BY <2>6
  <2> QED  BY <1>1, <2>1, <2>6, <2>7, <2>8 DEF g
<1>6. CASE r.tool \in CanvasEdit \ {"update_canvas_connector", "create_canvas_connector"}
  <2>1. Steps(r, read) = gate
    BY <1>6 DEF Steps, CanvasEdit
  <2>2. Len(gate) >= 2
    BY DEF authorizeCanvasEdit, OfCanvasBoard
  <2> HIDE DEF gate
  <2> QED  BY <1>1, <2>1, <2>2
<1> QED  BY <1>4, <1>5, <1>6

LEMMA ConnectorEditSteps ==
  ASSUME NEW r, NEW read, r.tool = "update_canvas_connector"
  PROVE  /\ Len(Steps(r, read)) = 3
         /\ Steps(r, read)[3] = loadCanvasElementOnBoard(r.board, r.id)
<1> DEFINE gate == authorizeCanvasEdit(r)
           s    == <<loadCanvasElementOnBoard(r.board, r.id)>>
<1>1. Len(gate) = 2 /\ gate \in Seq({gate[1], gate[2]})
  BY DEF authorizeCanvasEdit, OfCanvasBoard
<1>2. Len(s) = 1 /\ s[1] = loadCanvasElementOnBoard(r.board, r.id) /\ s \in Seq({s[1]})
  OBVIOUS
<1>3. IsList(gate) /\ IsList(s)
  BY <1>1, <1>2 DEF IsList
<1>4. Steps(r, read) = gate \o s
  BY DEF Steps, updateConnectorSteps
<1> HIDE DEF gate, s
<1> DEFINE k == 2
           l == 1
<1>5. k \in Nat /\ l \in Nat /\ Len(gate) = k /\ Len(s) = l
  BY <1>1, <1>2
<1> HIDE DEF k, l
<1>6. Len(gate \o s) = k + l /\ \A n \in 1..l : (gate \o s)[k + n] = s[n]
  BY <1>3, <1>5, Concatenation
<1>7. Len(gate \o s) = 3 /\ (gate \o s)[3] = s[1]
  BY <1>6 DEF k, l
<1> QED  BY <1>2, <1>4, <1>7

\* A query that succeeds tells the board where it has to.
LEMMA QueryLocates ==
  ASSUME RowsInv, NEW r, NEW read, IsList(read), Located(r, read),
         NEW s, s = Steps(r, read)[Len(read) + 1], Verdict(rows, standing, s) = "ok"
  PROVE  Located(r, Append(read, RowOf(rows, s)))
<1> DEFINE next == Append(read, RowOf(rows, s))
           k    == Len(read)
           m    == Len(next)
<1>a. /\ k \in Nat /\ m = k + 1 /\ next[k + 1] = RowOf(rows, s)
      /\ \A n \in 1..k : next[n] = read[n]
      /\ read = <<>> <=> k = 0
      /\ s = Steps(r, read)[k + 1]
  BY AppendToList
<1>l. /\ r.tool \in DiagramCreate /\ k >= 1 => r.board \in Whiteboard
      /\ r.tool \in AreaEdit /\ k >= 1 => read[1].board \in Whiteboard
      /\ r.tool \in TableEdit /\ k >= 3 => read[3].board \in Whiteboard
      /\ r.tool \in ColumnEdit /\ k >= 4 => read[4].board \in Whiteboard
      /\ r.tool \in CanvasEdit /\ k >= 1 => r.board \in CanvasBoard
      /\ r.tool = "update_canvas_connector" /\ k >= 3 =>
           (read[3].kind = "connector" => DOMAIN read[3].f = PropKeys /\ WellFormedEnds(read[3].f))
  BY DEF Located
<1> HIDE DEF next, k, m
<1>1. ASSUME r.tool \in DiagramCreate PROVE r.board \in Whiteboard
  <2>1. CASE k = 0
    <3>0. Steps(r, read)[1] = OfWhiteboard(r)
      BY <1>1, DiagramCreateSteps
    <3>1. s = OfWhiteboard(r)
      BY <1>a, <2>1, <3>0
    <3> QED  BY <3>1, Resolved
  <2>2. CASE k # 0
    BY <1>1, <1>a, <1>l, <2>2
  <2> QED  BY <2>1, <2>2
<1>2. ASSUME r.tool \in AreaEdit PROVE next[1].board \in Whiteboard
  <2>1. CASE k = 0
    <3>1. s = Must("area", r.id)
      BY <1>2, <1>a, <2>1, AreaEditSteps
    <3>2. next[1] = RowOf(rows, s)
      BY <1>a, <2>1
    <3> QED  BY <3>1, <3>2, Found DEF Must, Step
  <2>2. CASE k # 0
    BY <1>2, <1>a, <1>l, <2>2
  <2> QED  BY <2>1, <2>2
<1>3. ASSUME r.tool \in TableEdit, m >= 3 PROVE next[3].board \in Whiteboard
  <2>1. CASE k = 2
    <3>0. Steps(r, read)[3] \in {Must("table", r.id), Must("relationship", r.id)}
      BY <1>3, TableEditSteps
    <3>1. s \in {Must("table", r.id), Must("relationship", r.id)}
      BY <1>a, <2>1, <3>0
    <3>2. next[3] = RowOf(rows, s)
      BY <1>a, <2>1
    <3> QED  BY <3>1, <3>2, Found DEF Must, Step
  <2>2. CASE k >= 3
    BY <1>3, <1>a, <1>l, <2>2
  <2>3. k = 2 \/ k >= 3
    BY <1>3, <1>a
  <2> QED  BY <2>1, <2>2, <2>3
<1>4. ASSUME r.tool \in ColumnEdit, m >= 4 PROVE next[4].board \in Whiteboard
  <2>1. CASE k = 3
    <3>1. s = Must("table", read[1].f.table)
      BY <1>4, <1>a, <2>1, ColumnEditSteps
    <3>2. next[4] = RowOf(rows, s)
      BY <1>a, <2>1
    <3> QED  BY <3>1, <3>2, Found DEF Must, Step
  <2>2. CASE k >= 4
    BY <1>4, <1>a, <1>l, <2>2
  <2>3. k = 3 \/ k >= 4
    BY <1>4, <1>a
  <2> QED  BY <2>1, <2>2, <2>3
<1>5. ASSUME r.tool \in CanvasEdit PROVE r.board \in CanvasBoard
  <2>1. CASE k = 0
    <3>0. Steps(r, read)[1] = OfCanvasBoard(r)
      BY <1>5, CanvasEditSteps
    <3>1. s = OfCanvasBoard(r)
      BY <1>a, <2>1, <3>0
    <3> QED  BY <3>1, Resolved
  <2>2. CASE k # 0
    BY <1>5, <1>a, <1>l, <2>2
  <2> QED  BY <2>1, <2>2
<1>6. ASSUME r.tool = "update_canvas_connector", m >= 3, next[3].kind = "connector"
      PROVE  DOMAIN next[3].f = PropKeys /\ WellFormedEnds(next[3].f)
  <2>1. CASE k = 2
    <3>0. Steps(r, read)[3] = loadCanvasElementOnBoard(r.board, r.id)
      BY <1>6, ConnectorEditSteps
    <3>1. s = loadCanvasElementOnBoard(r.board, r.id)
      BY <1>a, <2>1, <3>0
    <3>2. next[3] = RowOf(rows, s)
      BY <1>a, <2>1
    <3>3. s.by = "element" /\ s.missing = "NOT_FOUND"
      BY <3>1 DEF loadCanvasElementOnBoard, OnBoard, Step
    <3> QED  BY <1>6, <3>2, <3>3, FoundElement
  <2>2. CASE k >= 3
    BY <1>6, <1>a, <1>l, <2>2
  <2>3. k = 2 \/ k >= 3
    BY <1>6, <1>a
  <2> QED  BY <2>1, <2>2, <2>3
<1>7. Located(r, next)
  BY <1>1, <1>2, <1>3, <1>4, <1>5, <1>6 DEF Located, m
<1> QED  BY <1>7 DEF next

\* When all queries are made, the board that the writes need is known.
LEMMA Boards ==
  ASSUME NEW r, NEW read, IsList(read), Located(r, read), Len(read) = Len(Steps(r, read))
  PROVE  /\ r.tool \in DiagramCreate => r.board \in Whiteboard
         /\ r.tool \in AreaEdit => read[1].board \in Whiteboard
         /\ r.tool \in TableEdit => read[3].board \in Whiteboard
         /\ r.tool \in ColumnEdit => read[4].board \in Whiteboard
         /\ r.tool \in CanvasEdit => r.board \in CanvasBoard
         /\ r.tool = "update_canvas_connector" /\ read[3].kind = "connector" =>
              DOMAIN read[3].f = PropKeys /\ WellFormedEnds(read[3].f)
<1> DEFINE k == Len(read)
<1>a. k \in Nat /\ (read = <<>> <=> k = 0)
  BY AppendToList
<1>l. /\ r.tool \in DiagramCreate /\ k >= 1 => r.board \in Whiteboard
      /\ r.tool \in AreaEdit /\ k >= 1 => read[1].board \in Whiteboard
      /\ r.tool \in TableEdit /\ k >= 3 => read[3].board \in Whiteboard
      /\ r.tool \in ColumnEdit /\ k >= 4 => read[4].board \in Whiteboard
      /\ r.tool \in CanvasEdit /\ k >= 1 => r.board \in CanvasBoard
      /\ r.tool = "update_canvas_connector" /\ k >= 3 =>
           (read[3].kind = "connector" => DOMAIN read[3].f = PropKeys /\ WellFormedEnds(read[3].f))
  BY DEF Located
<1>1. r.tool \in DiagramCreate => k = 2
  BY DiagramCreateSteps
<1>2. r.tool \in AreaEdit => k # 0
  <2>1. r.tool \in AreaEdit /\ read = <<>> => k = 1
    BY AreaEditSteps
  <2> HIDE DEF k
  <2> QED  BY <1>a, <2>1
<1>3. r.tool \in TableEdit => k = 3
  BY TableEditSteps
<1>4. r.tool \in ColumnEdit => k = 4
  <2>1. r.tool \in ColumnEdit => (read = <<>> => k = 1) /\ (read # <<>> => k = 4)
    BY ColumnEditSteps
  <2> HIDE DEF k
  <2> QED  BY <1>a, <2>1
<1>5. r.tool \in CanvasEdit => k >= 2
  BY CanvasEditSteps
<1>6. r.tool = "update_canvas_connector" => k = 3
  BY ConnectorEditSteps
<1> HIDE DEF k
<1> QED  BY <1>a, <1>l, <1>1, <1>2, <1>3, <1>4, <1>5, <1>6

OtherEnd(end) == IF end = "source" THEN "target" ELSE "source"

\* Setting an end gives it one form and leaves the other end alone.
LEMMA EndApplied ==
  ASSUME NEW props, DOMAIN props = PropKeys, NEW r, NEW end \in End, checkCanvasConnectorEnd(r, end)
  PROVE  LET new == applyCanvasConnectorEnd(props, r, end)
             other == OtherEnd(end)
         IN  /\ DOMAIN new = PropKeys
             /\ new[IdKey(end)] = Given(r, IdKey(end))
             /\ (new[IdKey(end)] = None) # (new[PointKey(end)] = None)
             /\ new[IdKey(other)] = props[IdKey(other)]
             /\ new[PointKey(other)] = props[PointKey(other)]
<1>1. CASE end = "source"
  BY <1>1 DEF applyCanvasConnectorEnd, checkCanvasConnectorEnd, OtherEnd, IdKey, PointKey,
              PropKeys, EndKeys, End
<1>2. CASE end = "target"
  BY <1>2 DEF applyCanvasConnectorEnd, checkCanvasConnectorEnd, OtherEnd, IdKey, PointKey,
              PropKeys, EndKeys, End
<1> QED  BY <1>1, <1>2 DEF End

LEMMA BuiltProps ==
  ASSUME NEW r, createConnectorValid(r)
  PROVE  /\ DOMAIN buildCanvasConnectorProps(r) = PropKeys
         /\ WellFormedEnds(buildCanvasConnectorProps(r))
<1> DEFINE p == [k \in PropKeys |-> Given(r, k)]
           q == applyCanvasConnectorEnd(p, r, "source")
           f == applyCanvasConnectorEnd(q, r, "target")
<1>1. DOMAIN p = PropKeys /\ "source" \in End /\ "target" \in End
  BY DEF End
<1>2. \A end \in End : checkCanvasConnectorEnd(r, end)
  BY DEF createConnectorValid
<1> HIDE DEF p
<1>3. /\ DOMAIN q = PropKeys /\ q[IdKey("source")] = Given(r, IdKey("source"))
      /\ (q[IdKey("source")] = None) # (q[PointKey("source")] = None)
  BY <1>1, <1>2, EndApplied
<1> HIDE DEF q
<1>4. /\ DOMAIN f = PropKeys /\ f[IdKey("target")] = Given(r, IdKey("target"))
      /\ (f[IdKey("target")] = None) # (f[PointKey("target")] = None)
      /\ f[IdKey("source")] = q[IdKey("source")] /\ f[PointKey("source")] = q[PointKey("source")]
  BY <1>1, <1>2, <1>3, EndApplied DEF OtherEnd
<1>5. buildCanvasConnectorProps(r) = f
  BY DEF buildCanvasConnectorProps, p, q
<1>6. checkCanvasConnectorNotSelf(f.sourceElementId, f.targetElementId)
  BY <1>3, <1>4 DEF createConnectorValid, IdKey
<1> HIDE DEF f
<1>7. \A end \in End : (f[IdKey(end)] = None) # (f[PointKey(end)] = None)
  BY <1>3, <1>4 DEF End
<1> QED  BY <1>4, <1>5, <1>6, <1>7 DEF WellFormedEnds

LEMMA MergedProps ==
  ASSUME NEW r, NEW el, updateConnectorRefusal(r, el) = "none",
         DOMAIN el.f = PropKeys, WellFormedEnds(el.f)
  PROVE  /\ DOMAIN mergeCanvasConnectorProps(el.f, r) = PropKeys
         /\ WellFormedEnds(mergeCanvasConnectorProps(el.f, r))
<1> DEFINE Fits(f, end) == (f[IdKey(end)] = None) # (f[PointKey(end)] = None)
           p == [k \in PropKeys |->
                   IF k \in {"routing", "curvature"} /\ Given(r, k) # None THEN Given(r, k)
                   ELSE el.f[k]]
           q == IF NamesEnd(r, "source") THEN applyCanvasConnectorEnd(p, r, "source") ELSE p
           f == IF NamesEnd(r, "target") THEN applyCanvasConnectorEnd(q, r, "target") ELSE q
<1>1. DOMAIN p = PropKeys /\ "source" \in End /\ "target" \in End
  BY DEF End
<1>2. Fits(p, "source") /\ Fits(p, "target")
  BY DEF WellFormedEnds, End, IdKey, PointKey, PropKeys, EndKeys
<1>3. \A end \in End : NamesEnd(r, end) => checkCanvasConnectorEnd(r, end)
  BY DEF updateConnectorRefusal
<1> HIDE DEF p
<1>4. DOMAIN q = PropKeys /\ Fits(q, "source") /\ Fits(q, "target")
  BY <1>1, <1>2, <1>3, EndApplied DEF OtherEnd
<1> HIDE DEF q
<1>5. DOMAIN f = PropKeys /\ Fits(f, "source") /\ Fits(f, "target")
  BY <1>1, <1>3, <1>4, EndApplied DEF OtherEnd
<1>6. mergeCanvasConnectorProps(el.f, r) = f
  BY DEF mergeCanvasConnectorProps, p, q
<1>7. checkCanvasConnectorNotSelf(f.sourceElementId, f.targetElementId)
  BY <1>6 DEF updateConnectorRefusal
<1> HIDE DEF f
<1> QED  BY <1>5, <1>6, <1>7 DEF WellFormedEnds, End

\* The writes that a tool prepares are good ones.
LEMMA PreparedWrites ==
  ASSUME NEW r, NEW read, Accepted(r), Valid(r), Refusal(r, read) = "none",
         IsList(read), Located(r, read), Len(read) = Len(Steps(r, read))
  PROVE  \A n \in 1..Len(Writes(r, read)) : GoodWrite(Writes(r, read)[n])
<1>b. /\ r.tool \in DiagramCreate => r.board \in Whiteboard
      /\ r.tool \in AreaEdit => read[1].board \in Whiteboard
      /\ r.tool \in TableEdit => read[3].board \in Whiteboard
      /\ r.tool \in ColumnEdit => read[4].board \in Whiteboard
      /\ r.tool \in CanvasEdit => r.board \in CanvasBoard
      /\ r.tool = "update_canvas_connector" /\ read[3].kind = "connector" =>
           DOMAIN read[3].f = PropKeys /\ WellFormedEnds(read[3].f)
  BY Boards
<1>1. ASSUME NEW w, Writes(r, read) = <<w>>, GoodWrite(w)
      PROVE  \A n \in 1..Len(Writes(r, read)) : GoodWrite(Writes(r, read)[n])
  BY <1>1
<1>o. ASSUME r.tool \in OneWriteTool, GoodWrite(Writes(r, read)[1])
      PROVE  \A n \in 1..Len(Writes(r, read)) : GoodWrite(Writes(r, read)[n])
  BY <1>o, OneWrite
<1> USE DEF GoodWrite, SoundRow, CanvasKind, Kind, Write
<1>2. CASE r.tool \in {"create_area", "create_table", "create_relationship"}
  <2>1. r.board \in Whiteboard
    BY <1>b, <1>2 DEF DiagramCreate
  <2>2. PICK w : Writes(r, read) = <<w>> /\ w.event = "create" /\ w.board = r.board
                 /\ w.kind \in {"area", "table", "relationship"}
    BY <1>2 DEF Writes, createAreaWrites, createTableWrites, createRelationshipWrites
  <2> QED  BY <1>1, <2>1, <2>2
<1>3. CASE r.tool \in AreaEdit
  <2> DEFINE w == Writes(r, read)[1]
  <2>1. CASE r.tool = "move_area"
    <3>1. w.event = "update" /\ w.board = read[1].board
      BY <2>1 DEF Writes, moveAreaWrites
    <3> QED  BY <1>o, <1>3, <1>b, <2>1, <3>1 DEF OneWriteTool, Tool
  <2>2. CASE r.tool # "move_area"
    <3>1. w = mutateAreaMembershipWrites(r, read)[1]
      BY <1>3, <2>2 DEF AreaEdit, Writes
    <3>2. w.event = "update" /\ w.board = read[1].board
      BY <3>1 DEF mutateAreaMembershipWrites
    <3> QED  BY <1>o, <1>3, <1>b, <3>2 DEF AreaEdit, OneWriteTool, Tool
  <2> QED  BY <2>1, <2>2
<1>4. CASE r.tool = "create_column"
  <2>1. PICK w : Writes(r, read) = <<w>> /\ w.event = "create" /\ w.board = read[3].board
                 /\ w.kind = "column"
    BY <1>4 DEF Writes, createColumnWrites
  <2> QED  BY <1>1, <1>4, <1>b, <2>1 DEF TableEdit
<1>5. CASE r.tool \in TableEdit \ {"create_column", "update_table"}
  <2> DEFINE w == Writes(r, read)[1]
  <2>1. CASE r.tool = "reorder_columns"
    <3>1. w.event = "update" /\ w.board = read[3].board
      BY <2>1 DEF Writes, reorderColumnsWrites
    <3> QED  BY <1>o, <1>5, <1>b, <2>1, <3>1 DEF OneWriteTool, Tool
  <2>2. CASE r.tool # "reorder_columns"
    <3>1. w.event \in {"update", "delete"} /\ w.board = read[3].board
      BY <1>5, <2>2 DEF TableEdit, Writes, deleteTableWrites, updateRelationshipWrites,
                        deleteRelationshipWrites
    <3> QED  BY <1>o, <1>5, <1>b, <3>1 DEF TableEdit, OneWriteTool, Tool
  <2> QED  BY <2>1, <2>2
<1>6. CASE r.tool \in ColumnEdit
  <2>1. PICK w : Writes(r, read) = <<w>> /\ w.event \in {"update", "delete"}
                 /\ w.board = read[4].board
    BY <1>6 DEF ColumnEdit, Writes, updateColumnWrites, deleteColumnWrites
  <2> QED  BY <1>1, <1>6, <1>b, <2>1
<1>7. CASE r.tool = "update_table"
  <2>1. \A f : GoodWrite(Write("update", read[3].board, r.id, "table", f))
    BY <1>7, <1>b DEF TableEdit
  <2>2. PICK s, t, f, g :
          /\ Writes(r, read) = s \o t
          /\ s = <<>> \/ s = <<Write("update", read[3].board, r.id, "table", f)>>
          /\ t = <<>> \/ t = <<Write("update", read[3].board, r.id, "table", g)>>
    <3> HIDE DEF GoodWrite, Write
    <3> QED  BY <1>7 DEF Writes, updateTableWrites
  <2> HIDE DEF GoodWrite
  <2>3. /\ s = <<>> \/ \E u : s = <<u>> /\ GoodWrite(u)
        /\ t = <<>> \/ \E m : t = <<m>> /\ GoodWrite(m)
    BY <2>1, <2>2
  <2>4. \A n \in 1..Len(s \o t) : GoodWrite((s \o t)[n])
    BY <2>3
  <2> QED  BY <2>2, <2>4
<1>8. CASE r.tool = "bulk_update_positions"
  <2>1. Writes(r, read) = positionsWrites(r) /\ r.board \in Whiteboard
    BY <1>8, <1>b DEF Writes, DiagramCreate
  <2>2. DOMAIN r.positions = 1..Len(r.positions) /\ Len(r.positions) \in Nat
    BY <1>8 DEF Accepted
  <2>3. Len(positionsWrites(r)) = Len(r.positions)
    BY <2>2 DEF positionsWrites
  <2>4. \A n \in DOMAIN r.positions :
          positionsWrites(r)[n].event = "update" /\ positionsWrites(r)[n].board = r.board
    BY DEF positionsWrites
  <2> QED  BY <2>1, <2>2, <2>3, <2>4
<1>9. CASE r.tool = "create_canvas_element"
  <2>1. PICK w : Writes(r, read) = <<w>> /\ w.event = "create" /\ w.board = r.board
                 /\ w.kind = "element"
    BY <1>9 DEF Writes, createElementWrites
  <2> QED  BY <1>1, <1>9, <1>b, <2>1 DEF CanvasEdit
<1>10. CASE r.tool = "update_canvas_element"
  <2>1. PICK w : Writes(r, read) = <<w>> /\ w.event = "update" /\ w.moves = NoMoves
                 /\ w.f = Named(r, ElementFields)
    BY <1>10 DEF Writes, updateElementWrites
  <2>2. DOMAIN w.f \cap PropKeys = {}
    <3>1. DOMAIN w.f \subseteq ElementFields
      BY <2>1 DEF Named, Restrict
    <3> QED  BY <3>1 DEF ElementFields, PropKeys, EndKeys, IdKey, PointKey, End
  <2> QED  BY <1>1, <2>1, <2>2
<1>11. CASE r.tool = "delete_canvas_element"
  <2>1. PICK w : Writes(r, read) = <<w>> /\ w.event = "delete"
    BY <1>11 DEF Writes, deleteElementWrites
  <2> QED  BY <1>1, <2>1
<1>12. CASE r.tool = "create_canvas_connector"
  <2>1. PICK w : Writes(r, read) = <<w>> /\ w.event = "create" /\ w.board = r.board
                 /\ w.kind = "connector" /\ w.f = buildCanvasConnectorProps(r)
    BY <1>12 DEF Writes, createConnectorWrites
  <2>2. createConnectorValid(r)
    BY <1>12 DEF Valid
  <2>3. DOMAIN w.f = PropKeys /\ WellFormedEnds(w.f)
    BY <2>1, <2>2, BuiltProps
  <2> QED  BY <1>1, <1>12, <1>b, <2>1, <2>3 DEF CanvasEdit
<1>13. CASE r.tool = "update_canvas_connector"
  <2>1. PICK w : Writes(r, read) = <<w>> /\ w.event = "update" /\ w.moves = NoMoves
                 /\ w.f = mergeCanvasConnectorProps(read[3].f, r)
    BY <1>13 DEF Writes, updateConnectorWrites
  <2>2. updateConnectorRefusal(r, read[3]) = "none"
    BY <1>13 DEF Refusal
  <2>3. read[3].kind = "connector"
    BY <2>2 DEF updateConnectorRefusal
  <2>4. DOMAIN w.f = PropKeys /\ WellFormedEnds(w.f)
    BY <1>13, <1>b, <2>1, <2>2, <2>3, MergedProps
  <2> QED  BY <1>1, <2>1, <2>4
<1> QED
  BY <1>2, <1>3, <1>4, <1>5, <1>6, <1>7, <1>8, <1>9, <1>10, <1>11, <1>12, <1>13
     DEF Accepted, Tool, AreaEdit, TableEdit, ColumnEdit

LEMMA SendInit == Init => SendInv
<1> SUFFICES ASSUME Init PROVE SendInv
  OBVIOUS
<1>1. RowsInv
  BY ScenarioAssumption DEF Init, RowsInv
<1>2. IsList(<<>>)
  <2>1. <<>> \in Seq({})
    OBVIOUS
  <2> QED  BY <2>1 DEF IsList
<1>3. ASSUME NEW c \in Call PROVE ReadsFit(c) /\ WritesFit(c)
  BY <1>2 DEF Init, ReadsFit, WritesFit
<1> QED  BY <1>1, <1>3, AnswerInit DEF SendInv

\* A good write leaves sound rows sound, however long it was on its way.
LEMMA StoreKeeps ==
  ASSUME RowsInv, NEW w, GoodWrite(w), Accepts(rows, w), rows' = Store(rows, w)
  PROVE  RowsInv'
<1>1. CASE w.event = "create"
  <2> DEFINE new == CHOOSE k \in Spare \ DOMAIN rows : TRUE
  <2>1. rows' = [k \in DOMAIN rows \cup {new} |->
                   IF k = new THEN [kind |-> w.kind, board |-> w.board, f |-> w.f] ELSE rows[k]]
    BY <1>1 DEF Store
  <2> HIDE DEF new
  <2>2. SoundRow([kind |-> w.kind, board |-> w.board, f |-> w.f])
    BY <1>1 DEF GoodWrite
  <2> QED  BY <2>1, <2>2 DEF RowsInv
<1>2. CASE w.event = "update"
  <2> SUFFICES ASSUME NEW k \in DOMAIN rows PROVE SoundRow(rows'[k])
    BY <1>2 DEF RowsInv, Store
  <2> DEFINE row == rows[k]
  <2>1. SoundRow(row)
    BY DEF RowsInv
  <2>2. \/ k = w.id /\ rows'[k] = [row EXCEPT !.f = Overwrite(@, w.f)]
        \/ k \in DOMAIN w.moves /\ row.board = w.board
           /\ rows'[k] = [row EXCEPT !.f = Overwrite(@, w.moves[k])]
        \/ rows'[k] = row
    BY <1>2 DEF Store
  <2>3. \A g : row.kind # "connector" => SoundRow([row EXCEPT !.f = Overwrite(@, g)])
    BY <2>1 DEF SoundRow
  <2>4. row.kind = "connector" => row.board \notin Whiteboard /\ DOMAIN row.f = PropKeys
    BY <2>1, IdAssumption DEF SoundRow, CanvasKind
  <2>5. CASE row.kind # "connector"
    BY <2>1, <2>2, <2>3, <2>5
  <2>6. CASE row.kind = "connector" /\ w.board \in Whiteboard
    <3>1. k # w.id
      BY <1>2, <2>4, <2>6 DEF Accepts
    <3> QED  BY <2>1, <2>2, <2>4, <2>6, <3>1
  <2>7. CASE row.kind = "connector" /\ w.moves = NoMoves /\ DOMAIN w.f \cap PropKeys = {}
    <3>1. k \notin DOMAIN w.moves
      BY <2>7 DEF NoMoves
    <3>2. Overwrite(row.f, w.f) = [x \in DOMAIN row.f |-> row.f[x]]
      BY <2>4, <2>7 DEF Overwrite
    <3>3. SoundRow([row EXCEPT !.f = Overwrite(@, w.f)])
      BY <2>1, <2>4, <2>7, <3>2 DEF SoundRow, WellFormedEnds, PropKeys, EndKeys, End, IdKey, PointKey
    <3> QED  BY <2>1, <2>2, <3>1, <3>3
  <2>8. CASE row.kind = "connector" /\ w.moves = NoMoves
             /\ DOMAIN w.f = PropKeys /\ WellFormedEnds(w.f)
    <3>1. k \notin DOMAIN w.moves
      BY <2>8 DEF NoMoves
    <3>2. Overwrite(row.f, w.f) = [x \in PropKeys |-> w.f[x]]
      BY <2>4, <2>8 DEF Overwrite
    <3>3. SoundRow([row EXCEPT !.f = Overwrite(@, w.f)])
      BY <2>1, <2>8, <3>2 DEF SoundRow, WellFormedEnds, PropKeys, EndKeys, End, IdKey, PointKey
    <3> QED  BY <2>1, <2>2, <3>1, <3>3
  <2> QED  BY <1>2, <2>5, <2>6, <2>7, <2>8 DEF GoodWrite
<1>3. CASE w.event = "delete"
  BY <1>3 DEF Store, Without, RowsInv
<1> QED  BY <1>1, <1>2, <1>3 DEF GoodWrite

\* A call that neither reads nor begins to send.
LEMMA KeepsFit ==
  ASSUME SendInv, NEW c \in Call,
         request'[c] = request[c], seen'[c] = seen[c],
         phase'[c] \in {"validate", "query"} => phase'[c] = phase[c],
         phase'[c] \in {"emit", "wait"} \/ sent'[c] > 0
           => phase[c] \in {"emit", "wait"} \/ sent[c] > 0
  PROVE  ReadsFit(c)' /\ WritesFit(c)'
<1>1. ReadsFit(c) /\ WritesFit(c)
  BY DEF SendInv
<1>2. List(c)' = List(c)
  BY DEF List
<1>3. ReadsFit(c)'
  BY <1>1 DEF ReadsFit
<1>4. WritesFit(c)'
  BY <1>1, <1>2 DEF WritesFit
<1> QED  BY <1>3, <1>4

\* A step that takes one call forward and leaves the rows.
LEMMA OneCallFits ==
  ASSUME SendInv, AnswerInv', UNCHANGED <<rows, request>>, NEW c \in Call,
         \A d \in Call \ {c} : phase'[d] = phase[d] /\ seen'[d] = seen[d] /\ sent'[d] = sent[d],
         ReadsFit(c)', WritesFit(c)'
  PROVE  SendInv'
<1>1. RowsInv'
  BY DEF SendInv, RowsInv
<1>2. ASSUME NEW d \in Call \ {c} PROVE ReadsFit(d)' /\ WritesFit(d)'
  BY KeepsFit
<1> QED  BY <1>1, <1>2 DEF SendInv

LEMMA SendStep == SendInv /\ [Next]_vars => SendInv'
<1> SUFFICES ASSUME SendInv, [Next]_vars PROVE SendInv'
  OBVIOUS
<1>a. AnswerInv /\ AnswerInv'
  BY AnswerStep DEF SendInv
<1>t. Types /\ \A c \in Call : Progress(c) /\ ReadsFit(c) /\ WritesFit(c)
  BY <1>a DEF AnswerInv, SendInv
<1>1. ASSUME NEW c \in Call, Validate(c) PROVE SendInv'
  <2>1. /\ phase[c] = "validate" /\ sent'[c] = 0 /\ seen' = seen /\ seen[c] = <<>>
        /\ phase'[c] \in {"query", "done"} /\ sent' = sent /\ UNCHANGED <<rows, request>>
        /\ \A d \in Call \ {c} : phase'[d] = phase[d]
    BY <1>1, <1>t DEF Validate, Answer, Types, Progress, ReadsFit
  <2>2. Located(request[c], <<>>)
    BY DEF Located
  <2>3. ReadsFit(c)'
    BY <1>t, <2>1, <2>2 DEF ReadsFit
  <2>4. WritesFit(c)'
    BY <2>1 DEF WritesFit
  <2> QED  BY <1>a, <2>1, <2>3, <2>4, OneCallFits
<1>2. ASSUME NEW c \in Call, Query(c) PROVE SendInv'
  <2> DEFINE s == Steps(request[c], seen[c])[Len(seen[c]) + 1]
             row == RowOf(rows, s)
  <2>1. /\ phase[c] = "query" /\ sent'[c] = 0 /\ UNCHANGED <<rows, request, sent>>
        /\ seen'[c] = Append(seen[c], row)
        /\ \A d \in Call \ {c} : seen'[d] = seen[d]
    BY <1>2, <1>t DEF Query, Types, Progress
  <2>2. IF Verdict(rows, standing, s) = "ok" THEN UNCHANGED <<phase, answer>>
        ELSE Answer(c, Verdict(rows, standing, s))
    BY <1>2 DEF Query
  <2>3. IsList(seen[c]) /\ Located(request[c], seen[c])
    BY <1>t, <2>1 DEF ReadsFit
  <2>4. Verdict(rows, standing, s) = "ok" => Located(request[c], Append(seen[c], row))
    BY <2>3, QueryLocates DEF SendInv
  <2>5. IsList(Append(seen[c], row))
    BY <2>3, AppendToList
  <2> HIDE DEF s, row
  <2>6. /\ phase'[c] \in {"query", "done"}
        /\ \A d \in Call \ {c} : phase'[d] = phase[d]
        /\ phase'[c] = "query" => Verdict(rows, standing, s) = "ok"
    BY <1>t, <2>1, <2>2 DEF Answer, Types
  <2>7. ReadsFit(c)'
    BY <2>1, <2>4, <2>5, <2>6 DEF ReadsFit
  <2>8. WritesFit(c)'
    BY <2>1, <2>6 DEF WritesFit
  <2> QED  BY <1>a, <2>1, <2>6, <2>7, <2>8, OneCallFits
<1>3. ASSUME NEW c \in Call, QueryFails(c) PROVE SendInv'
  <2>1. /\ sent'[c] = 0 /\ UNCHANGED <<rows, request, seen, sent>> /\ phase'[c] = "done"
        /\ \A d \in Call \ {c} : phase'[d] = phase[d]
    BY <1>3, <1>t DEF QueryFails, Answer, Types, Progress
  <2>2. ReadsFit(c)' /\ WritesFit(c)'
    BY <1>t, <2>1 DEF ReadsFit, WritesFit
  <2> QED  BY <1>a, <2>1, <2>2, OneCallFits
<1>4. ASSUME NEW c \in Call, Prepare(c) PROVE SendInv'
  <2>1. /\ phase[c] = "query" /\ sent'[c] = 0 /\ UNCHANGED <<rows, request, seen, sent>>
        /\ Len(seen[c]) = Len(Steps(request[c], seen[c]))
        /\ phase'[c] \in {"emit", "done"}
        /\ phase'[c] = "emit" => Refusal(request[c], seen[c]) = "none"
        /\ \A d \in Call \ {c} : phase'[d] = phase[d]
    BY <1>4, <1>t DEF Prepare, Answer, Types, Progress
  <2>2. ReadsFit(c)'
    BY <1>t, <2>1 DEF ReadsFit
  <2>3. WritesFit(c)'
    <3> SUFFICES ASSUME phase'[c] = "emit"
                 PROVE  \A n \in 1..Len(List(c)) : GoodWrite(List(c)[n])
      BY <2>1 DEF WritesFit, List
    <3>1. /\ Accepted(request[c]) /\ Valid(request[c])
          /\ IsList(seen[c]) /\ Located(request[c], seen[c])
      BY <1>t, <2>1 DEF Types, Progress, ReadsFit
    <3> QED  BY <2>1, <3>1, PreparedWrites DEF List
  <2> QED  BY <1>a, <2>1, <2>2, <2>3, OneCallFits
<1>5. ASSUME NEW c \in Call, Emit(c) PROVE SendInv'
  <2>1. /\ phase[c] = "emit" /\ phase'[c] = "wait" /\ UNCHANGED <<rows, request, seen>>
        /\ \A d \in Call \ {c} : phase'[d] = phase[d] /\ sent'[d] = sent[d]
    BY <1>5, <1>t DEF Emit, Types
  <2>2. ReadsFit(c)' /\ WritesFit(c)'
    BY <2>1, KeepsFit
  <2> QED  BY <1>a, <2>1, <2>2, OneCallFits
<1>6. ASSUME NEW c \in Call, NEW result, phase[c] = "wait", Proceed(c, result), UNCHANGED <<rows, request>>
      PROVE  SendInv'
  <2>1. /\ UNCHANGED <<seen, sent>> /\ phase'[c] \in {"emit", "done"}
        /\ \A d \in Call \ {c} : phase'[d] = phase[d]
    BY <1>6, <1>t DEF Proceed, Answer, Types
  <2>2. ReadsFit(c)' /\ WritesFit(c)'
    BY <1>6, <2>1, KeepsFit
  <2> QED  BY <1>a, <1>6, <2>1, <2>2, OneCallFits
<1>7. ASSUME NEW c \in Call, Acked(c) \/ EmitFails(c) PROVE SendInv'
  <2>1. PICK result : Proceed(c, result)
    BY <1>7 DEF Acked, EmitFails
  <2> QED  BY <1>6, <1>7, <2>1 DEF Acked, EmitFails, Proceed
<1>8. ASSUME NEW c \in Call, NEW n \in 1..MaxWrites, Handle(c, n) PROVE SendInv'
  <2>1. n <= sent[c] /\ UNCHANGED <<request, seen, phase, sent>>
    BY <1>8 DEF Handle, callVars
  <2>2. \A d \in Call : ReadsFit(d)' /\ WritesFit(d)'
    BY <2>1, KeepsFit
  <2>3. GoodWrite(Payload(c, n))
    <3> DEFINE k == Len(List(c))
    <3>1. sent[c] \in 0..MaxWrites /\ n \in 1..MaxWrites
      BY <1>t DEF Types
    <3>2. sent[c] > 0
      BY <2>1, <3>1, BoundsAssumption
    <3>3. sent[c] <= k /\ \A m \in 1..k : GoodWrite(List(c)[m])
      BY <1>t, <3>2 DEF Progress, WritesFit
    <3>4. k \in 1..MaxWrites
      <4>1. Accepted(request[c]) /\ Valid(request[c])
        BY <1>t, <3>2, <3>1 DEF Types, Progress
      <4> QED  BY <4>1, WritesBounded DEF List
    <3> HIDE DEF k
    <3>5. n \in 1..k
      BY <2>1, <3>1, <3>2, <3>3, <3>4, BoundsAssumption
    <3> QED  BY <3>3, <3>5 DEF Payload, List
  <2>4. RowsInv'
    <3>1. CASE Accepts(rows, Payload(c, n)) /\ rows' = Store(rows, Payload(c, n))
      BY <2>3, <3>1, StoreKeeps DEF SendInv
    <3>2. CASE rows' = rows
      BY <3>2 DEF SendInv, RowsInv
    <3> QED  BY <1>8, <3>1, <3>2 DEF Handle
  <2> QED  BY <1>a, <2>2, <2>4 DEF SendInv
<1>9. CASE Meddle
  <2>1. UNCHANGED <<request, seen, phase, sent>>
    BY <1>9 DEF Meddle, callVars
  <2>2. \A d \in Call : ReadsFit(d)' /\ WritesFit(d)'
    BY <2>1, KeepsFit
  <2>3. RowsInv'
    BY <1>9 DEF Meddle, Without, SendInv, RowsInv
  <2> QED  BY <1>a, <2>2, <2>3 DEF SendInv
<1>10. CASE UNCHANGED vars
  <2>1. UNCHANGED <<rows, request, seen, phase, sent>>
    BY <1>10 DEF vars, callVars
  <2>2. \A d \in Call : ReadsFit(d)' /\ WritesFit(d)'
    BY <2>1, KeepsFit
  <2> QED  BY <1>a, <2>1, <2>2 DEF SendInv, RowsInv
<1> QED  BY <1>1, <1>2, <1>3, <1>4, <1>5, <1>7, <1>8, <1>9, <1>10 DEF Next, CallStep

\* Whatever ends two updates set at the same time, and whenever their writes are
\* stored, a stored connector has one form for each end and joins two elements.
THEOREM ConnectorsStayWellFormed == Spec => []ConnectorsWellFormed
<1>1. SendInv => ConnectorsWellFormed
  BY DEF SendInv, RowsInv, SoundRow, ConnectorsWellFormed
<1> QED  BY <1>1, SendInit, SendStep, PTL DEF Spec
-----------------------------------------------------------------------------
(* Finite sets of integers.                                                 *)

Less == {ss \in Nat \X Nat : ss[1] < ss[2]}

LEMMA LessWF == IsWellFoundedOn(Less, Nat)
BY NatLessThanWellFounded DEF OpToRel, Less

\* Induction over the naturals, for a set of them.
LEMMA SetInduction ==
  ASSUME NEW T, T \subseteq Nat, 0 \in T, \A n \in T : n + 1 \in T
  PROVE  T = Nat
<1> SUFFICES ASSUME Nat \ T # {} PROVE FALSE
  OBVIOUS
<1>1. PICK x \in Nat \ T : \A y \in Nat \ T : ~(<<y, x>> \in Less)
  BY LessWF, WFMin
<1>2. x # 0 /\ x - 1 \in Nat
  BY <1>1
<1>3. <<x - 1, x>> \in Less
  BY <1>2 DEF Less
<1>4. x - 1 \in T
  BY <1>1, <1>2, <1>3
<1>5. x - 1 + 1 \in T
  BY <1>4
<1> QED BY <1>1, <1>2, <1>5

\* A finite set of integers that is not empty has a least and a greatest element.
LEMMA Extremes ==
  ASSUME NEW S \in SUBSET Int, IsFiniteSet(S), S # {}
  PROVE  \E lo, hi \in S : \A q \in S : lo <= q /\ q <= hi
<1> DEFINE Bounded(X) == \E lo, hi \in X : \A q \in X : lo <= q /\ q <= hi
           T == {n \in Nat : \A X \in SUBSET Int :
                              IsFiniteSet(X) /\ Cardinality(X) = n + 1 => Bounded(X)}
<1>1. 0 \in T
  <2> SUFFICES ASSUME NEW X \in SUBSET Int, IsFiniteSet(X), Cardinality(X) = 1 PROVE Bounded(X)
    OBVIOUS
  <2>1. PICK x : X = {x}
    BY FS_Singleton
  <2> QED BY <2>1
<1>2. ASSUME NEW n \in T PROVE n + 1 \in T
  <2> SUFFICES ASSUME NEW X \in SUBSET Int, IsFiniteSet(X), Cardinality(X) = n + 1 + 1
               PROVE  Bounded(X)
    BY <1>2
  <2>1. PICK x : x \in X
    BY FS_EmptySet
  <2>2. IsFiniteSet(X \ {x}) /\ Cardinality(X \ {x}) = n + 1
    BY <2>1, FS_RemoveElement
  <2>3. PICK lo, hi \in X \ {x} : \A q \in X \ {x} : lo <= q /\ q <= hi
    BY <2>2
  <2> DEFINE l == IF x < lo THEN x ELSE lo
             h == IF x > hi THEN x ELSE hi
  <2>4. l \in X /\ h \in X /\ \A q \in X : l <= q /\ q <= h
    BY <2>1, <2>3
  <2> QED BY <2>4
<1>3. T = Nat
  <2> HIDE DEF T
  <2>1. T \subseteq Nat
    BY DEF T
  <2> QED BY <1>1, <1>2, <2>1, SetInduction
<1>4. Cardinality(S) \in Nat /\ Cardinality(S) # 0
  BY FS_CardinalityType, FS_EmptySet
<1>5. Cardinality(S) - 1 \in Nat /\ Cardinality(S) - 1 + 1 = Cardinality(S)
  BY <1>4
<1> QED BY <1>3, <1>4, <1>5

Increasing(s, n) == \A i, j \in 1..n : i < j => s[i] < s[j]

\* A finite set of integers can be listed in order.
LEMMA Enumeration ==
  ASSUME NEW S \in SUBSET Int, IsFiniteSet(S)
  PROVE  \E s \in [1..Cardinality(S) -> S] : Increasing(s, Cardinality(S))
<1> DEFINE T == {n \in Nat : \A X \in SUBSET Int :
                   IsFiniteSet(X) /\ Cardinality(X) = n => \E s \in [1..n -> X] : Increasing(s, n)}
<1>1. 0 \in T
  <2> SUFFICES ASSUME NEW X \in SUBSET Int PROVE \E s \in [1..0 -> X] : Increasing(s, 0)
    OBVIOUS
  <2>1. [i \in 1..0 |-> i] \in [1..0 -> X]
    OBVIOUS
  <2> QED BY <2>1 DEF Increasing
<1>2. ASSUME NEW n \in T PROVE n + 1 \in T
  <2> SUFFICES ASSUME NEW X \in SUBSET Int, IsFiniteSet(X), Cardinality(X) = n + 1
               PROVE  \E s \in [1..n + 1 -> X] : Increasing(s, n + 1)
    BY <1>2
  <2>1. X # {}
    BY FS_EmptySet
  <2>2. PICK x \in X : \A q \in X : q <= x
    BY <2>1, Extremes
  <2>3. IsFiniteSet(X \ {x}) /\ Cardinality(X \ {x}) = n
    BY <2>2, FS_RemoveElement
  <2>4. PICK s \in [1..n -> X \ {x}] : Increasing(s, n)
    BY <2>3
  <2> DEFINE e == [i \in 1..n + 1 |-> IF i = n + 1 THEN x ELSE s[i]]
  <2>5. \A i \in 1..n + 1 : i # n + 1 => i \in 1..n
    BY <1>2
  <2>6. e \in [1..n + 1 -> X]
    BY <2>2, <2>4, <2>5
  <2>7. ASSUME NEW i \in 1..n + 1, NEW j \in 1..n + 1, i < j PROVE e[i] < e[j]
    <3>1. i \in 1..n /\ e[i] = s[i]
      BY <2>7, <1>2
    <3>2. CASE j = n + 1
      <4>1. s[i] \in X \ {x}
        BY <3>1, <2>4
      <4>2. s[i] <= x /\ s[i] # x /\ x \in Int /\ s[i] \in Int
        BY <4>1, <2>2
      <4>3. e[j] = x
        BY <3>2
      <4> HIDE DEF e
      <4> QED BY <4>2, <4>3, <3>1
    <3>3. CASE j # n + 1
      <4>1. j \in 1..n /\ e[j] = s[j]
        BY <3>3, <2>5
      <4> QED BY <4>1, <3>1, <2>4, <2>7 DEF Increasing
    <3> QED BY <3>2, <3>3
  <2>8. Increasing(e, n + 1)
    BY <2>7 DEF Increasing
  <2> QED BY <2>6, <2>8
<1>3. T = Nat
  <2> HIDE DEF T
  <2>1. T \subseteq Nat
    BY DEF T
  <2> QED BY <1>1, <1>2, <2>1, SetInduction
<1>4. Cardinality(S) \in Nat
  BY FS_CardinalityType
<1> QED BY <1>3, <1>4

\* Min and Max of FiniteSetsExt are what they are called.
LEMMA MinMax ==
  ASSUME NEW S \in SUBSET Int, IsFiniteSet(S), S # {}
  PROVE  /\ Min(S) \in S /\ Max(S) \in S
         /\ \A q \in S : Min(S) <= q /\ q <= Max(S)
<1>1. PICK lo, hi \in S : \A q \in S : lo <= q /\ q <= hi
  BY Extremes
<1>2. Min(S) = CHOOSE x \in S : \A y \in S : x <= y
  BY DEF Min
<1>3. Max(S) = CHOOSE x \in S : \A y \in S : x >= y
  BY DEF Max
<1> QED  BY <1>1, <1>2, <1>3

\* The same for a part of an interval.
LEMMA MaxOfPart ==
  ASSUME NEW l \in Nat, NEW S \in SUBSET (1..l), S # {}
  PROVE  Max(S) \in S
<1>1. IsFiniteSet(1..l)
  BY FS_Interval
<1>2. IsFiniteSet(S)
  BY <1>1, FS_Subset
<1> QED  BY <1>2, MinMax

\* No id is in a list twice.
Distinct(s) == \A m, n \in DOMAIN s : s[m] = s[n] => m = n

\* A list names id and what another one names, at most.
TakenFrom(s, current, id) == \A n \in DOMAIN s : s[n] = id \/ \E m \in DOMAIN current : s[n] = current[m]

\* Removing an id from a list of ids leaves a list of others, each once if it was
\* there once.
LEMMA ListWithoutIs ==
  ASSUME NEW S, NEW current \in Seq(S), NEW id
  PROVE  LET rest == ListWithout(current, id)
         IN  /\ rest \in Seq(S)
             /\ TakenFrom(rest, current, id)
             /\ Distinct(current) => Distinct(rest)
<1> DEFINE l    == Len(current)
           kept == {n \in DOMAIN current : current[n] # id}
           k    == Cardinality(kept)
<1>1. l \in Nat /\ DOMAIN current = 1..l /\ \A n \in 1..l : current[n] \in S
  OBVIOUS
<1>2. kept \in SUBSET (1..l)
  BY <1>1
<1> HIDE DEF l, kept
<1>3. IsFiniteSet(kept) /\ kept \in SUBSET Int
  <2>1. IsFiniteSet(1..l)
    BY <1>1, FS_Interval
  <2>2. IsFiniteSet(kept)
    BY <1>2, <2>1, FS_Subset
  <2>3. 1..l \subseteq Int
    BY <1>1
  <2> QED  BY <1>2, <2>2, <2>3
<1>4. k \in Nat /\ \E s \in [1..k -> kept] : Increasing(s, k)
  BY <1>3, FS_CardinalityType, Enumeration
<1> HIDE DEF k
<1> DEFINE order == CHOOSE s \in [1..k -> kept] : \A i, j \in 1..k : i < j => s[i] < s[j]
           rest == [i \in 1..k |-> current[order[i]]]
<1>5. order \in [1..k -> kept] /\ \A i, j \in 1..k : i < j => order[i] < order[j]
  BY <1>4 DEF Increasing
<1>6. ListWithout(current, id) = rest
  BY DEF ListWithout, kept, k
<1> HIDE DEF order
<1>7. \A i \in 1..k : order[i] \in 1..l
  BY <1>2, <1>5
<1>8. rest \in Seq(S)
  <2>1. \A i \in 1..k : rest[i] \in S
    BY <1>1, <1>7
  <2> QED  BY <1>4, <2>1
<1>9. \A i \in 1..k : rest[i] = current[order[i]] /\ order[i] \in DOMAIN current
  BY <1>1, <1>7
<1>10. \A i, j \in 1..k : order[i] = order[j] => i = j
  <2> SUFFICES ASSUME NEW i \in 1..k, NEW j \in 1..k, i # j PROVE order[i] # order[j]
    OBVIOUS
  <2>1. i < j \/ j < i
    BY <1>4
  <2>2. order[i] \in 1..l /\ order[j] \in 1..l
    BY <1>7
  <2> QED  BY <1>1, <1>5, <2>1, <2>2
<1>11. DOMAIN rest = 1..k
  OBVIOUS
<1> HIDE DEF rest
<1>12. TakenFrom(rest, current, id)
  BY <1>9, <1>11 DEF TakenFrom
<1>13. Distinct(current) => Distinct(rest)
  BY <1>9, <1>10, <1>11 DEF Distinct
<1> QED  BY <1>6, <1>8, <1>12, <1>13

\* So is the next list of an area: of two changes of a list without repetition, none
\* repeats an id, and the only id that may be new is the one that is added.
LEMMA NextMembersAre ==
  ASSUME NEW S, NEW current \in Seq(S), NEW id \in S, NEW add
  PROVE  LET next == nextMemberTableIDs(current, id, add)
         IN  /\ next \in Seq(S)
             /\ TakenFrom(next, current, id)
             /\ Distinct(current) => Distinct(next)
<1> DEFINE next == nextMemberTableIDs(current, id, add)
<1>1. CASE ~add
  <2>1. next = ListWithout(current, id)
    BY <1>1 DEF nextMemberTableIDs
  <2> QED  BY <2>1, ListWithoutIs
<1>2. CASE add /\ \E n \in DOMAIN current : current[n] = id
  <2>1. next = current
    BY <1>2 DEF nextMemberTableIDs
  <2> QED  BY <2>1 DEF TakenFrom
<1>3. CASE add /\ ~\E n \in DOMAIN current : current[n] = id
  <2>1. next = Append(current, id)
    BY <1>3 DEF nextMemberTableIDs
  <2>2. /\ next \in Seq(S) /\ Len(current) \in Nat /\ DOMAIN current = 1..Len(current)
        /\ DOMAIN next = 1..Len(current) + 1 /\ next[Len(current) + 1] = id
        /\ \A n \in 1..Len(current) : next[n] = current[n]
    BY <2>1
  <2>3. \A n \in DOMAIN next : n = Len(current) + 1 \/ n \in DOMAIN current
    BY <2>2
  <2> HIDE DEF next
  <2>4. \A m, n \in DOMAIN next : next[m] = next[n] =>
          m = n \/ (m \in DOMAIN current /\ n \in DOMAIN current /\ current[m] = current[n])
    BY <1>3, <2>2, <2>3
  <2>5. TakenFrom(next, current, id)
    BY <2>2, <2>3 DEF TakenFrom
  <2>6. Distinct(current) => Distinct(next)
    BY <2>4 DEF Distinct
  <2> QED  BY <2>2, <2>5, <2>6 DEF next
<1> QED  BY <1>1, <1>2, <1>3

-----------------------------------------------------------------------------
(* The steps of a call.                                                     *)

\* Steps whose answers are codes.
Answers(s) ==
  /\ IsList(s)
  /\ \A n \in 1..Len(s) : /\ s[n].missing \in {"ok", "NOT_FOUND"}
                          /\ s[n].elsewhere \in {"ok", "NOT_FOUND", "FORBIDDEN"}

LEMMA JoinAnswers ==
  ASSUME NEW s, NEW t, Answers(s), Answers(t)
  PROVE  Answers(s \o t)
<1>1. PICK k \in Nat, l \in Nat : Len(s) = k /\ Len(t) = l
  BY ListLength DEF Answers
<1>2. /\ IsList(s \o t) /\ Len(s \o t) = k + l
      /\ \A n \in 1..k : (s \o t)[n] = s[n]
      /\ \A n \in 1..l : (s \o t)[k + n] = t[n]
  BY <1>1, Concatenation DEF Answers
<1>3. ASSUME NEW n \in 1..k + l
      PROVE  n \in 1..k \/ \E m \in 1..l : n = k + m
  <2>1. CASE n <= k
    BY <2>1
  <2>2. CASE n > k
    <3>1. n - k \in 1..l /\ n = k + (n - k)
      BY <2>2
    <3> QED  BY <3>1
  <2> QED  BY <2>1, <2>2
<1> QED  BY <1>1, <1>2, <1>3 DEF Answers

LEMMA OneAnswers ==
  ASSUME NEW s, s.missing \in {"ok", "NOT_FOUND"}, s.elsewhere \in {"ok", "NOT_FOUND", "FORBIDDEN"}
  PROVE  Answers(<<s>>)
<1>1. <<s>> \in Seq({s}) /\ Len(<<s>>) = 1 /\ <<s>>[1] = s
  OBVIOUS
<1>2. IsList(<<s>>)
  BY <1>1 DEF IsList
<1>3. \A n \in 1..Len(<<s>>) : <<s>>[n] = s
  BY <1>1
<1> QED  BY <1>2, <1>3 DEF Answers

LEMMA EmptyAnswers == Answers(<<>>)
<1>1. <<>> \in Seq({}) /\ Len(<<>>) = 0
  OBVIOUS
<1>2. 1..0 = {}
  OBVIOUS
<1> QED  BY <1>1, <1>2 DEF Answers, IsList

\* A step of each form.
LEMMA StepForms ==
  ASSUME NEW by, NEW id, NEW board
  PROVE  /\ Must(by, id).missing = "NOT_FOUND" /\ Must(by, id).elsewhere = "ok"
         /\ May(by, id).missing = "ok" /\ May(by, id).elsewhere = "ok"
         /\ Gate(id).missing = "ok" /\ Gate(id).elsewhere = "ok"
         /\ OnBoard(by, id, board, "NOT_FOUND").missing = "NOT_FOUND"
         /\ OnBoard(by, id, board, "NOT_FOUND").elsewhere = "NOT_FOUND"
         /\ OnBoard(by, id, board, "FORBIDDEN").missing = "NOT_FOUND"
         /\ OnBoard(by, id, board, "FORBIDDEN").elsewhere = "FORBIDDEN"
BY DEF Must, May, Gate, OnBoard, Step

LEMMA PairAnswers ==
  ASSUME NEW by, NEW id, NEW role
  PROVE  Answers(<<Must(by, id), Gate(role)>>)
<1> DEFINE s == <<Must(by, id), Gate(role)>>
<1>1. s \in Seq({s[1], s[2]}) /\ Len(s) = 2 /\ s[1] = Must(by, id) /\ s[2] = Gate(role)
  OBVIOUS
<1>2. \A n \in 1..2 : n = 1 \/ n = 2
  OBVIOUS
<1> HIDE DEF s
<1> QED  BY <1>1, <1>2, StepForms DEF Answers, IsList

LEMMA TripleAnswers ==
  ASSUME NEW by, NEW id, NEW role, NEW more, NEW other
  PROVE  /\ Answers(<<Must(by, id), Gate(role), Must(more, other)>>)
         /\ Answers(<<Must(by, id), Must(more, other), Gate(role)>>)
<1>1. Answers(<<Must(by, id)>>) /\ Answers(<<Must(more, other)>>) /\ Answers(<<Gate(role)>>)
  BY StepForms, OneAnswers
<1>2. Answers(<<Must(by, id), Gate(role)>>) /\ Answers(<<Must(more, other), Gate(role)>>)
  BY PairAnswers
<1>3. /\ <<Must(by, id), Gate(role), Must(more, other)>>
           = <<Must(by, id), Gate(role)>> \o <<Must(more, other)>>
      /\ <<Must(by, id), Must(more, other), Gate(role)>>
           = <<Must(by, id)>> \o <<Must(more, other), Gate(role)>>
  OBVIOUS
<1> QED  BY <1>1, <1>2, <1>3, JoinAnswers

\* The steps for the members of an area, after those for the area itself.
LEMMA MemberSteps ==
  ASSUME NEW by, NEW ids \in Seq(Id)
  PROVE  LET s == [n \in DOMAIN ids |-> May(by, ids[n])]
         IN  Answers(s) /\ Len(s) = Len(ids) /\ DOMAIN s = 1..Len(ids)
<1> DEFINE s == [n \in DOMAIN ids |-> May(by, ids[n])]
           l == Len(ids)
<1>1. l \in Nat /\ DOMAIN ids = 1..l
  OBVIOUS
<1> HIDE DEF l
<1>2. s = [n \in 1..l |-> May(by, ids[n])]
  BY <1>1
<1>3. s \in Seq({May(by, ids[n]) : n \in 1..l}) /\ Len(s) = l
  BY <1>1, <1>2
<1>4. \A n \in 1..l : s[n] = May(by, ids[n])
  BY <1>2
<1>5. DOMAIN s = 1..l
  BY <1>2
<1> HIDE DEF s
<1>6. Answers(s)
  <2>1. IsList(s)
    BY <1>3 DEF IsList
  <2>2. \A n \in 1..l : s[n].missing = "ok" /\ s[n].elsewhere = "ok"
    BY <1>4, StepForms
  <2> QED  BY <1>3, <2>1, <2>2 DEF Answers
<1> QED  BY <1>3, <1>5, <1>6 DEF s, l

\* Whatever follows k steps.
LEMMA AfterFixed ==
  ASSUME NEW s, NEW t, IsList(s), IsList(t), NEW k \in Nat, Len(s) = k
  PROVE  /\ Len(s \o t) = k + Len(t)
         /\ \A n \in 1..k : (s \o t)[n] = s[n]
         /\ \A n \in 1..Len(t) : (s \o t)[k + n] = t[n]
<1>1. PICK l \in Nat : Len(t) = l
  BY ListLength
<1> QED  BY <1>1, Concatenation

\* What add_table_to_area and remove_table_from_area ask, once the area was read.
LEMMA MembershipSteps ==
  ASSUME NEW r, r.tool \in MembershipTool, NEW read, read # <<>>,
         NEW next \in Seq(Id), next = NextMembers(r, read[1])
  PROVE  /\ Answers(Steps(r, read)) /\ Len(Steps(r, read)) = 4 + Len(next)
         /\ Steps(r, read)[1] = Must("area", r.id)
         /\ Steps(r, read)[4] = OnBoard("table", r.member, read[1].board, "FORBIDDEN")
         /\ \A n \in 1..Len(next) : Steps(r, read)[4 + n] = May("member", next[n])
<1> DEFINE a == areaSteps(r, read[1])
           b == <<OnBoard("table", r.member, read[1].board, "FORBIDDEN")>>
           c == [n \in DOMAIN next |-> May("member", next[n])]
<1>1. Steps(r, read) = a \o b \o c
  BY DEF Steps, MembershipTool, mutateAreaMembershipSteps
<1>2. Answers(a) /\ Answers(b) /\ Answers(c)
  <2>1. Answers(a)
    BY TripleAnswers DEF areaSteps
  <2>2. Answers(b)
    BY StepForms, OneAnswers
  <2>3. Answers(c)
    BY MemberSteps
  <2> QED  BY <2>1, <2>2, <2>3
<1>3. /\ Len(a) = 3 /\ a[1] = Must("area", r.id)
      /\ Len(b) = 1 /\ b[1] = OnBoard("table", r.member, read[1].board, "FORBIDDEN")
      /\ Len(c) = Len(next) /\ \A n \in 1..Len(next) : c[n] = May("member", next[n])
  BY MemberSteps DEF areaSteps
<1> HIDE DEF a, b, c
<1> DEFINE three == 3
           four == 4
           d == a \o b
<1>4. Answers(d)
  BY <1>2, JoinAnswers
<1>5. three \in Nat /\ Len(a) = three
  BY <1>3
<1>6. Len(d) = three + 1 /\ d[1] = a[1] /\ d[three + 1] = b[1]
  <2> HIDE DEF three
  <2>1. /\ Len(d) = three + Len(b)
        /\ \A n \in 1..three : d[n] = a[n]
        /\ \A n \in 1..Len(b) : d[three + n] = b[n]
    BY <1>2, <1>5, AfterFixed DEF Answers
  <2>2. 1 \in 1..three
    BY DEF three
  <2>3. 1 \in 1..Len(b)
    BY <1>3
  <2>4. d[1] = a[1] /\ d[three + 1] = b[1]
    BY <2>1, <2>2, <2>3
  <2> HIDE DEF d
  <2> QED  BY <1>3, <2>1, <2>4
<1>7. Len(d) = 4 /\ d[1] = a[1] /\ d[4] = b[1]
  BY <1>6
<1> HIDE DEF d
<1>8. Answers(d \o c)
  BY <1>2, <1>4, JoinAnswers
<1>9. four \in Nat /\ Len(d) = four
  BY <1>7
<1>10. 1 \in 1..four /\ 4 \in 1..four
  OBVIOUS
<1> HIDE DEF four
<1>11. /\ Len(d \o c) = four + Len(c)
       /\ \A n \in 1..four : (d \o c)[n] = d[n]
       /\ \A n \in 1..Len(c) : (d \o c)[four + n] = c[n]
  BY <1>2, <1>4, <1>9, AfterFixed DEF Answers
<1>12. /\ Len(d \o c) = 4 + Len(next) /\ (d \o c)[1] = d[1] /\ (d \o c)[4] = d[4]
       /\ \A n \in 1..Len(next) : (d \o c)[4 + n] = May("member", next[n])
  BY <1>3, <1>10, <1>11 DEF four
<1> QED  BY <1>1, <1>3, <1>7, <1>8, <1>12 DEF d

\* What move_area asks.
LEMMA MoveSteps ==
  ASSUME NEW r, r.tool = "move_area", NEW read, read # <<>>,
         NEW members \in Seq(Id), members = read[1].f.members
  PROVE  /\ Answers(Steps(r, read)) /\ Len(Steps(r, read)) = 3 + Len(members)
         /\ Steps(r, read)[1] = Must("area", r.id)
         /\ \A n \in 1..Len(members) : Steps(r, read)[3 + n] = May("table", members[n])
<1> DEFINE a == areaSteps(r, read[1])
           c == [n \in DOMAIN members |-> May("table", members[n])]
           three == 3
<1>1. Steps(r, read) = a \o c
  BY DEF Steps, moveAreaSteps
<1>2. Answers(a) /\ Answers(c)
  BY TripleAnswers, MemberSteps DEF areaSteps
<1>3. /\ Len(a) = 3 /\ a[1] = Must("area", r.id)
      /\ Len(c) = Len(members) /\ \A n \in 1..Len(members) : c[n] = May("table", members[n])
  BY MemberSteps DEF areaSteps
<1> HIDE DEF a, c
<1>4. Answers(a \o c)
  BY <1>2, JoinAnswers
<1>5. three \in Nat /\ Len(a) = three /\ 1 \in 1..three
  BY <1>3
<1> HIDE DEF three
<1>6. /\ Len(a \o c) = three + Len(c)
      /\ \A n \in 1..three : (a \o c)[n] = a[n]
      /\ \A n \in 1..Len(c) : (a \o c)[three + n] = c[n]
  BY <1>2, <1>5, AfterFixed DEF Answers
<1>7. /\ Len(a \o c) = 3 + Len(members) /\ (a \o c)[1] = a[1]
      /\ \A n \in 1..Len(members) : (a \o c)[3 + n] = May("table", members[n])
  BY <1>3, <1>5, <1>6 DEF three
<1> QED  BY <1>1, <1>3, <1>4, <1>7

\* An area that was read has a list of ids, which a change of it leaves one.
LEMMA NextOfArea ==
  ASSUME NEW r, r.tool \in MembershipTool, Accepted(r), NEW area,
         area.f.members \in Seq(Id)
  PROVE  NextMembers(r, area) \in Seq(Id)
<1>1. r.member \in Id
  BY DEF Accepted
<1> QED  BY <1>1, NextMembersAre DEF NextMembers

\* Once its area was read, no step of a call depends on what else it reads.
AreaRead(r, read) ==
  r.tool \in AreaEdit /\ read # <<>> => read[1].f.members \in Seq(Id)

\* A query that fails is answered with a code.
LEMMA StepsAnswer ==
  ASSUME NEW r, Accepted(r), NEW read, AreaRead(r, read)
  PROVE  Answers(Steps(r, read))
<1>1. CASE r.tool \in DiagramCreate
  BY <1>1, PairAnswers DEF Steps, DiagramCreate, createSteps, positionsSteps
<1>2. CASE r.tool \in TableEdit
  BY <1>2, TripleAnswers DEF Steps, TableEdit, tableSteps, tableColumnSteps, relationshipSteps
<1>3. CASE r.tool \in ColumnEdit
  <2> DEFINE t == tableColumnSteps(read[1].f.table)
  <2>1. Answers(<<Must("column", r.id)>>)
    BY StepForms, OneAnswers
  <2>2. Answers(t)
    BY TripleAnswers DEF tableColumnSteps
  <2>3. Steps(r, read) \in {<<Must("column", r.id)>>, <<Must("column", r.id)>> \o t}
    BY <1>3 DEF Steps, ColumnEdit, columnSteps
  <2> HIDE DEF t
  <2> QED  BY <2>1, <2>2, <2>3, JoinAnswers
<1>4. CASE r.tool \in AreaEdit /\ read = <<>>
  <2>1. Steps(r, read) = <<Must("area", r.id)>>
    BY <1>4 DEF Steps, AreaEdit, mutateAreaMembershipSteps, moveAreaSteps
  <2> QED  BY <2>1, StepForms, OneAnswers
<1>5. CASE r.tool \in MembershipTool /\ read # <<>>
  <2>1. NextMembers(r, read[1]) \in Seq(Id)
    BY <1>5, NextOfArea DEF AreaRead, AreaEdit, MembershipTool
  <2> QED  BY <1>5, <2>1, MembershipSteps
<1>6. CASE r.tool = "move_area" /\ read # <<>>
  BY <1>6, MoveSteps DEF AreaRead, AreaEdit
<1>7. CASE r.tool \in CanvasEdit
  <2> DEFINE gate == authorizeCanvasEdit(r)
  <2>1. Answers(gate)
    BY PairAnswers DEF authorizeCanvasEdit
  <2>2. \A id : Answers(<<loadCanvasElementOnBoard(r.board, id)>>)
    BY StepForms, OneAnswers DEF loadCanvasElementOnBoard
  <2> HIDE DEF gate
  <2>3. CASE r.tool = "create_canvas_connector"
    <3>1. PICK a, b : /\ a = <<>> \/ \E id : a = <<loadCanvasElementOnBoard(r.board, id)>>
                      /\ b = <<>> \/ \E id : b = <<loadCanvasElementOnBoard(r.board, id)>>
                      /\ Steps(r, read) = gate \o a \o b
      BY <2>3 DEF Steps, createConnectorSteps, gate
    <3>2. Answers(a) /\ Answers(b)
      BY <2>2, <3>1, EmptyAnswers
    <3>3. Answers(gate \o a)
      BY <2>1, <3>2, JoinAnswers
    <3> QED  BY <3>1, <3>2, <3>3, JoinAnswers
  <2>4. CASE r.tool = "update_canvas_connector"
    <3>1. Steps(r, read) = gate \o <<loadCanvasElementOnBoard(r.board, r.id)>>
      BY <2>4 DEF Steps, updateConnectorSteps, gate
    <3> QED  BY <2>1, <2>2, <3>1, JoinAnswers
  <2>5. CASE r.tool \in CanvasEdit \ {"create_canvas_connector", "update_canvas_connector"}
    <3>1. Steps(r, read) = gate
      BY <2>5 DEF Steps, CanvasEdit, gate
    <3> QED  BY <2>1, <3>1
  <2> QED  BY <1>7, <2>3, <2>4, <2>5
<1> QED
  BY <1>1, <1>2, <1>3, <1>4, <1>5, <1>6, <1>7
     DEF Accepted, Tool, DiagramCreate, TableEdit, ColumnEdit, AreaEdit, MembershipTool, CanvasEdit

\* A step that answers says so with a code.
LEMMA VerdictIsCode ==
  ASSUME NEW s, s.missing \in {"ok", "NOT_FOUND"}, s.elsewhere \in {"ok", "NOT_FOUND", "FORBIDDEN"}
  PROVE  Verdict(rows, standing, s) \in {"ok", "NOT_FOUND", "FORBIDDEN"}
BY DEF Verdict, AssertAccess

-----------------------------------------------------------------------------
(* What the queries of a call have returned.                                *)

RowQuery == {"table", "column", "area", "relationship"}

\* A member of an area, as it was read.
MemberRead(x) ==
  /\ x.columns \in Nat
  /\ x.table = None \/ (x.table.kind = "table" /\ TypedRow(x.table))

\* What a step may read.
Fits(s, x) ==
  \/ s.by # "member" /\ x = None
  \/ s.by \in RowQuery /\ x.kind = s.by /\ TypedRow(x)
  \/ s.by = "element"
  \/ s.by = "member" /\ MemberRead(x)

\* What it read if the call went on.
Granted(s, x) ==
  s.by \in RowQuery \cup {"element"} /\ s.missing # "ok" =>
    /\ x # None
    /\ s.board # None /\ s.elsewhere # "ok" => x.board = s.board

Known(r, read) ==
  /\ r.tool \in AreaEdit /\ read # <<>> => read[1].kind = "area" /\ TypedRow(read[1])
  /\ \A n \in 1..Len(read) : Fits(Steps(r, read)[n], read[n]) /\ Granted(Steps(r, read)[n], read[n])

RowsTyped ==
  /\ DOMAIN rows \subseteq Id /\ IsFiniteSet(DOMAIN rows)
  /\ \A id \in DOMAIN rows : TypedRow(rows[id])

LEMMA ReadFits ==
  ASSUME RowsTyped, NEW s
  PROVE  Fits(s, RowOf(rows, s))
<1> DEFINE x == RowOf(rows, s)
<1>1. CASE s.by \in RowQuery /\ x # None
  <2>1. x = Find(rows, {s.by}, s.id)
    BY <1>1 DEF RowQuery, RowOf, FindDiagramTableByID, FindColumnByID, FindAreaByID,
                FindRelationshipByID
  <2>2. x = rows[s.id] /\ s.id \in DOMAIN rows /\ x.kind = s.by
    BY <1>1, <2>1 DEF Find
  <2> QED  BY <1>1, <2>2 DEF Fits, RowsTyped
<1>2. CASE s.by = "member"
  <2> DEFINE t == FindDiagramTableByID(rows, s.id)
             k == CountColumnsByTableID(rows, s.id)
  <2>1. x = [table |-> t, columns |-> k]
    BY <1>2 DEF RowOf
  <2>2. t # None => t = rows[s.id] /\ s.id \in DOMAIN rows /\ t.kind = "table"
    BY DEF FindDiagramTableByID, Find
  <2>3. k \in Nat
    <3> DEFINE C == {i \in DOMAIN rows : rows[i].kind = "column" /\ rows[i].f.table = s.id}
    <3>1. IsFiniteSet(C)
      BY FS_Subset DEF RowsTyped
    <3> QED  BY <3>1, FS_CardinalityType DEF CountColumnsByTableID
  <2>4. x.table = t /\ x.columns = k
    BY <2>1
  <2>5. t # None => TypedRow(t)
    BY <2>2 DEF RowsTyped
  <2> HIDE DEF t, k
  <2> QED  BY <1>2, <2>2, <2>3, <2>4, <2>5 DEF Fits, MemberRead
<1>3. CASE s.by \notin RowQuery \cup {"element", "member"}
  <2>1. x = None
    BY <1>3 DEF RowQuery, RowOf
  <2> QED  BY <1>3, <2>1 DEF Fits
<1>4. CASE s.by = "element" \/ (s.by # "member" /\ x = None)
  BY <1>4 DEF Fits
<1> QED  BY <1>1, <1>2, <1>3, <1>4

LEMMA ReadGranted ==
  ASSUME NEW s, Verdict(rows, standing, s) = "ok"
  PROVE  Granted(s, RowOf(rows, s))
BY DEF Granted, RowQuery, Verdict, Resolver

\* The tools whose steps follow from the request alone.
LEMMA FixedSteps ==
  ASSUME NEW r, r.tool \in Tool \ (AreaEdit \cup ColumnEdit), NEW read, NEW more
  PROVE  Steps(r, read) = Steps(r, more)
BY DEF Steps, Tool, AreaEdit, ColumnEdit

LEMMA StepsOfMore ==
  ASSUME NEW r, r.tool \in Tool, NEW read, NEW more, read # <<>>, more # <<>>, more[1] = read[1]
  PROVE  Steps(r, more) = Steps(r, read)
<1>1. CASE r.tool \in AreaEdit \cup ColumnEdit
  BY <1>1 DEF Steps, AreaEdit, ColumnEdit, mutateAreaMembershipSteps, moveAreaSteps, columnSteps
<1>2. CASE r.tool \notin AreaEdit \cup ColumnEdit
  BY <1>2, FixedSteps
<1> QED  BY <1>1, <1>2

LEMMA FirstStep ==
  ASSUME NEW r, Accepted(r), NEW more, more # <<>>, AreaRead(r, more)
  PROVE  Steps(r, more)[1] = Steps(r, <<>>)[1]
<1>1. CASE r.tool \in MembershipTool
  <2>1. NextMembers(r, more[1]) \in Seq(Id)
    BY <1>1, NextOfArea DEF AreaRead, AreaEdit, MembershipTool
  <2> QED  BY <1>1, <2>1, MembershipSteps, AreaEditSteps DEF AreaEdit, MembershipTool
<1>2. CASE r.tool = "move_area"
  BY <1>2, MoveSteps, AreaEditSteps DEF AreaRead, AreaEdit
<1>3. CASE r.tool \in ColumnEdit
  <2> DEFINE s == <<Must("column", r.id)>>
             t == tableColumnSteps(more[1].f.table)
             one == 1
  <2>1. Steps(r, <<>>) = s /\ Steps(r, more) = s \o t
    BY <1>3 DEF Steps, ColumnEdit, columnSteps
  <2>2. IsList(s) /\ IsList(t)
    <3>1. Answers(s)
      BY StepForms, OneAnswers
    <3>2. Answers(t)
      BY TripleAnswers DEF tableColumnSteps
    <3> QED  BY <3>1, <3>2 DEF Answers
  <2>3. one \in Nat /\ Len(s) = one /\ 1 \in 1..one
    OBVIOUS
  <2> HIDE DEF s, t, one
  <2>4. (s \o t)[1] = s[1]
    BY <2>2, <2>3, AfterFixed
  <2> QED  BY <2>1, <2>4
<1>4. CASE r.tool \notin AreaEdit \cup ColumnEdit
  BY <1>4, FixedSteps DEF Accepted
<1> QED  BY <1>1, <1>2, <1>3, <1>4 DEF AreaEdit, MembershipTool

\* What is read next leaves the steps up to it what they were.
SameSteps(r, read, next) ==
  /\ Steps(r, next)[Len(read) + 1] = Steps(r, read)[Len(read) + 1]
  /\ \A n \in 1..Len(read) : Steps(r, next)[n] = Steps(r, read)[n]

LEMMA StepsExtend ==
  ASSUME NEW r, Accepted(r), NEW read, IsList(read), NEW x, AreaRead(r, Append(read, x))
  PROVE  SameSteps(r, read, Append(read, x))
<1> DEFINE k == Len(read)
           next == Append(read, x)
<1>1. /\ k \in Nat /\ Len(next) = k + 1 /\ next[k + 1] = x
      /\ \A n \in 1..k : next[n] = read[n]
      /\ read = <<>> <=> k = 0
  BY AppendToList
<1> HIDE DEF next
<1>a. AreaRead(r, next)
  BY DEF next
<1>2. next # <<>>
  <2>1. Len(<<>>) = 0
    OBVIOUS
  <2> HIDE DEF k
  <2>2. Len(next) # 0
    BY <1>1
  <2> QED  BY <2>1, <2>2
<1> HIDE DEF k
<1>3. CASE k = 0
  <2>1. Steps(r, next)[1] = Steps(r, <<>>)[1]
    BY <1>2, <1>a, FirstStep
  <2> QED  BY <1>1, <1>3, <2>1 DEF k, SameSteps, next
<1>4. CASE k # 0
  <2>1. read # <<>> /\ next[1] = read[1]
    BY <1>1, <1>4
  <2>2. Steps(r, next) = Steps(r, read)
    BY <1>2, <2>1, StepsOfMore DEF Accepted
  <2> QED  BY <1>1, <2>2 DEF k, SameSteps, next
<1> QED  BY <1>3, <1>4

\* A query that succeeds adds what it read to what is known.
LEMMA QueryKnows ==
  ASSUME RowsTyped, NEW r, Accepted(r), NEW read, IsList(read), Known(r, read),
         NEW s, s = Steps(r, read)[Len(read) + 1], Verdict(rows, standing, s) = "ok"
  PROVE  Known(r, Append(read, RowOf(rows, s)))
<1> DEFINE x == RowOf(rows, s)
           next == Append(read, x)
           k == Len(read)
<1>1. Fits(s, x) /\ Granted(s, x)
  BY ReadFits, ReadGranted
<1>2. /\ k \in Nat /\ Len(next) = k + 1 /\ next[k + 1] = x
      /\ \A n \in 1..k : next[n] = read[n]
      /\ read = <<>> <=> k = 0
      /\ s = Steps(r, read)[k + 1]
  BY AppendToList
<1>3. next = Append(read, x)
  OBVIOUS
<1> HIDE DEF x, next, k
<1>5. r.tool \in AreaEdit => next[1].kind = "area" /\ TypedRow(next[1])
  <2> SUFFICES ASSUME r.tool \in AreaEdit PROVE next[1].kind = "area" /\ TypedRow(next[1])
    OBVIOUS
  <2>1. CASE k = 0
    <3>1. s = Must("area", r.id)
      BY <1>2, <2>1, AreaEditSteps
    <3>2. s.by = "area" /\ s.missing = "NOT_FOUND"
      BY <3>1 DEF Must, Step
    <3>3. x # None /\ x.kind = "area" /\ TypedRow(x)
      BY <1>1, <3>2 DEF Fits, Granted, RowQuery
    <3> QED  BY <1>2, <2>1, <3>3
  <2>2. CASE k # 0
    <3>1. next[1] = read[1] /\ read # <<>>
      BY <1>2, <2>2
    <3> QED  BY <3>1 DEF Known
  <2> QED  BY <2>1, <2>2
<1>6. AreaRead(r, next)
  BY <1>5 DEF AreaRead, TypedRow, TypedFields
<1>7. /\ Steps(r, next)[k + 1] = s
      /\ \A n \in 1..k : Steps(r, next)[n] = Steps(r, read)[n]
  <2>1. SameSteps(r, read, next)
    BY <1>3, <1>6, StepsExtend
  <2> QED  BY <1>2, <2>1 DEF k, SameSteps
<1>8. ASSUME NEW n \in 1..Len(next)
      PROVE  Fits(Steps(r, next)[n], next[n]) /\ Granted(Steps(r, next)[n], next[n])
  <2>1. CASE n = k + 1
    BY <1>1, <1>2, <1>7, <2>1
  <2>2. CASE n # k + 1
    <3>1. n \in 1..k
      BY <1>2, <2>2
    <3>2. Fits(Steps(r, read)[n], read[n]) /\ Granted(Steps(r, read)[n], read[n])
      BY <3>1 DEF Known, k
    <3> QED  BY <1>2, <1>7, <3>1, <3>2
  <2> QED  BY <2>1, <2>2
<1>9. Known(r, next)
  BY <1>5, <1>8 DEF Known
<1> QED  BY <1>9 DEF next, x

-----------------------------------------------------------------------------
(* The box around the members of an area.                                   *)

LEMMA ExtremesOfImage ==
  ASSUME NEW S, IsFiniteSet(S), S # {}, NEW f \in [S -> Int],
         NEW T, T = {f[m] : m \in S}
  PROVE  /\ Min(T) \in Int /\ Max(T) \in Int
         /\ \A m \in S : Min(T) <= f[m] /\ f[m] <= Max(T)
<1>1. f \in Surjection(S, T)
  BY DEF Surjection
<1>2. IsFiniteSet(T)
  BY <1>1, FS_Surjection
<1>3. T \in SUBSET Int /\ T # {}
  OBVIOUS
<1>4. Min(T) \in T /\ Max(T) \in T /\ \A q \in T : Min(T) <= q /\ q <= Max(T)
  BY <1>2, <1>3, MinMax
<1> QED  BY <1>3, <1>4

LEMMA MaxOfTwo ==
  ASSUME NEW a \in Int, NEW b \in Int
  PROVE  Max({a, b}) \in Int /\ Max({a, b}) >= a
<1>1. {a, b} \in SUBSET Int /\ {a, b} # {}
  OBVIOUS
<1>2. IsFiniteSet({a, b})
  <2>1. IsFiniteSet({a})
    BY FS_Singleton
  <2>2. IsFiniteSet({a} \cup {b})
    BY <2>1, FS_AddElement
  <2>3. {a} \cup {b} = {a, b}
    OBVIOUS
  <2> QED  BY <2>2, <2>3
<1>3. Max({a, b}) \in {a, b} /\ \A q \in {a, b} : q <= Max({a, b})
  BY <1>1, <1>2, MinMax
<1> QED  BY <1>3

Measured(m) == m.x \in Int /\ m.y \in Int /\ m.width \in Int \cup {None} /\ m.columns \in Nat

Width(m) == IF m.width = None \/ m.width <= 0 THEN 250 ELSE m.width

LEMMA WidthType ==
  ASSUME NEW m, Measured(m)
  PROVE  Width(m) \in Int
BY DEF Measured, Width

\* Whatever the members, the box has 24 around each, and 32 more above.
LEMMA BoundsEnclose ==
  ASSUME NEW S, IsFiniteSet(S), S # {}, \A m \in S : Measured(m)
  PROVE  LET b == ComputeAreaBounds(S)
         IN  /\ DOMAIN b = Measure
             /\ b.x \in Int /\ b.y \in Int /\ b.width \in Int /\ b.height \in Int
             /\ \A m \in S :
                  /\ b.x + 24 <= m.x /\ m.x + Width(m) + 24 <= b.x + b.width
                  /\ b.y + 56 <= m.y
                  /\ m.y + 40 + 28 * (m.columns + 1) + 12 + 24 <= b.y + b.height
<1> DEFINE left  == [m \in S |-> m.x]
           top   == [m \in S |-> m.y]
           right == [m \in S |-> m.x + Width(m)]
           foot  == [m \in S |-> m.y + CalculateTableHeight(m.columns) + 28]
           lefts  == {m.x : m \in S}
           tops   == {m.y : m \in S}
           rights == {m.x + Width(m) : m \in S}
           feet   == {m.y + CalculateTableHeight(m.columns) + 28 : m \in S}
           minX  == Min(lefts)
           minY  == Min(tops)
           maxX  == Max(rights)
           maxY  == Max(feet)
           wide  == Max({maxX - minX + 2 * 24, 160})
           high  == Max({maxY - minY + 2 * 24 + 32, 120})
<1>1. ComputeAreaBounds(S) = [x |-> minX - 24, y |-> minY - 24 - 32, width |-> wide, height |-> high]
  BY DEF ComputeAreaBounds, Width
<1>2. \A m \in S : /\ m.x \in Int /\ m.y \in Int /\ Width(m) \in Int /\ m.columns \in Nat
                   /\ CalculateTableHeight(m.columns) = 40 + 28 * m.columns + 12
  BY WidthType DEF Measured, CalculateTableHeight
<1>3. left \in [S -> Int] /\ top \in [S -> Int] /\ right \in [S -> Int] /\ foot \in [S -> Int]
  BY <1>2
<1>4. /\ lefts = {left[m] : m \in S} /\ tops = {top[m] : m \in S}
      /\ rights = {right[m] : m \in S} /\ feet = {foot[m] : m \in S}
  OBVIOUS
<1>5. /\ \A m \in S : left[m] = m.x /\ top[m] = m.y /\ right[m] = m.x + Width(m)
      /\ \A m \in S : foot[m] = m.y + CalculateTableHeight(m.columns) + 28
  OBVIOUS
<1> HIDE DEF left, top, right, foot, lefts, tops, rights, feet
<1>6. minX \in Int /\ \A m \in S : minX <= left[m]
  BY <1>3, <1>4, ExtremesOfImage
<1>7. minY \in Int /\ \A m \in S : minY <= top[m]
  BY <1>3, <1>4, ExtremesOfImage
<1>8. maxX \in Int /\ \A m \in S : right[m] <= maxX
  BY <1>3, <1>4, ExtremesOfImage
<1>9. maxY \in Int /\ \A m \in S : foot[m] <= maxY
  BY <1>3, <1>4, ExtremesOfImage
<1> HIDE DEF minX, minY, maxX, maxY
<1>10. wide \in Int /\ wide >= maxX - minX + 2 * 24
  BY <1>6, <1>8, MaxOfTwo
<1>11. high \in Int /\ high >= maxY - minY + 2 * 24 + 32
  BY <1>7, <1>9, MaxOfTwo
<1> HIDE DEF wide, high
<1> DEFINE b == ComputeAreaBounds(S)
<1>12. /\ DOMAIN b = {"x", "y", "width", "height"}
       /\ b.x = minX - 24 /\ b.y = minY - 24 - 32 /\ b.width = wide /\ b.height = high
  BY <1>1
<1> HIDE DEF b
<1>13. b.x \in Int /\ b.y \in Int /\ b.width \in Int /\ b.height \in Int
  BY <1>6, <1>7, <1>10, <1>11, <1>12
<1>14. ASSUME NEW m \in S
       PROVE  /\ b.x + 24 <= m.x /\ m.x + Width(m) + 24 <= b.x + b.width
              /\ b.y + 56 <= m.y
              /\ m.y + 40 + 28 * (m.columns + 1) + 12 + 24 <= b.y + b.height
  <2>1. /\ minX <= m.x /\ minY <= m.y /\ m.x + Width(m) <= maxX
        /\ m.y + (40 + 28 * m.columns + 12) + 28 <= maxY
    BY <1>2, <1>5, <1>6, <1>7, <1>8, <1>9
  <2>2. m.x \in Int /\ m.y \in Int /\ Width(m) \in Int /\ m.columns \in Nat
    BY <1>2
  <2> QED  BY <1>6, <1>7, <1>8, <1>9, <1>10, <1>11, <1>12, <2>1, <2>2
<1> QED  BY <1>12, <1>13, <1>14 DEF b, Measure

\* The reads of the members follow four others.
LEMMA RestOfReads ==
  ASSUME NEW read, IsList(read), NEW l \in Nat, Len(read) = 4 + l
  PROVE  LET rest == SubSeq(read, 5, Len(read))
         IN  DOMAIN rest = 1..l /\ \A n \in 1..l : rest[n] = read[4 + n]
<1> DEFINE hi == 4 + l
           rest == SubSeq(read, 5, hi)
<1>1. PICK S : read \in Seq(S)
  BY DEF IsList
<1>2. hi \in Int /\ (IF 5 <= hi THEN hi - 5 + 1 ELSE 0) = l
  OBVIOUS
<1>3. \A i \in 5..hi : read[i] \in S
  BY <1>1
<1>4. Len(read) = hi
  OBVIOUS
<1> HIDE DEF hi
<1>5. /\ rest \in Seq(S) /\ Len(rest) = l
      /\ \A i \in 1..(hi - 5 + 1) : rest[i] = read[5 + i - 1]
  BY <1>2, <1>3, SubSeqProperties
<1> HIDE DEF rest
<1>6. DOMAIN rest = 1..l
  BY <1>5
<1>7. ASSUME NEW n \in 1..l PROVE rest[n] = read[4 + n]
  <2>1. n \in 1..(hi - 5 + 1) /\ 5 + n - 1 = 4 + n
    BY DEF hi
  <2> QED  BY <1>5, <2>1
<1> QED  BY <1>4, <1>6, <1>7 DEF rest

AsMember(x) ==
  [x |-> x.table.f.x, y |-> x.table.f.y, width |-> x.table.f.width, columns |-> x.columns]

LEMMA MembersMeasured ==
  ASSUME NEW l \in Nat, NEW reads, DOMAIN reads = 1..l, \A n \in 1..l : MemberRead(reads[n])
  PROVE  LET placed == areaBoundsMembers(reads)
         IN  /\ IsFiniteSet(placed) /\ \A m \in placed : Measured(m)
             /\ \A n \in 1..l : reads[n].table # None /\ Placed(reads[n].table)
                                  => AsMember(reads[n]) \in placed
<1> DEFINE N == {m \in DOMAIN reads : reads[m].table # None /\ Placed(reads[m].table)}
           placed == areaBoundsMembers(reads)
           f == [n \in N |-> AsMember(reads[n])]
<1>1. placed = {AsMember(reads[n]) : n \in N}
  BY DEF areaBoundsMembers, AsMember
<1>2. f \in Surjection(N, placed)
  BY <1>1 DEF Surjection
<1>3. IsFiniteSet(N)
  <2>1. IsFiniteSet(1..l)
    BY FS_Interval
  <2> QED  BY <2>1, FS_Subset
<1>4. IsFiniteSet(placed)
  <2> HIDE DEF N, placed, f
  <2> QED  BY <1>2, <1>3, FS_Surjection
<1>5. ASSUME NEW n \in N PROVE Measured(AsMember(reads[n]))
  <2>1. /\ reads[n].table.kind = "table" /\ TypedRow(reads[n].table) /\ reads[n].columns \in Nat
        /\ Placed(reads[n].table)
    BY DEF MemberRead
  <2> DEFINE t == reads[n].table
  <2>2. t.f.x \in Int /\ t.f.y \in Int /\ t.f.width \in Int \cup {None}
    <3> HIDE DEF t
    <3>1. TypedRow(t) /\ t.kind = "table" /\ Placed(t)
      BY <2>1 DEF t
    <3> QED  BY <3>1 DEF TypedRow, Placed
  <2> QED  BY <2>1, <2>2 DEF AsMember, Measured
<1>6. \A m \in placed : Measured(m)
  BY <1>1, <1>5
<1>7. \A n \in 1..l : reads[n].table # None /\ Placed(reads[n].table) => AsMember(reads[n]) \in placed
  BY <1>1
<1> QED  BY <1>4, <1>6, <1>7

\* What add_table_to_area and remove_table_from_area have read of the members.
LEMMA MembersRead ==
  ASSUME NEW r, r.tool \in MembershipTool, Accepted(r), NEW read, IsList(read), Known(r, read),
         Len(read) = Len(Steps(r, read)),
         NEW rest, rest = SubSeq(read, 5, Len(read))
  PROVE  LET next == NextMembers(r, read[1])
         IN  /\ next \in Seq(Id) /\ read # <<>>
             /\ Len(read) = 4 + Len(next) /\ DOMAIN rest = 1..Len(next)
             /\ \A n \in 1..Len(next) : /\ rest[n] = read[4 + n] /\ MemberRead(rest[n])
                                        /\ Steps(r, read)[4 + n] = May("member", next[n])
             /\ Steps(r, read)[4] = OnBoard("table", r.member, read[1].board, "FORBIDDEN")
<1> DEFINE next == NextMembers(r, read[1])
<1>1. read # <<>>
  <2>1. read = <<>> => Len(read) = 1
    BY AreaEditSteps DEF AreaEdit, MembershipTool
  <2>2. Len(<<>>) = 0
    OBVIOUS
  <2> QED  BY <2>1, <2>2
<1>2. read[1].kind = "area" /\ TypedRow(read[1])
  BY <1>1 DEF Known, AreaEdit, MembershipTool
<1>3. next \in Seq(Id)
  BY <1>2, NextOfArea DEF TypedRow, TypedFields
<1> HIDE DEF next
<1>4. next = NextMembers(r, read[1])
  BY DEF next
<1>5. /\ Len(Steps(r, read)) = 4 + Len(next)
      /\ Steps(r, read)[4] = OnBoard("table", r.member, read[1].board, "FORBIDDEN")
      /\ \A n \in 1..Len(next) : Steps(r, read)[4 + n] = May("member", next[n])
  BY <1>1, <1>3, <1>4, MembershipSteps
<1> DEFINE l == Len(next)
<1>6. l \in Nat /\ Len(read) = 4 + l
  BY <1>3, <1>5
<1>7. DOMAIN rest = 1..l /\ \A n \in 1..l : rest[n] = read[4 + n]
  <2> HIDE DEF l
  <2> QED  BY <1>6, RestOfReads
<1>8. ASSUME NEW n \in 1..l PROVE MemberRead(rest[n])
  <2>1. 4 + n \in 1..Len(read)
    <3> HIDE DEF l
    <3> QED  BY <1>6
  <2>2. Fits(May("member", next[n]), read[4 + n])
    BY <1>5, <2>1 DEF Known
  <2>3. May("member", next[n]).by = "member"
    BY DEF May, Step
  <2> QED  BY <1>7, <2>2, <2>3 DEF Fits, RowQuery
<1> QED  BY <1>1, <1>3, <1>5, <1>6, <1>7, <1>8 DEF next

-----------------------------------------------------------------------------
(* What is sent.                                                            *)

\* The write that changes an area's list: the next list, and the box if any member
\* has a place.
ChangesList(r, area, placed, w) ==
  /\ w.event = "update" /\ w.id = r.id /\ w.board = area.board /\ w.moves = NoMoves
  /\ DOMAIN w.f \subseteq Measure \cup {"members"}
  /\ "members" \in DOMAIN w.f /\ w.f.members = NextMembers(r, area)
  /\ TypedFields(w.f)
  /\ placed # {} => \A k \in Measure : k \in DOMAIN w.f /\ w.f[k] = ComputeAreaBounds(placed)[k]

LEMMA MembershipWrite ==
  ASSUME NEW r, r.tool \in MembershipTool, Accepted(r), NEW read, IsList(read), Known(r, read),
         Len(read) = Len(Steps(r, read)),
         NEW rest, rest = SubSeq(read, 5, Len(read)),
         NEW placed, placed = areaBoundsMembers(rest)
  PROVE  \E w : Writes(r, read) = <<w>> /\ ChangesList(r, read[1], placed, w)
<1> DEFINE next == NextMembers(r, read[1])
           bounds == ComputeAreaBounds(placed)
           members == [members |-> next]
           f == IF placed = {} THEN members
                ELSE [k \in {"members"} \cup DOMAIN bounds |->
                        IF k = "members" THEN members.members ELSE bounds[k]]
           w == Write("update", read[1].board, r.id, "area", f)
<1>1. Writes(r, read) = <<w>>
  BY DEF Writes, MembershipTool, mutateAreaMembershipWrites
<1>2. next \in Seq(Id)
  BY MembersRead
<1>3. placed # {} =>
        DOMAIN bounds = Measure /\ \A k \in Measure : bounds[k] \in Int
  <2> HIDE DEF next
  <2>1. PICK l \in Nat : DOMAIN rest = 1..l /\ \A n \in 1..l : MemberRead(rest[n])
    <3>1. next \in Seq(Id) /\ DOMAIN rest = 1..Len(next) /\ \A n \in 1..Len(next) : MemberRead(rest[n])
      BY MembersRead DEF next
    <3>2. Len(next) \in Nat
      BY <3>1
    <3> QED  BY <3>1, <3>2
  <2>2. IsFiniteSet(placed) /\ \A m \in placed : Measured(m)
    BY <2>1, MembersMeasured
  <2> QED  BY <2>2, BoundsEnclose DEF Measure
<1>4. members.members = next /\ DOMAIN members = {"members"}
  OBVIOUS
<1> HIDE DEF next, bounds, members
<1>5. /\ DOMAIN f \subseteq Measure \cup {"members"} /\ "members" \in DOMAIN f
      /\ f.members = next
      /\ placed # {} => \A k \in Measure : k \in DOMAIN f /\ f[k] = bounds[k]
      /\ \A k \in Measure \cap DOMAIN f : f[k] \in Int
  <2>1. CASE placed = {}
    BY <1>4, <2>1 DEF Measure
  <2>2. CASE placed # {}
    BY <1>3, <1>4, <2>2 DEF Measure
  <2> QED  BY <2>1, <2>2
<1> HIDE DEF f
<1>6. TypedFields(f)
  BY <1>2, <1>5 DEF TypedFields
<1>7. /\ w.event = "update" /\ w.id = r.id /\ w.board = read[1].board /\ w.moves = NoMoves
      /\ w.f = f
  BY DEF Write
<1> HIDE DEF w
<1>8. ChangesList(r, read[1], placed, w)
  BY <1>5, <1>6, <1>7 DEF next, bounds, ChangesList
<1> QED  BY <1>1, <1>8

\* The write of move_area: the new place, and for each member that has one, the place
\* read for it, displaced as the area is.
Moving(x) == x # None /\ Placed(x)

MovesBy(read, dx, dy, moves) ==
  LET members == read[1].f.members
  IN  /\ \A id \in DOMAIN moves : \E n \in 1..Len(members) :
           /\ members[n] = id /\ Moving(read[3 + n])
           /\ read[3 + n].kind = "table" /\ TypedRow(read[3 + n])
           /\ moves[id] = [x |-> read[3 + n].f.x + dx, y |-> read[3 + n].f.y + dy]
      /\ \A n \in 1..Len(members) : Moving(read[3 + n]) => members[n] \in DOMAIN moves

MovesArea(r, read, w) ==
  /\ w.event = "update" /\ w.id = r.id
  /\ w.board = read[1].board /\ w.f = [x |-> r.set.x, y |-> r.set.y]
  /\ MovesBy(read, r.set.x - read[1].f.x, r.set.y - read[1].f.y, w.moves)

LEMMA MoveWrite ==
  ASSUME NEW r, r.tool = "move_area", Accepted(r), NEW read, IsList(read), Known(r, read),
         Len(read) = Len(Steps(r, read))
  PROVE  LET members == read[1].f.members
         IN  /\ members \in Seq(Id) /\ read # <<>> /\ Len(read) = 3 + Len(members)
             /\ \A n \in 1..Len(members) : Steps(r, read)[3 + n] = May("table", members[n])
             /\ \E w : Writes(r, read) = <<w>> /\ MovesArea(r, read, w)
<1> DEFINE dx == r.set.x - read[1].f.x
           dy == r.set.y - read[1].f.y
           members == read[1].f.members
           at(id) == Max({n \in MovedMembers(read) : members[n] = id})
           moves  == [id \in {members[n] : n \in MovedMembers(read)} |->
                        areaMoveMemberFromTable(read[at(id) + 3], dx, dy)]
           plain == Write("update", read[1].board, r.id, "area", [x |-> r.set.x, y |-> r.set.y])
           w == [plain EXCEPT !.moves = moves]
           l == Len(members)
<1>1. Writes(r, read) = <<w>>
  BY DEF Writes, moveAreaWrites
<1>2. /\ w.event = "update" /\ w.id = r.id /\ w.board = read[1].board
      /\ w.f = [x |-> r.set.x, y |-> r.set.y] /\ w.moves = moves
  <2> HIDE DEF moves
  <2> QED  BY DEF Write
<1>3. read # <<>>
  <2>1. read = <<>> => Len(read) = 1
    BY AreaEditSteps DEF AreaEdit
  <2>2. Len(<<>>) = 0
    OBVIOUS
  <2> QED  BY <2>1, <2>2
<1>4. read[1].kind = "area" /\ TypedRow(read[1])
  BY <1>3 DEF Known, AreaEdit
<1>5. members \in Seq(Id) /\ l \in Nat /\ DOMAIN members = 1..l
  <2>1. members \in Seq(Id)
    BY <1>4 DEF TypedRow, TypedFields
  <2> HIDE DEF members
  <2> QED  BY <2>1
<1>6. /\ Len(Steps(r, read)) = 3 + Len(members)
      /\ \A n \in 1..Len(members) : Steps(r, read)[3 + n] = May("table", members[n])
  BY <1>3, <1>5, MoveSteps
<1>7. ASSUME NEW n \in 1..l, read[3 + n] # None, Placed(read[3 + n])
      PROVE  read[3 + n].kind = "table" /\ TypedRow(read[3 + n])
  <2>1. 3 + n \in 1..Len(read)
    <3> HIDE DEF members
    <3> QED  BY <1>5, <1>6
  <2>2. Fits(May("table", members[n]), read[3 + n])
    BY <1>6, <2>1 DEF Known
  <2>3. May("table", members[n]).by = "table"
    BY DEF May, Step
  <2> QED  BY <1>7, <2>2, <2>3 DEF Fits
<1> HIDE DEF members
<1>8. MovedMembers(read) = {n \in 1..l : read[n + 3] # None /\ Placed(read[n + 3])}
  BY <1>5 DEF MovedMembers, members
<1> HIDE DEF l
<1>9. \A n \in 1..l : n + 3 = 3 + n
  BY <1>5
<1>10. MovedMembers(read) = {n \in 1..l : read[3 + n] # None /\ Placed(read[3 + n])}
  BY <1>8, <1>9
<1>11. ASSUME NEW id \in DOMAIN moves
       PROVE  \E n \in 1..l :
                /\ members[n] = id /\ read[3 + n] # None /\ Placed(read[3 + n])
                /\ moves[id] = [x |-> read[3 + n].f.x + dx, y |-> read[3 + n].f.y + dy]
  <2> DEFINE N == {n \in MovedMembers(read) : members[n] = id}
  <2>1. N \in SUBSET (1..l) /\ N # {}
    BY <1>10
  <2>2. Max(N) \in N
    <3> HIDE DEF N
    <3> QED  BY <1>5, <2>1, MaxOfPart
  <2>3. moves[id] = areaMoveMemberFromTable(read[Max(N) + 3], dx, dy)
    OBVIOUS
  <2> HIDE DEF N, dx, dy
  <2>4. Max(N) \in 1..l /\ Max(N) + 3 = 3 + Max(N)
    BY <1>9, <2>1, <2>2
  <2>5. members[Max(N)] = id /\ read[3 + Max(N)] # None /\ Placed(read[3 + Max(N)])
    BY <1>10, <2>2 DEF N
  <2>6. moves[id] = [x |-> read[3 + Max(N)].f.x + dx, y |-> read[3 + Max(N)].f.y + dy]
    BY <2>3, <2>4 DEF areaMoveMemberFromTable
  <2> QED  BY <2>4, <2>5, <2>6
<1>12. \A n \in 1..l : read[3 + n] # None /\ Placed(read[3 + n]) => members[n] \in DOMAIN moves
  BY <1>10
<1> HIDE DEF w, moves
<1>13. \A id \in DOMAIN w.moves : \E n \in 1..l :
         /\ members[n] = id /\ Moving(read[3 + n])
         /\ read[3 + n].kind = "table" /\ TypedRow(read[3 + n])
         /\ w.moves[id] = [x |-> read[3 + n].f.x + dx, y |-> read[3 + n].f.y + dy]
  BY <1>2, <1>7, <1>11 DEF Moving
<1>14. \A n \in 1..l : Moving(read[3 + n]) => members[n] \in DOMAIN w.moves
  BY <1>2, <1>12 DEF Moving
<1>15. MovesBy(read, dx, dy, w.moves)
  BY <1>13, <1>14 DEF MovesBy, members, l
<1>16. MovesArea(r, read, w)
  BY <1>2, <1>15 DEF MovesArea
<1> QED  BY <1>1, <1>3, <1>5, <1>6, <1>16 DEF members, l

\* A write that leaves the fields that are computed with what they are.
TypedWrite(w) ==
  /\ w.event = "create" => TypedRow([kind |-> w.kind, board |-> w.board, f |-> w.f])
  /\ w.event = "update" => TypedFields(w.f) /\ \A k \in DOMAIN w.moves : TypedFields(w.moves[k])

LEMMA PlaceTyped ==
  ASSUME NEW x \in Int, NEW y \in Int
  PROVE  TypedFields([x |-> x, y |-> y])
BY DEF TypedFields, Measure

LEMMA NamedTyped ==
  ASSUME NEW r, TypedFields(r.set), NEW fields, "members" \notin fields
  PROVE  TypedFields(Named(r, fields))
BY DEF TypedFields, Named, Restrict, Measure

LEMMA NoFieldsTyped == TypedFields(NoMoves)
BY DEF TypedFields, NoMoves

LEMMA MergedDomain ==
  ASSUME NEW stored, NEW r
  PROVE  DOMAIN mergeCanvasConnectorProps(stored, r) = PropKeys
<1>1. \A props, end : DOMAIN props = PropKeys
                        => DOMAIN applyCanvasConnectorEnd(props, r, end) = PropKeys
  BY DEF applyCanvasConnectorEnd
<1> QED  BY <1>1 DEF mergeCanvasConnectorProps

\* update_table: a write without place, a write of both axes, or the two.
FinalAxis(r, table, axis) ==
  IF axis \in DOMAIN r.set THEN r.set[axis]
  ELSE IF table.f[axis] # None THEN table.f[axis] ELSE 0

TableUpdate(r, table) == Write("update", table.board, r.id, "table", Named(r, {"name", "width"}))

TableMove(r, table) ==
  Write("update", table.board, r.id, "table",
        [x |-> FinalAxis(r, table, "x"), y |-> FinalAxis(r, table, "y")])

LEMMA TableWrite ==
  ASSUME NEW r, r.tool = "update_table", NEW read
  PROVE  \A n \in 1..Len(Writes(r, read)) :
           \/ Writes(r, read)[n] = TableUpdate(r, read[3])
           \/ /\ Writes(r, read)[n] = TableMove(r, read[3])
              /\ {"x", "y"} \cap DOMAIN r.set # {}
<1> DEFINE u == TableUpdate(r, read[3])
           m == TableMove(r, read[3])
           s == IF DOMAIN Named(r, {"name", "width"}) = {} THEN <<>> ELSE <<u>>
           t == IF {"x", "y"} \cap DOMAIN r.set = {} THEN <<>> ELSE <<m>>
<1>1. Writes(r, read) = s \o t
  BY DEF Writes, updateTableWrites, TableUpdate, TableMove, FinalAxis
<1>2. s = <<>> \/ s = <<u>>
  OBVIOUS
<1>3. t = <<>> \/ (t = <<m>> /\ {"x", "y"} \cap DOMAIN r.set # {})
  OBVIOUS
<1> HIDE DEF s, t, u, m
<1>4. \A n \in 1..Len(s \o t) : (s \o t)[n] = u
        \/ ((s \o t)[n] = m /\ {"x", "y"} \cap DOMAIN r.set # {})
  <2>1. CASE s = <<>>
    BY <1>3, <2>1
  <2>2. CASE s = <<u>> /\ t = <<>>
    BY <2>2
  <2>3. CASE s = <<u>> /\ t = <<m>> /\ {"x", "y"} \cap DOMAIN r.set # {}
    BY <2>3
  <2> QED  BY <1>2, <1>3, <2>1, <2>2, <2>3
<1> QED  BY <1>1, <1>4 DEF u, m

\* What update_table has read of its table.
LEMMA TableRead ==
  ASSUME NEW r, r.tool = "update_table", NEW read, Known(r, read), Len(read) = Len(Steps(r, read))
  PROVE  read[3].kind = "table" /\ TypedRow(read[3])
<1>1. Len(read) = 3 /\ Steps(r, read)[3] = Must("table", r.id)
  BY DEF Steps, tableSteps
<1>2. Fits(Must("table", r.id), read[3]) /\ Granted(Must("table", r.id), read[3])
  BY <1>1 DEF Known
<1>3. Must("table", r.id).by = "table" /\ Must("table", r.id).missing = "NOT_FOUND"
  BY DEF Must, Step
<1> QED  BY <1>2, <1>3 DEF Fits, Granted, RowQuery

LEMMA TypedWrites ==
  ASSUME NEW r, Accepted(r), NEW read, IsList(read), Known(r, read), Len(read) = Len(Steps(r, read))
  PROVE  \A n \in 1..Len(Writes(r, read)) : TypedWrite(Writes(r, read)[n])
<1>1. ASSUME NEW w, Writes(r, read) = <<w>>, TypedWrite(w)
      PROVE  \A n \in 1..Len(Writes(r, read)) : TypedWrite(Writes(r, read)[n])
  BY <1>1
<1>s. r.tool \notin MembershipTool \cup {"bulk_update_positions", "reorder_columns"} =>
        DOMAIN r.set \subseteq FieldsOf(r.tool) /\ TypedFields(r.set)
  BY DEF Accepted
<1>2. CASE r.tool = "create_area"
  <2> DEFINE w == Write("create", r.board, None, "area", r.set)
  <2>1. Writes(r, read) = <<w>>
    BY <1>2 DEF Writes, createAreaWrites
  <2>2. DOMAIN r.set = Measure \cup {"members"} /\ TypedFields(r.set)
    BY <1>2, <1>s DEF Accepted, FieldsOf, Measure, MembershipTool
  <2>3. TypedWrite(w)
    BY <2>2 DEF TypedWrite, Write, TypedRow
  <2> QED  BY <1>1, <2>1, <2>3
<1>3. CASE r.tool = "create_table"
  <2> DEFINE f == WithDefaults(r, {"name", "x", "y", "width"})
             w == Write("create", r.board, None, "table", f)
  <2>1. Writes(r, read) = <<w>>
    BY <1>3 DEF Writes, createTableWrites
  <2>2. \A k \in {"x", "y", "width"} : k \in DOMAIN f /\ f[k] \in Int \cup {None}
    BY <1>3, <1>s DEF WithDefaults, TypedFields, Measure, MembershipTool
  <2> HIDE DEF f
  <2>3. TypedWrite(w)
    BY <2>2 DEF TypedWrite, Write, TypedRow
  <2> QED  BY <1>1, <2>1, <2>3
<1>4. CASE r.tool \in {"create_column", "create_relationship", "create_canvas_element",
                       "create_canvas_connector"}
  <2>1. PICK w : Writes(r, read) = <<w>> /\ w.event = "create"
                 /\ w.kind \in {"column", "relationship", "element", "connector"}
    BY <1>4 DEF Writes, createColumnWrites, createRelationshipWrites, createElementWrites,
                createConnectorWrites, Write
  <2>2. TypedWrite(w)
    BY <2>1 DEF TypedWrite, TypedRow
  <2> QED  BY <1>1, <2>1, <2>2
<1>5. CASE r.tool \in MembershipTool
  <2>1. PICK placed, w : Writes(r, read) = <<w>> /\ ChangesList(r, read[1], placed, w)
    BY <1>5, MembershipWrite
  <2>2. TypedWrite(w)
    BY <2>1 DEF TypedWrite, NoMoves, ChangesList
  <2> QED  BY <1>1, <2>1, <2>2
<1>6. CASE r.tool = "move_area"
  <2>a. DOMAIN r.set = {"x", "y"} /\ TypedFields(r.set)
    BY <1>6, <1>s DEF Accepted, FieldsOf, MembershipTool
  <2>0. r.set.x \in Int /\ r.set.y \in Int
    BY <2>a DEF TypedFields, Measure
  <2> DEFINE dx == r.set.x - read[1].f.x
             dy == r.set.y - read[1].f.y
             l == Len(read[1].f.members)
  <2>1. read # <<>>
    BY <1>6, MoveWrite
  <2>2. read[1].f.x \in Int /\ read[1].f.y \in Int
    <3>1. read[1].kind = "area" /\ TypedRow(read[1])
      BY <1>6, <2>1 DEF Known, AreaEdit
    <3> QED  BY <3>1 DEF TypedRow, TypedFields, Measure
  <2>3. dx \in Int /\ dy \in Int
    BY <2>0, <2>2
  <2>m. PICK w : Writes(r, read) = <<w>> /\ MovesArea(r, read, w)
    BY <1>6, MoveWrite
  <2>4. /\ w.event = "update" /\ w.f = [x |-> r.set.x, y |-> r.set.y]
        /\ \A id \in DOMAIN w.moves : \E n \in 1..l :
             /\ Placed(read[3 + n]) /\ read[3 + n].kind = "table" /\ TypedRow(read[3 + n])
             /\ w.moves[id] = [x |-> read[3 + n].f.x + dx, y |-> read[3 + n].f.y + dy]
    BY <2>m DEF MovesArea, MovesBy, Moving
  <2> HIDE DEF dx, dy, l
  <2>5. ASSUME NEW id \in DOMAIN w.moves PROVE TypedFields(w.moves[id])
    <3>1. PICK n : /\ Placed(read[3 + n]) /\ read[3 + n].kind = "table" /\ TypedRow(read[3 + n])
                   /\ w.moves[id] = [x |-> read[3 + n].f.x + dx, y |-> read[3 + n].f.y + dy]
      BY <2>4
    <3>2. read[3 + n].f.x \in Int /\ read[3 + n].f.y \in Int
      BY <3>1 DEF Placed, TypedRow
    <3>3. read[3 + n].f.x + dx \in Int /\ read[3 + n].f.y + dy \in Int
      BY <2>3, <3>2
    <3> QED  BY <3>1, <3>3, PlaceTyped
  <2>6. TypedWrite(w)
    BY <2>0, <2>4, <2>5, PlaceTyped DEF TypedWrite
  <2> QED  BY <1>1, <2>m, <2>6
<1>7. CASE r.tool = "update_table"
  <2> DEFINE u == TableUpdate(r, read[3])
             m == TableMove(r, read[3])
             x == FinalAxis(r, read[3], "x")
             y == FinalAxis(r, read[3], "y")
  <2>1. \A n \in 1..Len(Writes(r, read)) : Writes(r, read)[n] = u \/ Writes(r, read)[n] = m
    BY <1>7, TableWrite
  <2>2. TypedFields(r.set)
    BY <1>7, <1>s DEF MembershipTool
  <2>3. read[3].kind = "table" /\ TypedRow(read[3])
    BY <1>7, TableRead
  <2>4. x \in Int /\ y \in Int
    BY <2>2, <2>3 DEF TypedFields, TypedRow, Measure, FinalAxis
  <2>5. TypedFields(Named(r, {"name", "width"})) /\ TypedFields([x |-> x, y |-> y])
    <3> HIDE DEF x, y
    <3> QED  BY <2>2, <2>4, NamedTyped, PlaceTyped
  <2>6. TypedWrite(u)
    BY <2>5 DEF TypedWrite, Write, NoMoves, TableUpdate
  <2>7. TypedWrite(m)
    BY <2>5 DEF TypedWrite, Write, NoMoves, TableMove
  <2> HIDE DEF u, m
  <2> QED  BY <2>1, <2>6, <2>7
<1>8. CASE r.tool \in {"update_column", "update_relationship"}
  <2>1. PICK w : Writes(r, read) = <<w>> /\ w.event = "update" /\ w.f = r.set /\ w.moves = NoMoves
    BY <1>8 DEF Writes, updateColumnWrites, updateRelationshipWrites, Write
  <2>2. TypedFields(r.set)
    BY <1>8, <1>s DEF MembershipTool
  <2>3. TypedWrite(w)
    BY <2>1, <2>2 DEF TypedWrite, NoMoves
  <2> QED  BY <1>1, <2>1, <2>3
<1>9. CASE r.tool \in {"delete_table", "delete_column", "delete_relationship", "delete_canvas_element"}
  <2>1. PICK w : Writes(r, read) = <<w>> /\ w.event = "delete"
    BY <1>9 DEF Writes, deleteTableWrites, deleteColumnWrites, deleteRelationshipWrites,
                deleteElementWrites, Write
  <2> QED  BY <1>1, <2>1 DEF TypedWrite
<1>10. CASE r.tool = "reorder_columns"
  <2> DEFINE base == Write("update", read[3].board, r.id, "table", NoMoves)
             moves == [k \in {r.ordered[n] : n \in DOMAIN r.ordered} |->
                         [order |-> Max({n \in DOMAIN r.ordered : r.ordered[n] = k})]]
             w == [base EXCEPT !.moves = moves]
  <2>1. Writes(r, read) = <<w>>
    BY <1>10 DEF Writes, reorderColumnsWrites
  <2>2. \A o : TypedFields([order |-> o])
    BY DEF TypedFields, Measure
  <2>3. \A k \in DOMAIN moves : TypedFields(moves[k])
    BY <2>2
  <2> HIDE DEF moves
  <2>4. w.f = NoMoves /\ w.moves = moves /\ w.event = "update"
    BY DEF Write
  <2> HIDE DEF w
  <2>5. TypedWrite(w)
    BY <2>3, <2>4, NoFieldsTyped DEF TypedWrite
  <2> QED  BY <1>1, <2>1, <2>5
<1>11. CASE r.tool = "bulk_update_positions"
  <2> DEFINE f(n) == [x |-> r.positions[n].x, y |-> r.positions[n].y]
  <2>1. Writes(r, read) = positionsWrites(r)
    BY <1>11 DEF Writes
  <2>a. r.positions \in Seq([id : Id, x : Int, y : Int])
    BY <1>11 DEF Accepted
  <2>2. /\ DOMAIN r.positions = 1..Len(r.positions) /\ Len(r.positions) \in Nat
        /\ \A n \in 1..Len(r.positions) : r.positions[n].x \in Int /\ r.positions[n].y \in Int
    <3> DEFINE P == r.positions
               S == [id : Id, x : Int, y : Int]
    <3>1. P \in Seq(S)
      BY <2>a
    <3> HIDE DEF P, S
    <3>0. \A n \in 1..Len(P) : P[n] \in S
      BY <3>1
    <3>2. \A n \in 1..Len(P) : P[n] \in [id : Id, x : Int, y : Int]
      BY <3>0 DEF S
    <3>3. \A n \in 1..Len(P) : P[n].x \in Int /\ P[n].y \in Int
      BY <3>2
    <3>4. DOMAIN P = 1..Len(P) /\ Len(P) \in Nat
      BY <3>1
    <3> QED  BY <3>3, <3>4 DEF P
  <2>3. /\ Len(positionsWrites(r)) = Len(r.positions)
        /\ \A n \in 1..Len(r.positions) :
             /\ positionsWrites(r)[n].event = "update"
             /\ positionsWrites(r)[n].f = f(n) /\ positionsWrites(r)[n].moves = NoMoves
    BY <2>2 DEF positionsWrites, Write
  <2>4. \A n \in 1..Len(r.positions) : TypedFields(f(n))
    BY <2>2, PlaceTyped
  <2> HIDE DEF f
  <2> QED  BY <2>1, <2>3, <2>4 DEF TypedWrite, NoMoves
<1>12. CASE r.tool = "update_canvas_element"
  <2>1. PICK w : Writes(r, read) = <<w>> /\ w.event = "update" /\ w.moves = NoMoves
                 /\ w.f = Named(r, ElementFields)
    BY <1>12 DEF Writes, updateElementWrites, Write
  <2>2. TypedFields(r.set) /\ "members" \notin ElementFields
    BY <1>12, <1>s DEF MembershipTool, ElementFields
  <2>3. TypedFields(w.f)
    BY <2>1, <2>2, NamedTyped
  <2>4. TypedWrite(w)
    BY <2>1, <2>3 DEF TypedWrite, NoMoves
  <2> QED  BY <1>1, <2>1, <2>4
<1>13. CASE r.tool = "update_canvas_connector"
  <2>1. PICK w : Writes(r, read) = <<w>> /\ w.event = "update" /\ w.moves = NoMoves
                 /\ w.f = mergeCanvasConnectorProps(read[3].f, r)
    BY <1>13 DEF Writes, updateConnectorWrites, Write
  <2>2. DOMAIN w.f = PropKeys
    BY <2>1, MergedDomain
  <2>3. TypedFields(w.f)
    BY <2>2 DEF TypedFields, Measure, PropKeys, EndKeys, End, IdKey, PointKey
  <2>4. TypedWrite(w)
    BY <2>1, <2>3 DEF TypedWrite, NoMoves
  <2> QED  BY <1>1, <2>1, <2>4
<1> QED
  BY <1>2, <1>3, <1>4, <1>5, <1>6, <1>7, <1>8, <1>9, <1>10, <1>11, <1>12, <1>13
     DEF Accepted, Tool, MembershipTool
-----------------------------------------------------------------------------
(* The types of the whole.                                                  *)

Live(c) == phase[c] \in {"query", "emit", "wait"} \/ sent[c] > 0

Prepared(c) == phase[c] \in {"emit", "wait"} \/ sent[c] > 0

\* A call knows what its queries have told it; one that sends has made them all, and
\* one that is done has answered.
Knows(c) ==
  /\ Live(c) => Known(request[c], seen[c])
  /\ Prepared(c) => /\ Len(seen[c]) = Len(Steps(request[c], seen[c]))
                    /\ Refusal(request[c], seen[c]) = "none"
  /\ phase[c] = "done" => answer[c] # "none"

EditInv ==
  /\ SendInv /\ RowsTyped
  /\ standing \in Standing /\ meddled \in 0..MaxMeddling
  /\ \A c \in Call : Knows(c)

LEMMA EditInit == Init => EditInv
<1> SUFFICES ASSUME Init PROVE EditInv
  OBVIOUS
<1>1. SendInv
  BY SendInit
<1>2. RowsTyped
  BY ScenarioAssumption DEF Init, RowsTyped
<1>3. standing \in Standing
  BY DEF Init, Standing, MemberRole
<1>4. meddled \in 0..MaxMeddling
  BY BoundsAssumption DEF Init
<1>5. ASSUME NEW c \in Call PROVE Knows(c)
  BY DEF Init, Knows, Live, Prepared
<1> QED  BY <1>1, <1>2, <1>3, <1>4, <1>5 DEF EditInv

\* Overwriting the fields of a row leaves it typed.
LEMMA OverwriteTyped ==
  ASSUME NEW row, TypedRow(row), NEW g, TypedFields(g)
  PROVE  TypedRow([row EXCEPT !.f = Overwrite(@, g)])
<1> DEFINE new == [row EXCEPT !.f = Overwrite(@, g)]
<1>1. DOMAIN row = {"kind", "board", "f"}
  BY DEF TypedRow
<1>2. DOMAIN new = {"kind", "board", "f"} /\ new.kind = row.kind /\ new.f = Overwrite(row.f, g)
  BY <1>1
<1> HIDE DEF new
<1>3. /\ DOMAIN new.f = DOMAIN row.f
      /\ \A k \in DOMAIN row.f : new.f[k] = IF k \in DOMAIN g THEN g[k] ELSE row.f[k]
  BY <1>2 DEF Overwrite
<1>4. ASSUME row.kind = "table", NEW k \in {"x", "y", "width"}
      PROVE  k \in DOMAIN new.f /\ new.f[k] \in Int \cup {None}
  BY <1>3, <1>4 DEF TypedRow, TypedFields, Measure
<1>5. ASSUME row.kind = "area"
      PROVE  Measure \cup {"members"} \subseteq DOMAIN new.f /\ TypedFields(new.f)
  <2>1. Measure \cup {"members"} \subseteq DOMAIN row.f /\ TypedFields(row.f)
    BY <1>5 DEF TypedRow
  <2>2. \A k \in Measure : new.f[k] \in Int
    BY <1>3, <2>1 DEF TypedFields
  <2>3. new.f.members \in Seq(Id)
    BY <1>3, <2>1 DEF TypedFields
  <2> QED  BY <1>3, <2>1, <2>2, <2>3 DEF TypedFields
<1> QED  BY <1>2, <1>4, <1>5 DEF TypedRow, new

LEMMA FewerTyped ==
  ASSUME RowsTyped, NEW ids, rows' = Without(rows, ids)
  PROVE  RowsTyped'
<1>1. DOMAIN rows' = DOMAIN rows \ ids /\ \A k \in DOMAIN rows' : rows'[k] = rows[k]
  BY DEF Without
<1>2. IsFiniteSet(DOMAIN rows')
  <2>1. DOMAIN rows' \subseteq DOMAIN rows /\ IsFiniteSet(DOMAIN rows)
    BY <1>1 DEF RowsTyped
  <2> QED  BY <2>1, FS_Subset
<1> QED  BY <1>1, <1>2 DEF RowsTyped

LEMMA StoreTyped ==
  ASSUME RowsTyped, NEW w, GoodWrite(w), TypedWrite(w), Accepts(rows, w), rows' = Store(rows, w)
  PROVE  RowsTyped'
<1>1. CASE w.event = "create"
  <2> DEFINE new == CHOOSE k \in Spare \ DOMAIN rows : TRUE
             row == [kind |-> w.kind, board |-> w.board, f |-> w.f]
  <2>1. rows' = [k \in DOMAIN rows \cup {new} |-> IF k = new THEN row ELSE rows[k]]
    BY <1>1 DEF Store
  <2>2. new \in Id
    BY <1>1, IdAssumption DEF Accepts
  <2>3. TypedRow(row)
    BY <1>1 DEF TypedWrite
  <2> HIDE DEF new, row
  <2>4. DOMAIN rows' = DOMAIN rows \cup {new}
    BY <2>1
  <2>5. IsFiniteSet(DOMAIN rows')
    BY <2>4, FS_AddElement DEF RowsTyped
  <2> QED  BY <2>1, <2>2, <2>3, <2>4, <2>5 DEF RowsTyped
<1>2. CASE w.event = "update"
  <2>1. DOMAIN rows' = DOMAIN rows
    BY <1>2 DEF Store
  <2>2. ASSUME NEW k \in DOMAIN rows PROVE TypedRow(rows'[k])
    <3> DEFINE row == rows[k]
    <3>1. \/ rows'[k] = [row EXCEPT !.f = Overwrite(@, w.f)]
          \/ k \in DOMAIN w.moves /\ rows'[k] = [row EXCEPT !.f = Overwrite(@, w.moves[k])]
          \/ rows'[k] = row
      BY <1>2 DEF Store
    <3>2. TypedRow(row)
      BY DEF RowsTyped
    <3>3. TypedFields(w.f) /\ \A i \in DOMAIN w.moves : TypedFields(w.moves[i])
      BY <1>2 DEF TypedWrite
    <3> HIDE DEF row
    <3> QED  BY <3>1, <3>2, <3>3, OverwriteTyped
  <2> QED  BY <2>1, <2>2 DEF RowsTyped
<1>3. CASE w.event = "delete"
  BY <1>3, FewerTyped DEF Store
<1> QED  BY <1>1, <1>2, <1>3 DEF GoodWrite

\* What a call that has sent write n knows of it.
LEMMA SentWrite ==
  ASSUME EditInv, NEW c \in Call, NEW n \in 1..MaxWrites, n <= sent[c]
  PROVE  /\ Prepared(c) /\ Live(c) /\ n \in 1..Len(List(c))
         /\ GoodWrite(Payload(c, n)) /\ TypedWrite(Payload(c, n))
         /\ Accepted(request[c]) /\ Valid(request[c]) /\ IsList(seen[c])
<1> DEFINE k == Len(List(c))
<1>1. Types /\ Progress(c) /\ ReadsFit(c) /\ WritesFit(c) /\ Knows(c)
  BY DEF EditInv, SendInv, AnswerInv
<1>2. sent[c] \in 0..MaxWrites /\ Accepted(request[c])
  BY <1>1 DEF Types
<1>3. sent[c] > 0
  BY <1>2, BoundsAssumption
<1>4. /\ Valid(request[c]) /\ sent[c] <= k /\ Prepared(c) /\ Live(c)
      /\ \A m \in 1..k : GoodWrite(List(c)[m])
  BY <1>1, <1>3 DEF Progress, WritesFit, Prepared, Live
<1>5. k \in 1..MaxWrites
  BY <1>2, <1>4, WritesBounded DEF List
<1>6. IsList(seen[c]) /\ Known(request[c], seen[c]) /\ Len(seen[c]) = Len(Steps(request[c], seen[c]))
  BY <1>1, <1>4 DEF ReadsFit, Knows
<1>7. \A m \in 1..k : TypedWrite(List(c)[m])
  BY <1>2, <1>6, TypedWrites DEF List
<1> HIDE DEF k
<1>8. n \in 1..k
  BY <1>2, <1>3, <1>4, <1>5, BoundsAssumption
<1> QED  BY <1>2, <1>4, <1>6, <1>7, <1>8 DEF Payload, List, k

LEMMA KeepsKnowing ==
  ASSUME NEW c \in Call, Knows(c),
         request'[c] = request[c], seen'[c] = seen[c],
         Live(c)' => Live(c), Prepared(c)' => Prepared(c),
         phase'[c] = "done" => answer'[c] # "none"
  PROVE  Knows(c)'
BY DEF Knows

\* A step that takes one call forward and leaves the rows.
LEMMA OneCallKnows ==
  ASSUME EditInv, SendInv', UNCHANGED <<rows, standing, request, meddled>>, NEW c \in Call,
         \A d \in Call \ {c} : /\ phase'[d] = phase[d] /\ seen'[d] = seen[d]
                               /\ sent'[d] = sent[d] /\ answer'[d] = answer[d],
         Knows(c)'
  PROVE  EditInv'
<1>1. ASSUME NEW d \in Call \ {c} PROVE Knows(d)'
  <2>1. /\ request'[d] = request[d] /\ phase'[d] = phase[d] /\ seen'[d] = seen[d]
        /\ sent'[d] = sent[d] /\ answer'[d] = answer[d]
    OBVIOUS
  <2>2. Knows(d)
    BY DEF EditInv
  <2> QED  BY <2>1, <2>2 DEF Knows, Live, Prepared
<1>2. RowsTyped'
  BY DEF EditInv, RowsTyped
<1> QED  BY <1>1, <1>2 DEF EditInv

LEMMA EditStep == EditInv /\ [Next]_vars => EditInv'
<1> SUFFICES ASSUME EditInv, [Next]_vars PROVE EditInv'
  OBVIOUS
<1>s. SendInv /\ SendInv' /\ AnswerInv
  BY SendStep DEF EditInv, SendInv
<1>t. Types /\ \A c \in Call : Progress(c) /\ ReadsFit(c) /\ Knows(c)
  BY <1>s DEF AnswerInv, SendInv, EditInv
<1>o. RowsTyped /\ standing \in Standing /\ meddled \in 0..MaxMeddling
  BY DEF EditInv
<1>1. ASSUME NEW c \in Call, Validate(c) PROVE EditInv'
  <2>1. /\ seen[c] = <<>> /\ sent[c] = 0 /\ UNCHANGED <<rows, standing, request, seen, sent, meddled>>
        /\ phase'[c] = "query" \/ (phase'[c] = "done" /\ answer'[c] = "VALIDATION_ERROR")
        /\ \A d \in Call \ {c} : phase'[d] = phase[d] /\ answer'[d] = answer[d]
    BY <1>1, <1>t DEF Validate, Answer, Types, Progress, ReadsFit
  <2>2. Known(request[c], <<>>)
    <3>1. 1..Len(<<>>) = {}
      OBVIOUS
    <3> QED  BY <3>1 DEF Known
  <2>3. Knows(c)'
    BY <2>1, <2>2 DEF Knows, Live, Prepared
  <2> QED  BY <1>s, <2>1, <2>3, OneCallKnows
<1>2. ASSUME NEW c \in Call, Query(c) PROVE EditInv'
  <2> DEFINE r == request[c]
             s == Steps(r, seen[c])[Len(seen[c]) + 1]
             row == RowOf(rows, s)
             verdict == Verdict(rows, standing, s)
  <2>1. /\ phase[c] = "query" /\ sent[c] = 0 /\ UNCHANGED <<rows, standing, request, sent, meddled>>
        /\ seen'[c] = Append(seen[c], row)
        /\ \A d \in Call \ {c} : seen'[d] = seen[d]
        /\ Len(seen[c]) + 1 <= Len(Steps(r, seen[c]))
    BY <1>2, <1>t DEF Query, Types, Progress
  <2>2. IF verdict = "ok" THEN UNCHANGED <<phase, answer>> ELSE Answer(c, verdict)
    BY <1>2 DEF Query
  <2>3. IsList(seen[c]) /\ Known(r, seen[c]) /\ Accepted(r)
    BY <1>t, <2>1 DEF ReadsFit, Knows, Live, Types
  <2>4. verdict = "ok" => Known(r, Append(seen[c], row))
    BY <1>o, <2>3, QueryKnows
  <2>5. verdict # "none"
    <3>1. AreaRead(r, seen[c])
      BY <2>3 DEF AreaRead, Known, TypedRow, TypedFields
    <3>2. Answers(Steps(r, seen[c]))
      BY <2>3, <3>1, StepsAnswer
    <3>3. Len(seen[c]) + 1 \in 1..Len(Steps(r, seen[c]))
      <4>1. Len(seen[c]) \in Nat
        BY <2>3, ListLength
      <4>2. PICK l \in Nat : Len(Steps(r, seen[c])) = l
        BY <3>2, ListLength DEF Answers
      <4> HIDE DEF s, r
      <4> QED  BY <2>1, <4>1, <4>2
    <3>4. s.missing \in {"ok", "NOT_FOUND"} /\ s.elsewhere \in {"ok", "NOT_FOUND", "FORBIDDEN"}
      BY <3>2, <3>3 DEF Answers
    <3> HIDE DEF s
    <3> QED  BY <3>4, VerdictIsCode
  <2> HIDE DEF s, row, verdict
  <2>6. /\ \/ phase'[c] = "query" /\ verdict = "ok"
           \/ phase'[c] = "done" /\ answer'[c] # "none"
        /\ \A d \in Call \ {c} : phase'[d] = phase[d] /\ answer'[d] = answer[d]
    <3>1. CASE verdict = "ok"
      BY <2>1, <2>2, <3>1
    <3>2. CASE verdict # "ok"
      BY <1>t, <2>1, <2>2, <2>5, <3>2 DEF Answer, Types
    <3> QED  BY <3>1, <3>2
  <2>7. Knows(c)'
    BY <2>1, <2>4, <2>6 DEF Knows, Live, Prepared
  <2> QED  BY <1>s, <2>1, <2>6, <2>7, OneCallKnows
<1>3. ASSUME NEW c \in Call, QueryFails(c) PROVE EditInv'
  <2>1. /\ sent[c] = 0 /\ UNCHANGED <<rows, standing, request, seen, sent, meddled>>
        /\ phase'[c] = "done" /\ answer'[c] = "INTERNAL_ERROR"
        /\ \A d \in Call \ {c} : phase'[d] = phase[d] /\ answer'[d] = answer[d]
    BY <1>3, <1>t DEF QueryFails, Answer, Types, Progress
  <2>2. Knows(c)'
    BY <2>1 DEF Knows, Live, Prepared
  <2> QED  BY <1>s, <2>1, <2>2, OneCallKnows
<1>4. ASSUME NEW c \in Call, Prepare(c) PROVE EditInv'
  <2> DEFINE refusal == Refusal(request[c], seen[c])
  <2>1. /\ phase[c] = "query" /\ sent[c] = 0
        /\ UNCHANGED <<rows, standing, request, seen, sent, meddled>>
        /\ Len(seen[c]) = Len(Steps(request[c], seen[c]))
        /\ \/ phase'[c] = "emit" /\ refusal = "none"
           \/ phase'[c] = "done" /\ refusal # "none" /\ answer'[c] = refusal
        /\ \A d \in Call \ {c} : phase'[d] = phase[d] /\ answer'[d] = answer[d]
    BY <1>4, <1>t DEF Prepare, Answer, Types, Progress
  <2>2. Known(request[c], seen[c])
    BY <1>t, <2>1 DEF Knows, Live
  <2>3. Knows(c)'
    BY <2>1, <2>2 DEF Knows, Live, Prepared
  <2> QED  BY <1>s, <2>1, <2>3, OneCallKnows
<1>5. ASSUME NEW c \in Call, Emit(c) PROVE EditInv'
  <2>1. /\ phase[c] = "emit" /\ phase'[c] = "wait"
        /\ UNCHANGED <<rows, standing, request, seen, answer, meddled>>
        /\ \A d \in Call \ {c} : phase'[d] = phase[d] /\ sent'[d] = sent[d]
    BY <1>5, <1>t DEF Emit, Types
  <2>2. Knows(c)'
    BY <1>t, <2>1, KeepsKnowing DEF Live, Prepared
  <2> QED  BY <1>s, <2>1, <2>2, OneCallKnows
<1>6. ASSUME NEW c \in Call, NEW result, result # "none", phase[c] = "wait", Proceed(c, result),
             UNCHANGED <<standing, meddled>>
      PROVE  EditInv'
  <2>1. /\ UNCHANGED <<rows, request, seen, sent>>
        /\ phase'[c] = "emit" \/ (phase'[c] = "done" /\ answer'[c] \in {result, "ok"})
        /\ \A d \in Call \ {c} : phase'[d] = phase[d] /\ answer'[d] = answer[d]
    BY <1>6, <1>t DEF Proceed, Answer, Types
  <2>2. Knows(c)'
    BY <1>6, <1>t, <2>1, KeepsKnowing DEF Live, Prepared
  <2> QED  BY <1>s, <1>6, <2>1, <2>2, OneCallKnows
<1>7. ASSUME NEW c \in Call, Acked(c) PROVE EditInv'
  <2>1. phase[c] = "wait" /\ UNCHANGED <<standing, meddled>>
    BY <1>7 DEF Acked, Proceed
  <2>2. PICK result \in reply[<<c, sent[c]>>] : Proceed(c, result)
    BY <1>7 DEF Acked
  <2>3. result # "none"
    BY <1>s, <2>1, Awaited
  <2> QED  BY <1>6, <2>1, <2>2, <2>3
<1>8. ASSUME NEW c \in Call, EmitFails(c) PROVE EditInv'
  <2> DEFINE w == <<c, sent[c]>>
  <2>1. phase[c] = "wait" /\ Delivery!Fail({w}) /\ Proceed(c, outcome'[w]) /\ UNCHANGED <<standing, meddled>>
    BY <1>8 DEF EmitFails, Proceed
  <2>2. outcome'[w] # "none"
    <3>1. w \in Sending
      BY <1>s, <2>1, Awaited
    <3>2. outcome'[w] \in {"connErr", "expired"}
      BY <1>s, <2>1, <3>1, EndsOfWrites
    <3> QED  BY <3>2
  <2> QED  BY <1>6, <2>1, <2>2
<1>9. ASSUME UNCHANGED <<request, callVars>> PROVE \A d \in Call : Knows(d)'
  BY <1>9, <1>t DEF Knows, Live, Prepared, callVars
<1>10. ASSUME NEW c \in Call, NEW n \in 1..MaxWrites, Handle(c, n) PROVE EditInv'
  <2>1. n <= sent[c] /\ UNCHANGED <<standing, meddled, request, callVars>>
    BY <1>10 DEF Handle
  <2>2. RowsTyped'
    <3>1. CASE Accepts(rows, Payload(c, n)) /\ rows' = Store(rows, Payload(c, n))
      <4>1. GoodWrite(Payload(c, n)) /\ TypedWrite(Payload(c, n))
        BY <2>1, SentWrite
      <4> QED  BY <1>o, <3>1, <4>1, StoreTyped
    <3>2. CASE rows' = rows
      BY <1>o, <3>2 DEF RowsTyped
    <3> QED  BY <1>10, <3>1, <3>2 DEF Handle
  <2> QED  BY <1>s, <1>o, <1>9, <2>1, <2>2 DEF EditInv
<1>11. CASE Meddle
  <2>1. UNCHANGED <<request, callVars>>
    BY <1>11 DEF Meddle
  <2>2. meddled' \in 0..MaxMeddling
    <3>1. meddled < MaxMeddling /\ meddled' = meddled + 1
      BY <1>11 DEF Meddle
    <3> QED  BY <1>o, <3>1, BoundsAssumption
  <2>3. standing' \in Standing
    BY <1>11, <1>o DEF Meddle, Standing, MemberRole
  <2>4. RowsTyped'
    <3>1. CASE \E ids : rows' = Without(rows, ids)
      BY <1>o, <3>1, FewerTyped
    <3>2. CASE rows' = rows
      BY <1>o, <3>2 DEF RowsTyped
    <3> QED  BY <1>11, <3>1, <3>2 DEF Meddle
  <2> QED  BY <1>s, <1>9, <2>1, <2>2, <2>3, <2>4 DEF EditInv
<1>12. CASE UNCHANGED vars
  <2>1. UNCHANGED <<rows, standing, meddled, request, callVars>>
    BY <1>12 DEF vars
  <2> QED  BY <1>s, <1>o, <1>9, <2>1 DEF EditInv, RowsTyped
<1> QED
  BY <1>1, <1>2, <1>3, <1>4, <1>5, <1>7, <1>8, <1>10, <1>11, <1>12 DEF Next, CallStep

\* Every variable keeps its type, and a call has answered exactly if it is done, with
\* one result for each write it sent and awaited, whatever the requests and rows.
THEOREM EditTypes == Spec => []TypeOK
<1>1. EditInv => TypeOK
  <2> SUFFICES ASSUME EditInv PROVE TypeOK
    OBVIOUS
  <2>1. Types /\ RowsInv /\ RowsTyped /\ \A c \in Call : Progress(c) /\ Knows(c)
    BY DEF EditInv, SendInv, AnswerInv
  <2>2. \A id \in DOMAIN rows : rows[id].kind \in Kind /\ rows[id].board \in Board
    BY <2>1 DEF RowsInv, SoundRow, Board
  <2>3. ASSUME NEW c \in Call
        PROVE  /\ results[c] \in Seq(Result)
               /\ Len(results[c]) = sent[c] - (IF phase[c] = "wait" THEN 1 ELSE 0)
               /\ (phase[c] = "done") = (answer[c] # "none")
    <3>1. Progress(c) /\ Knows(c) /\ results[c] \in Seq(Result) /\ sent[c] \in 0..MaxWrites
      BY <2>1 DEF Types
    <3>2. phase[c] = "done" <=> answer[c] # "none"
      BY <3>1 DEF Progress, Knows
    <3>3. Len(results[c]) = sent[c] - (IF phase[c] = "wait" THEN 1 ELSE 0)
      BY <3>1, BoundsAssumption DEF Progress
    <3> QED  BY <3>1, <3>2, <3>3
  <2> QED  BY <2>1, <2>2, <2>3 DEF TypeOK, Types, RowsTyped, EditInv
<1> QED  BY <1>1, EditInit, EditStep, PTL DEF Spec
-----------------------------------------------------------------------------
(* What a stored write changes.                                             *)

LEMMA StoredWrite ==
  ASSUME EditInv, [Next]_vars, NEW c \in Call, NEW n \in 1..MaxWrites, Stores(c, n)
  PROVE  /\ n <= sent[c] /\ UNCHANGED <<request, seen>>
         /\ Accepts(rows, Payload(c, n)) /\ rows' = Store(rows, Payload(c, n))
<1> DEFINE v == <<c, n>>
<1>1. handled'[v] # handled[v] /\ rows' # rows
  BY DEF Stores
<1>2. Delivery!TypeOK /\ v \in Sending
  BY DEF EditInv, SendInv, AnswerInv, Types, Sending
<1>3. ~UNCHANGED handled
  BY <1>1
<1>4. ASSUME NEW d \in Call, CallStep(d) PROVE FALSE
  <2>1. rows' = rows
    BY <1>4 DEF CallStep, Validate, Query, QueryFails, Prepare, Emit, Acked, EmitFails, Proceed
  <2> QED  BY <1>1, <2>1
<1>5. ASSUME NEW d \in Call, NEW m \in 1..MaxWrites, Handle(d, m)
      PROVE  /\ n <= sent[c] /\ UNCHANGED <<request, seen>>
             /\ Accepts(rows, Payload(c, n)) /\ rows' = Store(rows, Payload(c, n))
  <2>1. handled' = [handled EXCEPT ![<<d, m>>] = @ + 1]
    BY <1>5 DEF Handle, Delivery!Handle
  <2>2. <<d, m>> = v
    BY <1>1, <1>2, <2>1 DEF Delivery!TypeOK
  <2>3. d = c /\ m = n
    BY <2>2
  <2> QED  BY <1>1, <1>5, <2>3 DEF Handle, callVars
<1>6. ~Meddle
  BY <1>3 DEF Meddle, writeVars
<1>7. ~UNCHANGED vars
  BY <1>1 DEF vars
<1> QED  BY <1>4, <1>5, <1>6, <1>7 DEF Next

\* An update changes fields only, of its own row and of those it moves on its board.
LEMMA UpdateStored ==
  ASSUME RowsTyped, NEW w, w.event = "update", w.id \in DOMAIN rows, rows' = Store(rows, w)
  PROVE  /\ DOMAIN rows' = DOMAIN rows
         /\ \A k \in DOMAIN rows : rows'[k].kind = rows[k].kind /\ rows'[k].board = rows[k].board
         /\ rows'[w.id].f = Overwrite(rows[w.id].f, w.f)
         /\ \A k \in DOMAIN rows \ {w.id} :
              IF k \in DOMAIN w.moves /\ rows[k].board = w.board
              THEN rows'[k].f = Overwrite(rows[k].f, w.moves[k])
              ELSE rows'[k] = rows[k]
<1>1. rows' = [k \in DOMAIN rows |->
                 IF k = w.id THEN [rows[k] EXCEPT !.f = Overwrite(@, w.f)]
                 ELSE IF k \in DOMAIN w.moves /\ rows[k].board = w.board
                      THEN [rows[k] EXCEPT !.f = Overwrite(@, w.moves[k])]
                 ELSE rows[k]]
  BY DEF Store
<1>2. ASSUME NEW k \in DOMAIN rows, NEW g
      PROVE  LET new == [rows[k] EXCEPT !.f = Overwrite(@, g)]
             IN  /\ new.kind = rows[k].kind /\ new.board = rows[k].board
                 /\ new.f = Overwrite(rows[k].f, g)
  <2>1. DOMAIN rows[k] = {"kind", "board", "f"}
    BY DEF RowsTyped, TypedRow
  <2> QED  BY <2>1
<1>3. DOMAIN rows' = DOMAIN rows
  BY <1>1
<1>4. ASSUME NEW k \in DOMAIN rows
      PROVE  rows'[k].kind = rows[k].kind /\ rows'[k].board = rows[k].board
  BY <1>1, <1>2
<1>5. rows'[w.id].f = Overwrite(rows[w.id].f, w.f)
  <2>1. rows'[w.id] = [rows[w.id] EXCEPT !.f = Overwrite(@, w.f)]
    BY <1>1
  <2> QED  BY <1>2, <2>1
<1>6. ASSUME NEW k \in DOMAIN rows \ {w.id}
      PROVE  IF k \in DOMAIN w.moves /\ rows[k].board = w.board
             THEN rows'[k].f = Overwrite(rows[k].f, w.moves[k])
             ELSE rows'[k] = rows[k]
  BY <1>1, <1>2
<1> QED  BY <1>3, <1>4, <1>5, <1>6

\* What a field holds after it was overwritten.
LEMMA Overwritten ==
  ASSUME NEW f, NEW g, NEW k \in DOMAIN f
  PROVE  /\ DOMAIN Overwrite(f, g) = DOMAIN f
         /\ k \in DOMAIN g => Overwrite(f, g)[k] = g[k]
         /\ k \notin DOMAIN g => Overwrite(f, g)[k] = f[k]
BY DEF Overwrite

\* What a stored update changes of one field.
LEMMA FieldStored ==
  ASSUME RowsTyped, NEW w, w.event = "update", w.id \in DOMAIN rows, rows' = Store(rows, w),
         NEW k \in DOMAIN rows[w.id].f
  PROVE  /\ k \in DOMAIN w.f => rows'[w.id].f[k] = w.f[k]
         /\ k \notin DOMAIN w.f => rows'[w.id].f[k] = rows[w.id].f[k]
BY UpdateStored, Overwritten

-----------------------------------------------------------------------------
(* An update changes what is named.                                         *)

\* The props that an end has got, and those it has not.
LEMMA EndGiven ==
  ASSUME NEW props, DOMAIN props = PropKeys, NEW r, NEW end \in End
  PROVE  LET new == IF NamesEnd(r, end) THEN applyCanvasConnectorEnd(props, r, end) ELSE props
         IN  /\ DOMAIN new = PropKeys
             /\ \A k \in PropKeys \ {IdKey(end), PointKey(end)} : new[k] = props[k]
             /\ ~NamesEnd(r, end) => new = props
             /\ NamesEnd(r, end) /\ checkCanvasConnectorEnd(r, end) =>
                  \A k \in {IdKey(end), PointKey(end)} : Given(r, k) # None => new[k] = Given(r, k)
<1>1. CASE end = "source"
  BY <1>1 DEF applyCanvasConnectorEnd, NamesEnd, checkCanvasConnectorEnd, IdKey, PointKey,
              PropKeys, EndKeys, End
<1>2. CASE end = "target"
  BY <1>2 DEF applyCanvasConnectorEnd, NamesEnd, checkCanvasConnectorEnd, IdKey, PointKey,
              PropKeys, EndKeys, End
<1> QED  BY <1>1, <1>2 DEF End

\* The merged props hold what the request gives, and are the stored ones wherever it
\* names neither the key nor the other form of its end.
LEMMA MergedKeys ==
  ASSUME NEW r, \A k \in DOMAIN r.set : r.set[k] # None,
         NEW stored, \A end \in End : NamesEnd(r, end) => checkCanvasConnectorEnd(r, end),
         NEW k \in PropKeys
  PROVE  /\ k \in DOMAIN r.set => mergeCanvasConnectorProps(stored, r)[k] = r.set[k]
         /\ k \notin Touched(r) => mergeCanvasConnectorProps(stored, r)[k] = stored[k]
<1> DEFINE p == [i \in PropKeys |->
                   IF i \in {"routing", "curvature"} /\ Given(r, i) # None THEN Given(r, i)
                   ELSE stored[i]]
           q == IF NamesEnd(r, "source") THEN applyCanvasConnectorEnd(p, r, "source") ELSE p
           f == IF NamesEnd(r, "target") THEN applyCanvasConnectorEnd(q, r, "target") ELSE q
<1>1. DOMAIN p = PropKeys /\ "source" \in End /\ "target" \in End
  BY DEF End
<1>2. mergeCanvasConnectorProps(stored, r) = f
  BY DEF mergeCanvasConnectorProps
<1>3. \A i \in DOMAIN r.set : Given(r, i) = r.set[i] /\ Given(r, i) # None
  BY DEF Given
<1>4. \A i : i \notin DOMAIN r.set => Given(r, i) = None
  BY DEF Given
<1>5. /\ "routing" \in PropKeys => p["routing"] = IF Given(r, "routing") # None THEN Given(r, "routing")
                                                 ELSE stored["routing"]
      /\ "curvature" \in PropKeys => p["curvature"] = IF Given(r, "curvature") # None
                                                      THEN Given(r, "curvature")
                                                      ELSE stored["curvature"]
      /\ \A i \in PropKeys \ {"routing", "curvature"} : p[i] = stored[i]
  OBVIOUS
<1> HIDE DEF p
<1>6. /\ DOMAIN q = PropKeys
      /\ \A i \in PropKeys \ {IdKey("source"), PointKey("source")} : q[i] = p[i]
      /\ ~NamesEnd(r, "source") => q = p
      /\ NamesEnd(r, "source") =>
           \A i \in {IdKey("source"), PointKey("source")} : Given(r, i) # None => q[i] = Given(r, i)
  BY <1>1, EndGiven
<1> HIDE DEF q
<1>7. /\ \A i \in PropKeys \ {IdKey("target"), PointKey("target")} : f[i] = q[i]
      /\ ~NamesEnd(r, "target") => f = q
      /\ NamesEnd(r, "target") =>
           \A i \in {IdKey("target"), PointKey("target")} : Given(r, i) # None => f[i] = Given(r, i)
  BY <1>1, <1>6, EndGiven
<1> HIDE DEF f
<1>8. CASE k \in {"routing", "curvature"}
  <2>1. f[k] = p[k]
    BY <1>6, <1>7, <1>8 DEF IdKey, PointKey
  <2>2. DOMAIN r.set \subseteq Touched(r)
    BY DEF Touched
  <2> QED  BY <1>2, <1>3, <1>4, <1>5, <1>8, <2>1, <2>2
<1>9. ASSUME NEW end \in End, k \in {IdKey(end), PointKey(end)}
      PROVE  /\ NamesEnd(r, end) /\ Given(r, k) # None => f[k] = Given(r, k)
             /\ ~NamesEnd(r, end) => f[k] = stored[k]
  <2>1. CASE end = "source"
    BY <1>5, <1>6, <1>7, <1>9, <2>1 DEF IdKey, PointKey, PropKeys, EndKeys, End
  <2>2. CASE end = "target"
    BY <1>5, <1>6, <1>7, <1>9, <2>2 DEF IdKey, PointKey, PropKeys, EndKeys, End
  <2> QED  BY <2>1, <2>2 DEF End
<1>10. CASE k \in EndKeys
  <2>1. PICK end \in End : k \in {IdKey(end), PointKey(end)}
    BY <1>10 DEF EndKeys
  <2>2. Given(r, k) # None => NamesEnd(r, end)
    BY <2>1 DEF NamesEnd
  <2>3. k \notin Touched(r) => ~NamesEnd(r, end)
    <3> SUFFICES ASSUME k \notin Touched(r), NamesEnd(r, end) PROVE FALSE
      OBVIOUS
    <3>1. {IdKey(end), PointKey(end)} \cap DOMAIN r.set # {}
      BY <1>4 DEF NamesEnd
    <3> QED  BY <2>1, <3>1 DEF Touched
  <2> QED  BY <1>2, <1>3, <1>9, <2>1, <2>2, <2>3
<1> QED  BY <1>8, <1>10 DEF PropKeys

LEMMA ChangesNamed ==
  ASSUME EditInv, [Next]_vars, NEW c \in Call, NEW n \in 1..MaxWrites
  PROVE  NamedChange(c, n)
<1> DEFINE r == request[c]
           w == Payload(c, n)
<1> SUFFICES ASSUME Stores(c, n), r.tool \in {"update_table", "update_canvas_connector"},
                    AsRead(c, w), NEW k \in DOMAIN rows[w.id].f
             PROVE  /\ k \in DOMAIN w.f \cap DOMAIN r.set => rows'[w.id].f[k] = r.set[k]
                    /\ k \notin Touched(r) => \/ rows'[w.id].f[k] = rows[w.id].f[k]
                                              \/ k \in {"x", "y"} /\ rows[w.id].f[k] = None
  BY DEF NamedChange
<1>1. n <= sent[c] /\ Accepts(rows, w) /\ rows' = Store(rows, w)
  BY StoredWrite
<1>2. /\ n \in 1..Len(Writes(r, seen[c])) /\ Prepared(c) /\ Accepted(r)
      /\ w = Writes(r, seen[c])[n]
  BY <1>1, SentWrite DEF List, Payload
<1>3. DOMAIN r.set \subseteq Touched(r)
  BY DEF Touched
<1>r. \A i \in DOMAIN w.f : rows[w.id].f[i] = seen[c][3].f[i]
  BY DEF AsRead
<1>4. CASE r.tool = "update_table"
  <2> DEFINE t == seen[c][3]
  <2>1. w = TableUpdate(r, t) \/ w = TableMove(r, t)
    BY <1>2, <1>4, TableWrite
  <2>2. w.event = "update"
    BY <2>1 DEF TableUpdate, TableMove, Write
  <2>3. w.id \in DOMAIN rows
    BY <1>1, <2>2 DEF Accepts
  <2>4. /\ k \in DOMAIN w.f => rows'[w.id].f[k] = w.f[k]
        /\ k \notin DOMAIN w.f => rows'[w.id].f[k] = rows[w.id].f[k]
    BY <1>1, <2>2, <2>3, FieldStored DEF EditInv
  <2>5. CASE w = TableUpdate(r, t)
    <3>1. /\ DOMAIN w.f \subseteq DOMAIN r.set
          /\ \A i \in DOMAIN w.f : w.f[i] = r.set[i]
      BY <2>5 DEF TableUpdate, Write, Named, Restrict
    <3> HIDE DEF w, r
    <3> QED  BY <1>3, <2>4, <3>1
  <2>6. CASE w = TableMove(r, t)
    <3>1. /\ DOMAIN w.f = {"x", "y"}
          /\ w.f["x"] = FinalAxis(r, t, "x") /\ w.f["y"] = FinalAxis(r, t, "y")
      BY <2>6 DEF TableMove, Write
    <3>2. \A i \in DOMAIN w.f : w.f[i] = FinalAxis(r, t, i)
      BY <3>1
    <3>3. k \in DOMAIN w.f => rows[w.id].f[k] = t.f[k]
      BY <1>r
    <3> HIDE DEF w, r, t
    <3> QED  BY <1>3, <2>4, <3>1, <3>2, <3>3 DEF FinalAxis
  <2> QED  BY <2>1, <2>5, <2>6
<1>5. CASE r.tool = "update_canvas_connector"
  <2> DEFINE stored == seen[c][3].f
             merged == mergeCanvasConnectorProps(stored, r)
  <2>1. w.event = "update" /\ w.f = merged
    <3>1. Writes(r, seen[c]) = updateConnectorWrites(r, seen[c][3])
      BY <1>5 DEF Writes
    <3>2. n = 1
      BY <1>2, <3>1 DEF updateConnectorWrites
    <3> QED  BY <1>2, <3>1, <3>2 DEF updateConnectorWrites, Write
  <2>2. w.id \in DOMAIN rows
    BY <1>1, <2>1 DEF Accepts
  <2>3. /\ k \in DOMAIN w.f => rows'[w.id].f[k] = w.f[k]
        /\ k \notin DOMAIN w.f => rows'[w.id].f[k] = rows[w.id].f[k]
    BY <1>1, <2>1, <2>2, FieldStored DEF EditInv
  <2>4. \A end \in End : NamesEnd(r, end) => checkCanvasConnectorEnd(r, end)
    <3>1. Refusal(r, seen[c]) = "none"
      BY <1>2 DEF EditInv, Knows
    <3> QED  BY <1>5, <3>1 DEF Refusal, updateConnectorRefusal
  <2>5. \A i \in DOMAIN r.set : r.set[i] # None
    BY <1>2, <1>5 DEF Accepted
  <2>6. DOMAIN w.f = PropKeys
    BY <2>1, MergedDomain
  <2>7. k \in PropKeys => /\ k \in DOMAIN r.set => w.f[k] = r.set[k]
                          /\ k \notin Touched(r) => w.f[k] = stored[k]
    BY <2>1, <2>4, <2>5, MergedKeys
  <2>8. k \in DOMAIN w.f => rows[w.id].f[k] = stored[k]
    BY <1>r
  <2> HIDE DEF w, r, stored
  <2> QED  BY <2>3, <2>6, <2>7, <2>8
<1> QED  BY <1>4, <1>5

\* Although the writes of update_table and update_canvas_connector hold values nobody
\* named, they change only what was named, wherever the row is still as it was read.
THEOREM UpdatesChangeWhatIsNamed == Spec => ChangesOnlyWhatIsNamed
<1>1. EditInv /\ [Next]_vars => [\A c \in Call, n \in 1..MaxWrites : NamedChange(c, n)]_vars
  BY ChangesNamed
<1> QED  BY <1>1, EditInit, EditStep, PTL DEF Spec, ChangesOnlyWhatIsNamed
-----------------------------------------------------------------------------
(* A move of an area is rigid.                                              *)

\* What a query that found its row has read.
LEMMA RowFound ==
  ASSUME NEW by \in {"table", "area"}, NEW id, NEW x, x = RowOf(rows, May(by, id)), x # None
  PROVE  id \in DOMAIN rows /\ rows[id].kind = by /\ x = rows[id]
BY DEF May, Step, RowOf, FindDiagramTableByID, FindAreaByID, Find

\* A placed table is found, where it is asked for.
LEMMA TableFound ==
  ASSUME NEW id \in DOMAIN rows, rows[id].kind = "table"
  PROVE  RowOf(rows, May("table", id)) = rows[id]
BY DEF May, Step, RowOf, FindDiagramTableByID, Find

LEMMA MustReads ==
  ASSUME NEW id, NEW state
  PROVE  RowOf(state, Must("area", id)) = RowOf(state, May("area", id))
BY DEF Must, May, Step, RowOf

\* The place of a typed row that has one.
LEMMA PlaceOf ==
  ASSUME NEW t, t.kind = "table", TypedRow(t), Placed(t)
  PROVE  {"x", "y"} \subseteq DOMAIN t.f /\ t.f.x \in Int /\ t.f.y \in Int
BY DEF TypedRow, Placed

LEMMA MoveIsRigid ==
  ASSUME EditInv, [Next]_vars, NEW c \in Call
  PROVE  MovesAsOne(c)
<1> DEFINE r == request[c]
           read == seen[c]
           members == read[1].f.members
           w == Payload(c, 1)
<1> SUFFICES ASSUME Stores(c, 1), r.tool = "move_area",
                    \A n \in DOMAIN read \ {2, 3} : RowOf(rows, Steps(r, read)[n]) = read[n],
                    NEW id \in PlacedTables(rows)
             PROVE  IF id \in Joined(r.id)
                    THEN Displaced(id, rows'[r.id].f.x - rows[r.id].f.x,
                                       rows'[r.id].f.y - rows[r.id].f.y)
                    ELSE Displaced(id, 0, 0)
  BY DEF MovesAsOne
<1>0. 1 \in 1..MaxWrites
  BY BoundsAssumption
<1>1. 1 <= sent[c] /\ Accepts(rows, w) /\ rows' = Store(rows, w)
  BY <1>0, StoredWrite
<1>2. Prepared(c) /\ Live(c) /\ Accepted(r) /\ IsList(read)
  BY <1>0, <1>1, SentWrite
<1>3. Known(r, read) /\ Len(read) = Len(Steps(r, read)) /\ RowsTyped
  BY <1>2 DEF EditInv, Knows
<1>4. /\ members \in Seq(Id) /\ read # <<>> /\ Len(read) = 3 + Len(members)
      /\ \A n \in 1..Len(members) : Steps(r, read)[3 + n] = May("table", members[n])
      /\ MovesArea(r, read, w)
  <2>1. /\ members \in Seq(Id) /\ read # <<>> /\ Len(read) = 3 + Len(members)
        /\ \A n \in 1..Len(members) : Steps(r, read)[3 + n] = May("table", members[n])
        /\ \E u : Writes(r, read) = <<u>> /\ MovesArea(r, read, u)
    BY <1>2, <1>3, MoveWrite
  <2>2. MovesArea(r, read, w)
    BY <2>1 DEF Payload
  <2> QED  BY <2>1, <2>2
<1> DEFINE l == Len(members)
<1>5. l \in Nat /\ DOMAIN members = 1..l /\ DOMAIN read = 1..3 + l /\ Len(read) = 3 + l
  <2>1. l \in Nat /\ DOMAIN members = 1..l
    <3> HIDE DEF members
    <3> QED  BY <1>4
  <2>2. DOMAIN read = 1..Len(read)
    BY <1>2 DEF IsList
  <2> QED  BY <1>4, <2>1, <2>2
<1> HIDE DEF l
<1>6. r.id \in DOMAIN rows /\ rows[r.id].kind = "area" /\ read[1] = rows[r.id]
  <2>1. Steps(r, read)[1] = Must("area", r.id)
    <3> HIDE DEF members
    <3>1. members = read[1].f.members
      BY DEF members
    <3> QED  BY <1>4, <3>1, MoveSteps
  <2>2. 1 \in DOMAIN read \ {2, 3} /\ 1 \in 1..Len(read)
    BY <1>5
  <2>3. RowOf(rows, Must("area", r.id)) = read[1]
    BY <2>1, <2>2
  <2>4. read[1] # None
    <3>1. Granted(Must("area", r.id), read[1])
      BY <1>3, <2>1, <2>2 DEF Known
    <3> QED  BY <3>1 DEF Granted, Must, Step, RowQuery
  <2> QED  BY <2>3, <2>4, MustReads, RowFound
<1>7. ASSUME NEW n \in 1..l
      PROVE  RowOf(rows, May("table", members[n])) = read[3 + n]
  <2>1. 3 + n \in DOMAIN read \ {2, 3}
    BY <1>5
  <2> QED  BY <1>4, <2>1 DEF l
<1> DEFINE a == rows[r.id]
           dx == r.set.x - a.f.x
           dy == r.set.y - a.f.y
<1>8. /\ w.event = "update" /\ w.id = r.id /\ w.board = a.board
      /\ w.f = [x |-> r.set.x, y |-> r.set.y]
      /\ MovesBy(read, dx, dy, w.moves)
  BY <1>4, <1>6 DEF MovesArea
<1>9. rows'[r.id].f.x - a.f.x = dx /\ rows'[r.id].f.y - a.f.y = dy
  <2>1. TypedRow(a)
    BY <1>3, <1>6 DEF RowsTyped
  <2>2. "x" \in DOMAIN a.f /\ "y" \in DOMAIN a.f
    BY <1>6, <2>1 DEF TypedRow, Measure
  <2>3. DOMAIN w.f = {"x", "y"} /\ w.f.x = r.set.x /\ w.f.y = r.set.y
    BY <1>8
  <2>4. rows'[r.id].f = Overwrite(a.f, w.f)
    BY <1>1, <1>3, <1>6, <1>8, UpdateStored
  <2>5. rows'[r.id].f.x = r.set.x /\ rows'[r.id].f.y = r.set.y
    BY <2>2, <2>3, <2>4, Overwritten
  <2> QED  BY <2>5
<1>10. /\ id \in DOMAIN rows /\ rows[id].kind = "table" /\ Placed(rows[id]) /\ id # r.id
       /\ rows[id] # None
       /\ {"x", "y"} \subseteq DOMAIN rows[id].f /\ rows[id].f.x \in Int /\ rows[id].f.y \in Int
  <2>1. /\ id \in DOMAIN rows /\ rows[id].kind = "table" /\ Placed(rows[id])
        /\ rows[id] # None
    BY DEF PlacedTables, FindDiagramTableByID, Find
  <2>2. TypedRow(rows[id])
    BY <1>3, <2>1 DEF RowsTyped
  <2> QED  BY <1>6, <2>1, <2>2, PlaceOf
<1>11. IF id \in DOMAIN w.moves /\ rows[id].board = a.board
       THEN rows'[id].f = Overwrite(rows[id].f, w.moves[id])
       ELSE rows'[id] = rows[id]
  <2>1. id \in DOMAIN rows \ {w.id} /\ w.id \in DOMAIN rows
    BY <1>6, <1>8, <1>10
  <2>2. \A k \in DOMAIN rows \ {w.id} :
          IF k \in DOMAIN w.moves /\ rows[k].board = w.board
          THEN rows'[k].f = Overwrite(rows[k].f, w.moves[k])
          ELSE rows'[k] = rows[k]
    BY <1>1, <1>3, <1>8, <2>1, UpdateStored
  <2> QED  BY <1>8, <2>1, <2>2
<1>12. /\ \A k \in DOMAIN w.moves : \E n \in 1..l :
            /\ members[n] = k /\ Moving(read[3 + n])
            /\ w.moves[k] = [x |-> read[3 + n].f.x + dx, y |-> read[3 + n].f.y + dy]
       /\ \A n \in 1..l : Moving(read[3 + n]) => members[n] \in DOMAIN w.moves
  BY <1>8 DEF MovesBy, l
<1>13. a.f.members = members
  BY <1>6
<1> HIDE DEF dx, dy, a, members, read, w
<1>14. CASE id \in Joined(r.id)
  <2>1. rows[id].board = a.board /\ \E n \in 1..l : members[n] = id
    BY <1>5, <1>13, <1>14 DEF Joined, a
  <2>2. PICK n \in 1..l : members[n] = id
    BY <2>1
  <2>3. read[3 + n] = rows[id]
    BY <1>7, <1>10, <2>2, TableFound
  <2>4. id \in DOMAIN w.moves
    BY <1>10, <1>12, <2>2, <2>3 DEF Moving
  <2>5. PICK m \in 1..l : /\ members[m] = id
                          /\ w.moves[id] = [x |-> read[3 + m].f.x + dx, y |-> read[3 + m].f.y + dy]
    BY <1>12, <2>4
  <2>6. read[3 + m] = rows[id]
    BY <1>7, <1>10, <2>5, TableFound
  <2>7. rows'[id].f = Overwrite(rows[id].f, w.moves[id])
    BY <1>11, <2>1, <2>4
  <2>8. /\ DOMAIN w.moves[id] = {"x", "y"}
        /\ w.moves[id].x = rows[id].f.x + dx /\ w.moves[id].y = rows[id].f.y + dy
    BY <2>5, <2>6
  <2>9. rows'[id].f.x = rows[id].f.x + dx /\ rows'[id].f.y = rows[id].f.y + dy
    BY <1>10, <2>7, <2>8, Overwritten
  <2>10. Displaced(id, dx, dy)
    BY <2>9 DEF Displaced
  <2>11. rows'[r.id].f.x - rows[r.id].f.x = dx /\ rows'[r.id].f.y - rows[r.id].f.y = dy
    BY <1>9 DEF a
  <2> QED  BY <1>14, <2>10, <2>11
<1>15. CASE id \notin Joined(r.id)
  <2>1. id \notin DOMAIN w.moves \/ rows[id].board # a.board
    <3> SUFFICES ASSUME id \in DOMAIN w.moves PROVE rows[id].board # a.board
      OBVIOUS
    <3>1. \E n \in 1..l : members[n] = id
      BY <1>12
    <3> QED  BY <1>5, <1>13, <1>15, <3>1 DEF Joined, a
  <2>2. rows'[id] = rows[id]
    BY <1>11, <2>1
  <2>3. rows'[id].f.x = rows[id].f.x + 0 /\ rows'[id].f.y = rows[id].f.y + 0
    BY <1>10, <2>2
  <2> QED  BY <1>15, <2>3 DEF Displaced
<1> QED  BY <1>14, <1>15

\* A move_area that finds the board as it read it moves the area's placed members by the
\* area's own displacement and no other table.
THEOREM MovesAreRigid == Spec => MovesRigidly
<1>1. EditInv /\ [Next]_vars => [\A c \in Call : MovesAsOne(c)]_vars
  BY MoveIsRigid
<1> QED  BY <1>1, EditInit, EditStep, PTL DEF Spec, MovesRigidly
-----------------------------------------------------------------------------
(* What calls have found, and the lists that are stored.                    *)

\* A row that a query found keeps its kind and its board as long as it is there, unless
\* its id may still be drawn.
Stays(s, x) ==
  s.by \in RowQuery /\ s.id \in DOMAIN rows \ Spare /\ x # None =>
    x.kind = rows[s.id].kind /\ x.board = rows[s.id].board

\* Lists of ids that are not drawn by the server.
OldIds == Seq(Id \ Spare)

StoredLists == \A id \in DOMAIN rows : rows[id].kind = "area" => rows[id].f.members \in OldIds

ListRead(r, read) == r.tool \in MembershipTool /\ read # <<>> => read[1].f.members \in OldIds

Recalls(r, read) ==
  ListRead(r, read) /\ \A n \in 1..Len(read) : Stays(Steps(r, read)[n], read[n])

Remembers(c) == Live(c) => Recalls(request[c], seen[c])

NamesInv ==
  /\ EditInv /\ StoredLists
  /\ \A c \in Call : NamesNoSpare(request[c]) /\ Remembers(c)

LEMMA NamesInit == Init => NamesInv
<1> SUFFICES ASSUME Init PROVE NamesInv
  OBVIOUS
<1>1. StoredLists /\ \A c \in Call : NamesNoSpare(request[c])
  BY NamesAssumption DEF Init, StoredLists, OldIds
<1>2. ASSUME NEW c \in Call PROVE Remembers(c)
  BY <1>2 DEF Init, Remembers, Live
<1> QED  BY <1>1, <1>2, EditInit DEF NamesInv

LEMMA QueryStays ==
  ASSUME NEW s
  PROVE  Stays(s, RowOf(rows, s))
BY DEF Stays, RowQuery, RowOf, Find, FindDiagramTableByID, FindColumnByID, FindAreaByID,
       FindRelationshipByID

\* A query adds a row that is there, and the first of a call that changes a list a
\* stored list.
LEMMA QueryRemembers ==
  ASSUME StoredLists, NEW r, Accepted(r), NEW read, IsList(read),
         NEW s, s = Steps(r, read)[Len(read) + 1],
         NEW next, next = Append(read, RowOf(rows, s)), Known(r, next), Recalls(r, read)
  PROVE  Recalls(r, next)
<1> DEFINE k == Len(read)
           x == RowOf(rows, s)
<1>1. next # <<>> => AreaRead(r, next)
  BY DEF AreaRead, Known, TypedRow, TypedFields
<1>2. AreaRead(r, next)
  BY <1>1 DEF AreaRead
<1>3. next = Append(read, x)
  OBVIOUS
<1> HIDE DEF x
<1>4. SameSteps(r, read, next)
  BY <1>2, <1>3, StepsExtend
<1>5. /\ k \in Nat /\ Len(next) = k + 1 /\ next[k + 1] = x /\ Steps(r, next)[k + 1] = s
      /\ \A n \in 1..k : next[n] = read[n] /\ Steps(r, next)[n] = Steps(r, read)[n]
      /\ \A n \in 1..k : Stays(Steps(r, read)[n], read[n])
      /\ read = <<>> <=> k = 0
  BY <1>3, <1>4, AppendToList DEF SameSteps, Recalls
<1> HIDE DEF k
<1>6. ASSUME NEW n \in 1..Len(next) PROVE Stays(Steps(r, next)[n], next[n])
  <2>1. CASE n = k + 1
    <3>1. Stays(s, x)
      BY QueryStays DEF x
    <3> QED  BY <1>5, <2>1, <3>1
  <2>2. CASE n # k + 1
    <3>1. n \in 1..k
      BY <1>5, <2>2
    <3> QED  BY <1>5, <3>1
  <2> QED  BY <2>1, <2>2
<1>7. ASSUME r.tool \in MembershipTool, next # <<>> PROVE next[1].f.members \in OldIds
  <2>1. CASE k = 0
    <3>1. s = Must("area", r.id)
      BY <1>5, <1>7, <2>1, AreaEditSteps DEF k, AreaEdit, MembershipTool
    <3>2. next[1] = RowOf(rows, Must("area", r.id))
      BY <1>5, <2>1, <3>1 DEF x
    <3>3. next[1] # None
      <4>1. 1 \in 1..Len(next) /\ Steps(r, next)[1] = Must("area", r.id)
        BY <1>5, <2>1, <3>1
      <4>2. Granted(Must("area", r.id), next[1])
        BY <4>1 DEF Known
      <4> QED  BY <4>2 DEF Granted, Must, Step, RowQuery
    <3>4. r.id \in DOMAIN rows /\ rows[r.id].kind = "area" /\ next[1] = rows[r.id]
      BY <3>2, <3>3, MustReads, RowFound
    <3> QED  BY <3>4 DEF StoredLists
  <2>2. CASE k # 0
    <3>1. read # <<>> /\ next[1] = read[1]
      BY <1>5, <2>2
    <3> QED  BY <1>7, <3>1 DEF ListRead, Recalls
  <2> QED  BY <2>1, <2>2
<1> QED  BY <1>6, <1>7 DEF ListRead, Recalls

\* A write of a list names no id that may still be drawn, and no list moves with a row.
ListedWrite(w) ==
  /\ w.event = "create" /\ w.kind = "area" => w.f.members \in OldIds
  /\ w.event = "update" =>
       /\ "members" \in DOMAIN w.f => w.f.members \in OldIds
       /\ \A k \in DOMAIN w.moves : "members" \notin DOMAIN w.moves[k]

\* A write that has no list.
PlainWrite(w) ==
  \/ w.event = "delete"
  \/ w.event = "create" /\ w.kind # "area"
  \/ /\ w.event = "update" /\ "members" \notin DOMAIN w.f
     /\ \A k \in DOMAIN w.moves : "members" \notin DOMAIN w.moves[k]

\* Only the two tools that change a list update one, and create_area alone creates one.
LEMMA PlainWrites ==
  ASSUME NEW r, Accepted(r), r.tool \notin MembershipTool \cup {"create_area"},
         NEW read, IsList(read), Known(r, read), Len(read) = Len(Steps(r, read))
  PROVE  \A n \in 1..Len(Writes(r, read)) : PlainWrite(Writes(r, read)[n])
<1>1. ASSUME NEW w, Writes(r, read) = <<w>>, PlainWrite(w)
      PROVE  \A n \in 1..Len(Writes(r, read)) : PlainWrite(Writes(r, read)[n])
  BY <1>1
<1>s. r.tool \notin MembershipTool \cup {"bulk_update_positions", "reorder_columns"} =>
        DOMAIN r.set \subseteq FieldsOf(r.tool)
  BY DEF Accepted
<1>2. CASE r.tool \in {"create_table", "create_column", "create_relationship",
                       "create_canvas_element", "create_canvas_connector"}
  <2>1. PICK w : Writes(r, read) = <<w>> /\ w.event = "create" /\ w.kind # "area"
    BY <1>2 DEF Writes, createTableWrites, createColumnWrites,
                createRelationshipWrites, createElementWrites, createConnectorWrites, Write
  <2> QED  BY <1>1, <2>1 DEF PlainWrite
<1>3. CASE r.tool \in {"delete_table", "delete_column", "delete_relationship", "delete_canvas_element"}
  <2>1. PICK w : Writes(r, read) = <<w>> /\ w.event = "delete"
    BY <1>3 DEF Writes, deleteTableWrites, deleteColumnWrites, deleteRelationshipWrites,
                deleteElementWrites, Write
  <2> QED  BY <1>1, <2>1 DEF PlainWrite
<1>4. CASE r.tool \in {"update_column", "update_relationship"}
  <2>1. PICK w : Writes(r, read) = <<w>> /\ w.event = "update" /\ w.f = r.set /\ w.moves = NoMoves
    BY <1>4 DEF Writes, updateColumnWrites, updateRelationshipWrites, Write
  <2>2. "members" \notin DOMAIN r.set
    BY <1>4, <1>s DEF FieldsOf, MembershipTool
  <2> QED  BY <1>1, <2>1, <2>2 DEF PlainWrite, NoMoves
<1>5. CASE r.tool = "update_canvas_element"
  <2>1. PICK w : Writes(r, read) = <<w>> /\ w.event = "update" /\ w.moves = NoMoves
                 /\ w.f = Named(r, ElementFields)
    BY <1>5 DEF Writes, updateElementWrites, Write
  <2>2. "members" \notin DOMAIN w.f
    BY <2>1 DEF Named, Restrict, ElementFields
  <2> QED  BY <1>1, <2>1, <2>2 DEF PlainWrite, NoMoves
<1>6. CASE r.tool = "update_canvas_connector"
  <2>1. PICK w : Writes(r, read) = <<w>> /\ w.event = "update" /\ w.moves = NoMoves
                 /\ w.f = mergeCanvasConnectorProps(read[3].f, r)
    BY <1>6 DEF Writes, updateConnectorWrites, Write
  <2>2. DOMAIN w.f = PropKeys
    BY <2>1, MergedDomain
  <2>3. "members" \notin DOMAIN w.f
    BY <2>2 DEF PropKeys, EndKeys, End, IdKey, PointKey
  <2> QED  BY <1>1, <2>1, <2>3 DEF PlainWrite, NoMoves
<1>7. CASE r.tool = "update_table"
  <2> DEFINE u == TableUpdate(r, read[3])
             m == TableMove(r, read[3])
  <2>1. \A n \in 1..Len(Writes(r, read)) : Writes(r, read)[n] = u \/ Writes(r, read)[n] = m
    BY <1>7, TableWrite
  <2>2. PlainWrite(u)
    BY DEF PlainWrite, TableUpdate, Write, Named, Restrict, NoMoves
  <2>3. PlainWrite(m)
    BY DEF PlainWrite, TableMove, Write, NoMoves
  <2> HIDE DEF u, m
  <2> QED  BY <2>1, <2>2, <2>3
<1>8. CASE r.tool = "move_area"
  <2>1. PICK w : Writes(r, read) = <<w>> /\ MovesArea(r, read, w)
    BY <1>8, MoveWrite
  <2>2. w.event = "update" /\ w.f = [x |-> r.set.x, y |-> r.set.y]
    BY <2>1 DEF MovesArea
  <2>3. \A k \in DOMAIN w.moves : \E x, y : w.moves[k] = [x |-> x, y |-> y]
    BY <2>1 DEF MovesArea, MovesBy
  <2>4. "members" \notin DOMAIN w.f
    BY <2>2
  <2>5. ASSUME NEW k \in DOMAIN w.moves PROVE "members" \notin DOMAIN w.moves[k]
    <3>1. PICK x, y : w.moves[k] = [x |-> x, y |-> y]
      BY <2>3
    <3>2. "members" \notin DOMAIN [x |-> x, y |-> y]
      OBVIOUS
    <3> QED  BY <3>1, <3>2
  <2>6. PlainWrite(w)
    BY <2>2, <2>4, <2>5 DEF PlainWrite
  <2> QED  BY <1>1, <2>1, <2>6
<1>9. CASE r.tool = "reorder_columns"
  <2> DEFINE base == Write("update", read[3].board, r.id, "table", NoMoves)
             moves == [k \in {r.ordered[n] : n \in DOMAIN r.ordered} |->
                         [order |-> Max({n \in DOMAIN r.ordered : r.ordered[n] = k})]]
             w == [base EXCEPT !.moves = moves]
  <2>1. Writes(r, read) = <<w>>
    BY <1>9 DEF Writes, reorderColumnsWrites
  <2>2. \A k \in DOMAIN moves : "members" \notin DOMAIN moves[k]
    OBVIOUS
  <2> HIDE DEF moves
  <2>3. w.f = NoMoves /\ w.moves = moves /\ w.event = "update"
    BY DEF Write
  <2> HIDE DEF w
  <2>4. PlainWrite(w)
    BY <2>2, <2>3 DEF PlainWrite, NoMoves
  <2> QED  BY <1>1, <2>1, <2>4
<1>10. CASE r.tool = "bulk_update_positions"
  <2>1. Writes(r, read) = positionsWrites(r)
    BY <1>10 DEF Writes
  <2>2. DOMAIN r.positions = 1..Len(r.positions) /\ Len(r.positions) \in Nat
    BY <1>10 DEF Accepted
  <2>3. /\ Len(positionsWrites(r)) = Len(r.positions)
        /\ \A n \in 1..Len(r.positions) :
             /\ positionsWrites(r)[n].event = "update"
             /\ positionsWrites(r)[n].f = [x |-> r.positions[n].x, y |-> r.positions[n].y]
             /\ positionsWrites(r)[n].moves = NoMoves
    BY <2>2 DEF positionsWrites, Write
  <2>4. ASSUME NEW n \in 1..Len(r.positions) PROVE PlainWrite(positionsWrites(r)[n])
    <3>1. "members" \notin DOMAIN [x |-> r.positions[n].x, y |-> r.positions[n].y]
      OBVIOUS
    <3>2. "members" \notin DOMAIN positionsWrites(r)[n].f
      BY <2>3, <3>1
    <3> QED  BY <2>3, <3>2 DEF PlainWrite, NoMoves
  <2> QED  BY <2>1, <2>3, <2>4
<1> QED
  BY <1>2, <1>3, <1>4, <1>5, <1>6, <1>7, <1>8, <1>9, <1>10 DEF Accepted, Tool, MembershipTool

\* What any call sends keeps the stored lists free of ids that may still be drawn.
LEMMA ListedWrites ==
  ASSUME NEW r, Accepted(r), NamesNoSpare(r), NEW read, IsList(read), Known(r, read),
         ListRead(r, read), Len(read) = Len(Steps(r, read))
  PROVE  \A n \in 1..Len(Writes(r, read)) : ListedWrite(Writes(r, read)[n])
<1>1. ASSUME NEW w, Writes(r, read) = <<w>>, ListedWrite(w)
      PROVE  \A n \in 1..Len(Writes(r, read)) : ListedWrite(Writes(r, read)[n])
  BY <1>1
<1>2. CASE r.tool \in MembershipTool
  <2>1. PICK placed, w : Writes(r, read) = <<w>> /\ ChangesList(r, read[1], placed, w)
    BY <1>2, MembershipWrite
  <2>2. read[1].f.members \in Seq(Id \ Spare) /\ r.member \in Id \ Spare
    <3>1. read # <<>>
      BY <1>2, MembersRead
    <3> QED  BY <1>2, <3>1 DEF ListRead, OldIds, NamesNoSpare, Accepted
  <2>3. NextMembers(r, read[1]) \in Seq(Id \ Spare)
    BY <2>2, NextMembersAre DEF NextMembers
  <2>4. ListedWrite(w)
    BY <2>1, <2>3 DEF ListedWrite, ChangesList, NoMoves, OldIds
  <2> QED  BY <1>1, <2>1, <2>4
<1>3. CASE r.tool = "create_area"
  <2> DEFINE w == Write("create", r.board, None, "area", r.set)
  <2>1. Writes(r, read) = <<w>>
    BY <1>3 DEF Writes, createAreaWrites
  <2>2. ListedWrite(w)
    BY <1>3 DEF ListedWrite, Write, NamesNoSpare, OldIds
  <2> QED  BY <1>1, <2>1, <2>2
<1>4. CASE r.tool \notin MembershipTool \cup {"create_area"}
  BY <1>4, PlainWrites DEF PlainWrite, ListedWrite
<1> QED  BY <1>2, <1>3, <1>4

LEMMA StoreLists ==
  ASSUME RowsTyped, StoredLists, NEW w, w.event \in {"create", "update", "delete"}, ListedWrite(w),
         Accepts(rows, w), rows' = Store(rows, w)
  PROVE  StoredLists'
<1>1. CASE w.event = "create"
  <2> DEFINE new == CHOOSE k \in Spare \ DOMAIN rows : TRUE
             row == [kind |-> w.kind, board |-> w.board, f |-> w.f]
  <2>1. rows' = [k \in DOMAIN rows \cup {new} |-> IF k = new THEN row ELSE rows[k]]
    BY <1>1 DEF Store
  <2>2. row.kind = "area" => row.f.members \in OldIds
    BY <1>1 DEF ListedWrite
  <2> HIDE DEF new, row
  <2> QED  BY <2>1, <2>2 DEF StoredLists, OldIds
<1>2. CASE w.event = "update"
  <2>1. ASSUME NEW id \in DOMAIN rows, rows[id].kind = "area"
        PROVE  rows'[id].f.members \in OldIds
    <3>1. rows[id].f.members \in OldIds /\ "members" \in DOMAIN rows[id].f
      BY <2>1 DEF StoredLists, RowsTyped, TypedRow
    <3>2. w.id \in DOMAIN rows
      BY <1>2 DEF Accepts
    <3>3. \/ \E g : /\ "members" \in DOMAIN g => g.members \in OldIds
                    /\ rows'[id].f = Overwrite(rows[id].f, g)
          \/ rows'[id] = rows[id]
      <4>1. CASE id = w.id
        BY <1>2, <3>2, <4>1, UpdateStored DEF ListedWrite
      <4>2. CASE id # w.id
        <5>1. IF id \in DOMAIN w.moves /\ rows[id].board = w.board
              THEN rows'[id].f = Overwrite(rows[id].f, w.moves[id])
              ELSE rows'[id] = rows[id]
          BY <1>2, <3>2, <4>2, UpdateStored
        <5> QED  BY <1>2, <5>1 DEF ListedWrite
      <4> QED  BY <4>1, <4>2
    <3> QED  BY <3>1, <3>3, Overwritten
  <2>2. /\ DOMAIN rows' = DOMAIN rows
        /\ \A k \in DOMAIN rows : rows'[k].kind = rows[k].kind
    BY <1>2, UpdateStored DEF Accepts
  <2> QED  BY <2>1, <2>2 DEF StoredLists, OldIds
<1>3. CASE w.event = "delete"
  BY <1>3 DEF Store, Without, StoredLists, OldIds
<1> QED  BY <1>1, <1>2, <1>3

\* What a step does to the rows.
RowsFate ==
  \/ rows' = rows
  \/ \E ids : rows' = Without(rows, ids)
  \/ \E c \in Call, n \in 1..MaxWrites :
       n <= sent[c] /\ Accepts(rows, Payload(c, n)) /\ rows' = Store(rows, Payload(c, n))

LEMMA FateOfRows == Next => RowsFate
<1>1. ASSUME NEW c \in Call, CallStep(c) PROVE rows' = rows
  BY <1>1 DEF CallStep, Validate, Query, QueryFails, Prepare, Emit, Acked, EmitFails, Proceed
<1>2. ASSUME NEW c \in Call, NEW n \in 1..MaxWrites, Handle(c, n) PROVE RowsFate
  BY <1>2 DEF Handle, RowsFate
<1>3. Meddle => RowsFate
  BY DEF Meddle, RowsFate
<1> QED  BY <1>1, <1>2, <1>3 DEF Next, RowsFate

\* What a step does to what a call knows: nothing, or its queries begin, or one is made.
ReadsFate(c) ==
  \/ seen'[c] = seen[c] /\ (Live(c)' => Live(c))
  \/ seen'[c] = <<>>
  \/ /\ Live(c) /\ rows' = rows
     /\ LET s == Steps(request[c], seen[c])[Len(seen[c]) + 1]
        IN  seen'[c] = Append(seen[c], RowOf(rows, s))

LEMMA FateOfReads ==
  ASSUME EditInv, [Next]_vars, NEW c \in Call
  PROVE  request' = request /\ ReadsFate(c)
<1>t. Types /\ \A d \in Call : Progress(d) /\ ReadsFit(d)
  BY DEF EditInv, SendInv, AnswerInv
<1>1. ASSUME UNCHANGED <<request, callVars>> PROVE request' = request /\ ReadsFate(c)
  BY <1>1 DEF callVars, ReadsFate, Live
<1>2. ASSUME NEW d \in Call, CallStep(d) PROVE request' = request /\ ReadsFate(c)
  <2>1. CASE Validate(d)
    <3>1. seen[d] = <<>> /\ seen' = seen /\ request' = request
      BY <1>t, <2>1 DEF Validate, ReadsFit
    <3>2. c # d => phase'[c] = phase[c] /\ sent'[c] = sent[c]
      BY <1>t, <2>1 DEF Validate, Answer, Types
    <3> QED  BY <3>1, <3>2 DEF ReadsFate, Live
  <2>2. CASE Query(d)
    <3>1. CASE c = d
      BY <1>t, <2>2, <3>1 DEF Query, Types, ReadsFate, Live
    <3>2. CASE c # d
      <4>1. /\ request' = request /\ seen'[c] = seen[c] /\ sent'[c] = sent[c]
            /\ phase'[c] = phase[c]
        BY <1>t, <2>2, <3>2 DEF Query, Answer, Types
      <4> QED  BY <4>1 DEF ReadsFate, Live
    <3> QED  BY <3>1, <3>2
  <2>3. CASE QueryFails(d) \/ Prepare(d) \/ Emit(d) \/ Acked(d) \/ EmitFails(d)
    <3>1. seen' = seen /\ request' = request /\ Live(d)
      BY <2>3 DEF QueryFails, Prepare, Emit, Acked, EmitFails, Proceed, Live
    <3>2. c # d => phase'[c] = phase[c] /\ sent'[c] = sent[c]
      BY <1>t, <2>3 DEF QueryFails, Prepare, Emit, Acked, EmitFails, Proceed, Answer, Types
    <3> QED  BY <3>1, <3>2 DEF ReadsFate, Live
  <2> QED  BY <1>2, <2>1, <2>2, <2>3 DEF CallStep
<1>3. ASSUME NEW d \in Call, NEW n \in 1..MaxWrites, Handle(d, n) PROVE UNCHANGED <<request, callVars>>
  BY <1>3 DEF Handle
<1>4. Meddle => UNCHANGED <<request, callVars>>
  BY DEF Meddle
<1>5. UNCHANGED vars => UNCHANGED <<request, callVars>>
  BY DEF vars
<1> QED  BY <1>1, <1>2, <1>3, <1>4, <1>5 DEF Next

\* A row whose id is not drawn keeps its kind and its board, or is deleted for good.
KeepsKinds ==
  \A id \in DOMAIN rows' \ Spare :
    id \in DOMAIN rows /\ rows'[id].kind = rows[id].kind /\ rows'[id].board = rows[id].board

LEMMA FewerKeepKinds ==
  ASSUME NEW ids, rows' = Without(rows, ids)
  PROVE  KeepsKinds
BY DEF Without, KeepsKinds

LEMMA StoreKeepsKinds ==
  ASSUME RowsTyped, NEW w, w.event \in {"create", "update", "delete"}, Accepts(rows, w),
         rows' = Store(rows, w)
  PROVE  KeepsKinds
<1>1. CASE w.event = "create"
  <2> DEFINE new == CHOOSE k \in Spare \ DOMAIN rows : TRUE
             row == [kind |-> w.kind, board |-> w.board, f |-> w.f]
  <2>1. rows' = [k \in DOMAIN rows \cup {new} |-> IF k = new THEN row ELSE rows[k]]
    BY <1>1 DEF Store
  <2>2. new \in Spare
    BY <1>1 DEF Accepts
  <2> HIDE DEF new, row
  <2> QED  BY <2>1, <2>2 DEF KeepsKinds
<1>2. CASE w.event = "update"
  <2>1. /\ DOMAIN rows' = DOMAIN rows
        /\ \A k \in DOMAIN rows : rows'[k].kind = rows[k].kind /\ rows'[k].board = rows[k].board
    BY <1>2, UpdateStored DEF Accepts
  <2> QED  BY <2>1 DEF KeepsKinds
<1>3. CASE w.event = "delete"
  <2>1. rows' = Without(rows, Dependants(rows, w.id))
    BY <1>3 DEF Store
  <2> QED  BY <2>1, FewerKeepKinds
<1> QED  BY <1>1, <1>2, <1>3

\* What a call that has sent write n knows of it, and of the ids in it.
LEMMA SentList ==
  ASSUME NamesInv, NEW c \in Call, NEW n \in 1..MaxWrites, n <= sent[c]
  PROVE  /\ Payload(c, n).event \in {"create", "update", "delete"}
         /\ ListedWrite(Payload(c, n))
         /\ request[c].tool \notin MembershipTool \cup {"create_area"} => PlainWrite(Payload(c, n))
         /\ request[c].tool = "create_area" => Payload(c, n).event = "create"
         /\ request[c].tool \in MembershipTool => n = 1
<1>1. EditInv /\ NamesNoSpare(request[c]) /\ Remembers(c) /\ Knows(c)
  BY DEF NamesInv, EditInv
<1>2. /\ Prepared(c) /\ Live(c) /\ n \in 1..Len(Writes(request[c], seen[c]))
      /\ GoodWrite(Payload(c, n)) /\ Accepted(request[c]) /\ IsList(seen[c])
  BY <1>1, SentWrite DEF List
<1>3. /\ Known(request[c], seen[c]) /\ Len(seen[c]) = Len(Steps(request[c], seen[c]))
      /\ ListRead(request[c], seen[c])
  BY <1>1, <1>2 DEF Knows, Remembers, Recalls
<1>4. Payload(c, n) = Writes(request[c], seen[c])[n]
  BY DEF Payload
<1>5. ListedWrite(Payload(c, n))
  BY <1>1, <1>2, <1>3, <1>4, ListedWrites
<1>6. request[c].tool \notin MembershipTool \cup {"create_area"} => PlainWrite(Payload(c, n))
  BY <1>2, <1>3, <1>4, PlainWrites
<1>7. request[c].tool \in MembershipTool \cup {"create_area"} => n = 1
  <2>1. request[c].tool \in MembershipTool \cup {"create_area"}
          => Len(Writes(request[c], seen[c])) = 1
    BY OneWrite DEF MembershipTool, OneWriteTool, Tool
  <2> DEFINE k == Len(Writes(request[c], seen[c]))
  <2>2. n \in 1..k /\ (request[c].tool \in MembershipTool \cup {"create_area"} => k = 1)
    BY <1>2, <2>1
  <2> HIDE DEF k
  <2> QED  BY <2>2
<1>8. request[c].tool = "create_area" => Payload(c, n).event = "create"
  BY <1>4, <1>7 DEF Writes, createAreaWrites, Write
<1> QED  BY <1>2, <1>5, <1>6, <1>7, <1>8 DEF GoodWrite

LEMMA NamesStep == NamesInv /\ [Next]_vars => NamesInv'
<1> SUFFICES ASSUME NamesInv, [Next]_vars PROVE NamesInv'
  OBVIOUS
<1>1. EditInv /\ EditInv' /\ RowsTyped /\ StoredLists
  BY EditStep DEF NamesInv, EditInv
<1>2. RowsFate
  <2>1. UNCHANGED vars => RowsFate
    BY DEF vars, RowsFate
  <2> QED  BY <2>1, FateOfRows
<1>3. StoredLists' /\ KeepsKinds
  <2>1. CASE rows' = rows
    BY <1>1, <2>1 DEF StoredLists, KeepsKinds, OldIds
  <2>2. ASSUME NEW ids, rows' = Without(rows, ids) PROVE StoredLists' /\ KeepsKinds
    <3>1. StoredLists'
      BY <1>1, <2>2 DEF StoredLists, Without, OldIds
    <3> QED  BY <2>2, <3>1, FewerKeepKinds
  <2>3. ASSUME NEW c \in Call, NEW n \in 1..MaxWrites, n <= sent[c],
               Accepts(rows, Payload(c, n)), rows' = Store(rows, Payload(c, n))
        PROVE  StoredLists' /\ KeepsKinds
    <3>1. Payload(c, n).event \in {"create", "update", "delete"} /\ ListedWrite(Payload(c, n))
      BY <2>3, SentList
    <3>2. StoredLists'
      BY <1>1, <2>3, <3>1, StoreLists
    <3>3. KeepsKinds
      BY <1>1, <2>3, <3>1, StoreKeepsKinds
    <3> QED  BY <3>2, <3>3
  <2> QED  BY <1>2, <2>1, <2>2, <2>3 DEF RowsFate
<1>4. ASSUME NEW c \in Call PROVE NamesNoSpare(request[c])' /\ Remembers(c)'
  <2>1. request' = request /\ ReadsFate(c)
    BY <1>1, FateOfReads
  <2>2. NamesNoSpare(request[c]) /\ Remembers(c)
    BY DEF NamesInv
  <2> DEFINE r == request[c]
             read == seen[c]
  <2>3. CASE seen'[c] = seen[c] /\ (Live(c)' => Live(c))
    <3>1. ASSUME Live(c)'
          PROVE  /\ ListRead(r, read)
                 /\ \A n \in 1..Len(read) : Stays(Steps(r, read)[n], read[n])'
      <4>1. /\ ListRead(r, read)
            /\ \A n \in 1..Len(read) : Stays(Steps(r, read)[n], read[n])
        BY <2>2, <2>3, <3>1 DEF Remembers, Recalls
      <4> QED  BY <1>3, <4>1, <2>1, <2>3 DEF Stays, KeepsKinds
    <3>2. Remembers(c)'
      BY <2>1, <2>3, <3>1 DEF Remembers, Recalls, Stays
    <3> QED  BY <2>1, <2>2, <3>2
  <2>4. CASE seen'[c] = <<>>
    <3>1. 1..Len(<<>>) = {}
      OBVIOUS
    <3>2. Remembers(c)'
      BY <2>4, <3>1 DEF Remembers, Recalls, ListRead
    <3> QED  BY <2>1, <2>2, <3>2
  <2>5. CASE /\ Live(c) /\ rows' = rows
             /\ LET s == Steps(r, read)[Len(read) + 1]
                IN  seen'[c] = Append(read, RowOf(rows, s))
    <3> DEFINE s == Steps(r, read)[Len(read) + 1]
               next == Append(read, RowOf(rows, s))
    <3>1. Accepted(r) /\ IsList(read)
      BY <1>1 DEF EditInv, SendInv, AnswerInv, Types, ReadsFit
    <3>2. Recalls(r, read)
      BY <2>2, <2>5 DEF Remembers
    <3>3. s = Steps(r, read)[Len(read) + 1] /\ next = Append(read, RowOf(rows, s)) /\ seen'[c] = next
      BY <2>5
    <3> HIDE DEF s, next, read
    <3>4. ASSUME Live(c)' PROVE Known(r, next)
      <4>1. Knows(c)'
        BY <1>1 DEF EditInv
      <4> QED  BY <2>1, <3>3, <3>4, <4>1 DEF Knows
    <3>5. ASSUME Live(c)' PROVE Recalls(r, next)
      <4>1. Known(r, next)
        BY <3>4, <3>5
      <4> QED  BY <1>1, <3>1, <3>2, <3>3, <4>1, QueryRemembers
    <3>6. Remembers(c)'
      BY <2>1, <2>5, <3>3, <3>5 DEF Remembers, Recalls, Stays
    <3> QED  BY <2>1, <2>2, <3>6
  <2> QED  BY <2>1, <2>3, <2>4, <2>5 DEF ReadsFate
<1> QED  BY <1>1, <1>3, <1>4 DEF NamesInv
-----------------------------------------------------------------------------
(* An area encloses its members.                                            *)

\* What add_table_to_area and remove_table_from_area write, of what they have read.
WritesList(c) ==
  LET r == request[c]
      read == seen[c]
      next == NextMembers(r, read[1])
      rest == SubSeq(read, 5, Len(read))
  IN  /\ read # <<>> /\ read[1].kind = "area" /\ read[1] # None
      /\ next \in Seq(Id) /\ Len(read) = 4 + Len(next) /\ Len(Steps(r, read)) = 4 + Len(next)
      /\ DOMAIN rest = 1..Len(next)
      /\ \A n \in 1..Len(next) : /\ rest[n] = read[4 + n] /\ MemberRead(rest[n])
                                 /\ Steps(r, read)[4 + n] = May("member", next[n])
      /\ Steps(r, read)[1] = Must("area", r.id)
      /\ Steps(r, read)[4] = OnBoard("table", r.member, read[1].board, "FORBIDDEN")
      /\ ChangesList(r, read[1], areaBoundsMembers(rest), Payload(c, 1))

LEMMA ListWritten ==
  ASSUME EditInv, NEW c \in Call, 1 <= sent[c], request[c].tool \in MembershipTool
  PROVE  WritesList(c)
<1> DEFINE r == request[c]
           read == seen[c]
           next == NextMembers(r, read[1])
           rest == SubSeq(read, 5, Len(read))
           placed == areaBoundsMembers(rest)
<1>1. Prepared(c) /\ Live(c) /\ Accepted(r) /\ IsList(read)
  BY BoundsAssumption, SentWrite
<1>2. Known(r, read) /\ Len(read) = Len(Steps(r, read))
  BY <1>1 DEF EditInv, Knows
<1>3. /\ next \in Seq(Id) /\ read # <<>>
      /\ Len(read) = 4 + Len(next) /\ DOMAIN rest = 1..Len(next)
      /\ \A n \in 1..Len(next) : /\ rest[n] = read[4 + n] /\ MemberRead(rest[n])
                                 /\ Steps(r, read)[4 + n] = May("member", next[n])
      /\ Steps(r, read)[4] = OnBoard("table", r.member, read[1].board, "FORBIDDEN")
  BY <1>1, <1>2, MembersRead
<1>4. Steps(r, read)[1] = Must("area", r.id)
  BY <1>3, MembershipSteps
<1>5. read[1].kind = "area"
  BY <1>2, <1>3 DEF Known, AreaEdit, MembershipTool
<1>6. read[1] # None
  <2>1. Len(next) \in Nat
    BY <1>3
  <2>2. 1 \in 1..Len(read)
    <3> HIDE DEF next
    <3> QED  BY <1>3, <2>1
  <2>3. Granted(Must("area", r.id), read[1])
    BY <1>2, <1>4, <2>2 DEF Known
  <2> QED  BY <2>3 DEF Granted, Must, Step, RowQuery
<1>7. ChangesList(r, read[1], placed, Payload(c, 1))
  <2>1. PICK w : Writes(r, read) = <<w>> /\ ChangesList(r, read[1], placed, w)
    BY <1>1, <1>2, MembershipWrite
  <2>2. Payload(c, 1) = w
    BY <2>1 DEF Payload
  <2> QED  BY <2>1, <2>2
<1> QED  BY <1>2, <1>3, <1>4, <1>5, <1>6, <1>7 DEF WritesList

\* The row that it writes to is the area that was read, on the board where it was read.
LEMMA StillArea ==
  ASSUME NamesInv, NEW c \in Call, 1 <= sent[c], request[c].tool \in MembershipTool,
         request[c].id \in DOMAIN rows
  PROVE  rows[request[c].id].kind = "area"
<1> DEFINE r == request[c]
           read == seen[c]
<1>1. WritesList(c)
  BY ListWritten DEF NamesInv
<1>2. Recalls(r, read)
  <2>1. Live(c)
    BY BoundsAssumption, SentWrite DEF NamesInv
  <2> QED  BY <2>1 DEF NamesInv, Remembers
<1>3. 1 \in 1..Len(read)
  <2> DEFINE next == NextMembers(r, read[1])
  <2>1. next \in Seq(Id) /\ Len(read) = 4 + Len(next)
    BY <1>1 DEF WritesList
  <2>2. Len(next) \in Nat
    BY <2>1
  <2> HIDE DEF next
  <2> QED  BY <2>1, <2>2
<1>4. Stays(Must("area", r.id), read[1])
  BY <1>1, <1>2, <1>3 DEF Recalls, WritesList
<1>5. r.id \notin Spare
  BY DEF NamesInv, NamesNoSpare
<1>6. Must("area", r.id).by = "area" /\ Must("area", r.id).id = r.id
  BY DEF Must, Step
<1>7. read[1].kind = "area" /\ read[1] # None
  BY <1>1 DEF WritesList
<1> QED  BY <1>4, <1>5, <1>6, <1>7 DEF Stays, RowQuery

\* An update of the fields of an area changes no count of columns and no other row.
LEMMA AreaStored ==
  ASSUME RowsTyped, NEW w, w.event = "update", w.id \in DOMAIN rows, rows' = Store(rows, w),
         w.moves = NoMoves, rows[w.id].kind = "area"
  PROVE  /\ DOMAIN rows' = DOMAIN rows /\ rows'[w.id].kind = "area"
         /\ rows'[w.id].board = rows[w.id].board
         /\ \A k \in DOMAIN rows \ {w.id} : rows'[k] = rows[k]
         /\ \A k : CountColumnsByTableID(rows', k) = CountColumnsByTableID(rows, k)
<1>1. /\ DOMAIN rows' = DOMAIN rows
      /\ \A k \in DOMAIN rows : rows'[k].kind = rows[k].kind /\ rows'[k].board = rows[k].board
  BY UpdateStored
<1>2. ASSUME NEW k \in DOMAIN rows \ {w.id} PROVE rows'[k] = rows[k]
  <2>1. IF k \in DOMAIN w.moves /\ rows[k].board = w.board
        THEN rows'[k].f = Overwrite(rows[k].f, w.moves[k])
        ELSE rows'[k] = rows[k]
    BY UpdateStored
  <2> QED  BY <2>1 DEF NoMoves
<1>3. ASSUME NEW t
      PROVE  CountColumnsByTableID(rows', t) = CountColumnsByTableID(rows, t)
  <2>1. {k \in DOMAIN rows' : rows'[k].kind = "column" /\ rows'[k].f.table = t}
          = {k \in DOMAIN rows : rows[k].kind = "column" /\ rows[k].f.table = t}
    BY <1>1, <1>2
  <2> QED  BY <2>1 DEF CountColumnsByTableID
<1> QED  BY <1>1, <1>2, <1>3

\* A member that was read as it is stored lies inside the box.
LEMMA InTheBox ==
  ASSUME NEW placed, IsFiniteSet(placed), \A m \in placed : Measured(m),
         NEW m \in placed, NEW b, b = ComputeAreaBounds(placed), NEW width,
         width = IF m.width = None THEN 250 ELSE m.width
  PROVE  /\ b.x + 24 <= m.x /\ m.x + width + 24 <= b.x + b.width
         /\ b.y + 32 + 24 <= m.y
         /\ m.y + 40 + 28 * (m.columns + 1) + 12 + 24 <= b.y + b.height
<1>1. /\ b.x \in Int /\ b.y \in Int /\ b.width \in Int /\ b.height \in Int
      /\ b.x + 24 <= m.x /\ m.x + Width(m) + 24 <= b.x + b.width
      /\ b.y + 56 <= m.y
      /\ m.y + 40 + 28 * (m.columns + 1) + 12 + 24 <= b.y + b.height
  BY BoundsEnclose
<1>2. Measured(m)
  OBVIOUS
<1>3. width \in Int /\ width <= Width(m) /\ Width(m) \in Int
  BY <1>2 DEF Measured, Width
<1>4. m.x \in Int
  BY <1>2 DEF Measured
<1>5. m.x + width + 24 <= b.x + b.width
  BY <1>1, <1>3, <1>4
<1>6. b.y + 32 + 24 <= m.y
  BY <1>1, <1>2 DEF Measured
<1> QED  BY <1>1, <1>5, <1>6

LEMMA MembersEnclosed ==
  ASSUME NamesInv, [Next]_vars, NEW c \in Call
  PROVE  Encloses(c)
<1> DEFINE r == request[c]
           read == seen[c]
           next == NextMembers(r, read[1])
           rest == SubSeq(read, 5, Len(read))
           placed == areaBoundsMembers(rest)
           w == Payload(c, 1)
           b == ComputeAreaBounds(placed)
           members == rows'[r.id].f.members
<1> SUFFICES ASSUME Stores(c, 1), r.tool \in MembershipTool, MembersAsRead(c),
                    NEW n \in DOMAIN members, members[n] \in PlacedTables(rows')
             PROVE  Inside(rows', members[n], r.id)
  BY DEF Encloses
<1>0. 1 \in 1..MaxWrites /\ EditInv /\ RowsTyped
  BY BoundsAssumption DEF NamesInv, EditInv
<1>1. 1 <= sent[c] /\ Accepts(rows, w) /\ rows' = Store(rows, w)
  BY <1>0, StoredWrite
<1>2. WritesList(c)
  BY <1>0, <1>1, ListWritten
<1>3. /\ next \in Seq(Id) /\ Len(read) = 4 + Len(next) /\ Len(Steps(r, read)) = 4 + Len(next)
      /\ DOMAIN rest = 1..Len(next)
      /\ \A k \in 1..Len(next) : /\ rest[k] = read[4 + k] /\ MemberRead(rest[k])
                                 /\ Steps(r, read)[4 + k] = May("member", next[k])
      /\ ChangesList(r, read[1], placed, w)
  BY <1>2 DEF WritesList
<1> HIDE DEF w, next, rest, placed, b
<1>4. /\ w.event = "update" /\ w.id = r.id /\ w.moves = NoMoves
      /\ "members" \in DOMAIN w.f /\ w.f.members = next
      /\ placed # {} => \A k \in Measure : k \in DOMAIN w.f /\ w.f[k] = b[k]
  BY <1>3 DEF ChangesList, next, b
<1>5. r.id \in DOMAIN rows /\ rows[r.id].kind = "area"
  <2>1. r.id \in DOMAIN rows
    BY <1>1, <1>4 DEF Accepts
  <2> QED  BY <1>1, <2>1, StillArea
<1>6. /\ DOMAIN rows' = DOMAIN rows /\ rows'[r.id].kind = "area"
      /\ \A k \in DOMAIN rows \ {r.id} : rows'[k] = rows[k]
      /\ \A k : CountColumnsByTableID(rows', k) = CountColumnsByTableID(rows, k)
  BY <1>0, <1>1, <1>4, <1>5, AreaStored
<1>7. Measure \cup {"members"} \subseteq DOMAIN rows[r.id].f
  BY <1>0, <1>5 DEF RowsTyped, TypedRow
<1>8. members = next
  BY <1>0, <1>1, <1>4, <1>5, <1>7, FieldStored
<1>9. placed # {} => \A k \in Measure : rows'[r.id].f[k] = b[k]
  BY <1>0, <1>1, <1>4, <1>5, <1>7, FieldStored
<1> DEFINE t == members[n]
<1>10. /\ t \in DOMAIN rows /\ t = next[n] /\ n \in 1..Len(next) /\ rows'[t] = rows[t]
       /\ rows[t].kind = "table" /\ Placed(rows[t]) /\ rows[t] # None
  <2>1. t \in DOMAIN rows' /\ rows'[t].kind = "table" /\ Placed(rows'[t]) /\ rows'[t] # None
    BY DEF PlacedTables, FindDiagramTableByID, Find
  <2>2. t # r.id /\ t \in DOMAIN rows
    BY <1>6, <2>1
  <2>3. rows'[t] = rows[t]
    BY <1>6, <2>2
  <2>4. n \in 1..Len(next) /\ t = next[n]
    BY <1>3, <1>8
  <2> QED  BY <2>1, <2>2, <2>3, <2>4
<1> HIDE DEF members, t
<1>11. rest[n] = [table |-> rows[t], columns |-> CountColumnsByTableID(rows, t)]
  <2>1. Len(next) \in Nat
    BY <1>3
  <2>2. 4 + n \in 5..Len(Steps(r, read))
    BY <1>3, <1>10, <2>1
  <2>3. RowOf(rows, Steps(r, read)[4 + n]) = read[4 + n]
    BY <2>2 DEF MembersAsRead
  <2>4. RowOf(rows, May("member", t)) = rest[n]
    BY <1>3, <1>10, <2>3
  <2>5. RowOf(rows, May("member", t))
          = [table |-> FindDiagramTableByID(rows, t), columns |-> CountColumnsByTableID(rows, t)]
    BY DEF RowOf, May, Step
  <2>6. FindDiagramTableByID(rows, t) = rows[t]
    BY <1>10 DEF FindDiagramTableByID, Find
  <2> QED  BY <2>4, <2>5, <2>6
<1> DEFINE m == AsMember(rest[n])
<1>12. m \in placed /\ IsFiniteSet(placed) /\ \A k \in placed : Measured(k)
  <2>1. Len(next) \in Nat
    BY <1>3
  <2>2. \A k \in 1..Len(next) : MemberRead(rest[k])
    BY <1>3
  <2> DEFINE l == Len(next)
  <2>3. l \in Nat /\ DOMAIN rest = 1..l /\ \A k \in 1..l : MemberRead(rest[k])
    BY <1>3, <2>1, <2>2
  <2>4. n \in 1..l
    BY <1>10
  <2> HIDE DEF l
  <2>5. rest[n].table # None /\ Placed(rest[n].table)
    BY <1>10, <1>11
  <2> QED  BY <2>3, <2>4, <2>5, MembersMeasured DEF placed
<1>13. /\ m.x = rows[t].f.x /\ m.y = rows[t].f.y /\ m.width = rows[t].f.width
       /\ m.columns = CountColumnsByTableID(rows, t)
  BY <1>11 DEF AsMember
<1> HIDE DEF m
<1> DEFINE width == IF rows[t].f.width = None THEN 250 ELSE rows[t].f.width
           lines == CountColumnsByTableID(rows, t) + 1
           p == rows[t].f
<1>14. /\ b.x + 24 <= p.x /\ p.x + width + 24 <= b.x + b.width
       /\ b.y + 32 + 24 <= p.y /\ p.y + 40 + 28 * lines + 12 + 24 <= b.y + b.height
  <2>1. width = IF m.width = None THEN 250 ELSE m.width
    BY <1>13
  <2>2. /\ b.x + 24 <= m.x /\ m.x + width + 24 <= b.x + b.width
        /\ b.y + 32 + 24 <= m.y
        /\ m.y + 40 + 28 * (m.columns + 1) + 12 + 24 <= b.y + b.height
    BY <1>12, <2>1, InTheBox DEF b
  <2> QED  BY <1>13, <2>2
<1>15. /\ rows'[r.id].f.x = b.x /\ rows'[r.id].f.y = b.y
       /\ rows'[r.id].f.width = b.width /\ rows'[r.id].f.height = b.height
  BY <1>9, <1>12 DEF Measure
<1>16. rows'[t].f = rows[t].f /\ CountColumnsByTableID(rows', t) = CountColumnsByTableID(rows, t)
  BY <1>6, <1>10
<1>17. Inside(rows', t, r.id)
  BY <1>14, <1>15, <1>16 DEF Inside
<1> QED  BY <1>17 DEF t

\* Whatever was written meanwhile: an area whose list a call changes encloses the members
\* that are stored as that call has read them.
THEOREM AreasEnclose == Spec => AreaEnclosesMembers
<1>1. NamesInv /\ [Next]_vars => [\A c \in Call : Encloses(c)]_vars
  BY MembersEnclosed
<1> QED  BY <1>1, NamesInit, NamesStep, PTL DEF Spec, AreaEnclosesMembers
-----------------------------------------------------------------------------
(* Sound areas stay sound.                                                  *)

\* The table that a call has read as the member it adds or removes is one of the area's
\* board as long as it is there.
LEMMA MemberStays ==
  ASSUME NamesInv, NEW c \in Call, 1 <= sent[c], request[c].tool \in MembershipTool,
         seen[c][1].board # None, request[c].member \in DOMAIN rows
  PROVE  /\ rows[request[c].member].kind = "table"
         /\ rows[request[c].member].board = seen[c][1].board
<1> DEFINE r == request[c]
           read == seen[c]
           next == NextMembers(r, read[1])
           s == OnBoard("table", r.member, read[1].board, "FORBIDDEN")
<1>1. WritesList(c)
  BY ListWritten DEF NamesInv
<1>2. Recalls(r, read) /\ Known(r, read)
  <2>1. Live(c)
    BY BoundsAssumption, SentWrite DEF NamesInv
  <2> QED  BY <2>1 DEF NamesInv, Remembers, EditInv, Knows
<1>3. 4 \in 1..Len(read) /\ Steps(r, read)[4] = s
  <2>1. next \in Seq(Id) /\ Len(read) = 4 + Len(next) /\ Steps(r, read)[4] = s
    BY <1>1 DEF WritesList
  <2>2. Len(next) \in Nat
    BY <2>1
  <2> HIDE DEF next, s
  <2> QED  BY <2>1, <2>2
<1>4. Stays(s, read[4]) /\ Fits(s, read[4]) /\ Granted(s, read[4])
  BY <1>2, <1>3 DEF Recalls, Known
<1>5. /\ s.by = "table" /\ s.id = r.member /\ s.missing = "NOT_FOUND"
      /\ s.board = read[1].board /\ s.elsewhere = "FORBIDDEN"
  BY DEF OnBoard, Step
<1> HIDE DEF s
<1>6. read[4] # None /\ read[4].board = read[1].board
  BY <1>4, <1>5 DEF Granted, RowQuery
<1>7. read[4].kind = "table"
  BY <1>4, <1>5, <1>6 DEF Fits
<1>8. r.member \notin Spare
  BY DEF NamesInv, NamesNoSpare
<1> QED  BY <1>4, <1>5, <1>6, <1>7, <1>8 DEF Stays, RowQuery

\* A write of a list writes a sound one, if the list that the call has read is sound.
LEMMA ListStaysSound ==
  ASSUME NamesInv, NEW c \in Call, request[c].tool \in MembershipTool, 1 <= sent[c],
         Accepts(rows, Payload(c, 1)), rows' = Store(rows, Payload(c, 1)),
         Sound(rows, seen[c][1])
  PROVE  Sound(rows', rows'[request[c].id])
<1> DEFINE r == request[c]
           read == seen[c]
           w == Payload(c, 1)
           next == NextMembers(r, read[1])
           current == read[1].f.members
           add == r.tool = "add_table_to_area"
<1>0. EditInv /\ RowsTyped /\ RowsInv
  BY DEF NamesInv, EditInv, SendInv
<1>1. WritesList(c)
  BY <1>0, ListWritten
<1>2. /\ w.event = "update" /\ w.id = r.id /\ w.board = read[1].board /\ w.moves = NoMoves
      /\ "members" \in DOMAIN w.f /\ w.f.members = next /\ read # <<>>
  BY <1>1 DEF WritesList, ChangesList
<1> HIDE DEF w
<1>3. r.id \in DOMAIN rows /\ rows[r.id].kind = "area" /\ rows[r.id].board = read[1].board
  <2>1. r.id \in DOMAIN rows /\ rows[r.id].board = read[1].board
    BY <1>2 DEF Accepts, w
  <2> QED  BY <2>1, StillArea
<1>4. read[1].board # None
  BY <1>0, <1>3, NoneAssumption DEF RowsInv, SoundRow, Board, CanvasKind
<1>5. /\ DOMAIN rows' = DOMAIN rows
      /\ \A k \in DOMAIN rows : rows'[k].kind = rows[k].kind /\ rows'[k].board = rows[k].board
  BY <1>0, <1>2, <1>3, UpdateStored DEF w
<1>6. rows'[r.id].f.members = next
  <2>1. "members" \in DOMAIN rows[r.id].f
    BY <1>0, <1>3 DEF RowsTyped, TypedRow
  <2> QED  BY <1>0, <1>2, <1>3, <2>1, FieldStored DEF w
<1>7. current \in Seq(Id \ Spare) /\ r.member \in Id \ Spare
  <2>1. Live(c) /\ Accepted(r)
    BY <1>0, BoundsAssumption, SentWrite
  <2> QED  BY <1>2, <2>1 DEF NamesInv, Remembers, Recalls, ListRead, OldIds, NamesNoSpare, Accepted
<1>8. TakenFrom(next, current, r.member) /\ (Distinct(current) => Distinct(next))
  <2>1. next = nextMemberTableIDs(current, r.member, add)
    BY DEF NextMembers
  <2> DEFINE S == Id \ Spare
             id == r.member
  <2>2. current \in Seq(S) /\ id \in S
    BY <1>7
  <2> HIDE DEF next, current, add, S, id
  <2>3. TakenFrom(next, current, id) /\ (Distinct(current) => Distinct(next))
    <3>1. next = nextMemberTableIDs(current, id, add)
      BY <2>1 DEF id
    <3> QED  BY <2>2, <3>1, NextMembersAre
  <2> QED  BY <2>3 DEF id
<1>9. /\ Distinct(current)
      /\ \A n \in DOMAIN current :
           current[n] \in DOMAIN rows =>
             rows[current[n]].kind = "table" /\ rows[current[n]].board = read[1].board
  BY DEF Sound, Distinct
<1> HIDE DEF next, current, add
<1>10. ASSUME NEW n \in DOMAIN next, next[n] \in DOMAIN rows
       PROVE  rows[next[n]].kind = "table" /\ rows[next[n]].board = read[1].board
  <2>1. CASE next[n] = r.member
    BY <1>4, <1>10, <2>1, MemberStays
  <2>2. CASE \E m \in DOMAIN current : next[n] = current[m]
    BY <1>9, <1>10, <2>2
  <2> QED  BY <1>8, <2>1, <2>2 DEF TakenFrom
<1>11. rows'[r.id].board = read[1].board
  BY <1>3, <1>5
<1> QED  BY <1>5, <1>6, <1>8, <1>9, <1>10, <1>11 DEF Sound, Distinct

\* A list that stays as it is stays sound, whatever becomes of other rows.
LEMMA UnchangedStaysSound ==
  ASSUME NEW id \in DOMAIN rows, id \in DOMAIN rows', Sound(rows, rows[id]),
         rows'[id].f.members = rows[id].f.members, rows'[id].board = rows[id].board,
         \A n \in DOMAIN rows[id].f.members : LET k == rows[id].f.members[n] IN
           k \in DOMAIN rows' => /\ k \in DOMAIN rows /\ rows'[k].kind = rows[k].kind
                                 /\ rows'[k].board = rows[k].board
  PROVE  Sound(rows', rows'[id])
BY DEF Sound

LEMMA AreaStaysSound ==
  ASSUME NamesInv, [Next]_vars, NEW id \in Areas(rows) \cap Areas(rows')
  PROVE  StaysSound(id)
<1> SUFFICES ASSUME \A area \in ReadAreas(id) \cup {rows[id]} : Sound(rows, area)
             PROVE  Sound(rows', rows'[id])
  BY DEF StaysSound
<1>0. EditInv /\ RowsTyped /\ StoredLists
  BY DEF NamesInv, EditInv
<1>1. /\ id \in DOMAIN rows /\ rows[id].kind = "area" /\ id \in DOMAIN rows'
      /\ Sound(rows, rows[id]) /\ rows[id].f.members \in Seq(Id \ Spare)
      /\ "members" \in DOMAIN rows[id].f
  BY <1>0 DEF Areas, StoredLists, OldIds, RowsTyped, TypedRow
<1>2. RowsFate
  <2>1. UNCHANGED vars => RowsFate
    BY DEF vars, RowsFate
  <2> QED  BY <2>1, FateOfRows
<1>3. CASE rows' = rows
  BY <1>1, <1>3
<1>4. ASSUME NEW ids, rows' = Without(rows, ids) PROVE Sound(rows', rows'[id])
  <2>1. DOMAIN rows' \subseteq DOMAIN rows /\ \A k \in DOMAIN rows' : rows'[k] = rows[k]
    BY <1>4 DEF Without
  <2> QED  BY <1>1, <2>1, UnchangedStaysSound
<1>5. ASSUME NEW c \in Call, NEW n \in 1..MaxWrites, n <= sent[c], Accepts(rows, Payload(c, n)),
             rows' = Store(rows, Payload(c, n))
      PROVE  Sound(rows', rows'[id])
  <2> DEFINE w == Payload(c, n)
  <2>1. /\ w.event \in {"create", "update", "delete"} /\ ListedWrite(w)
        /\ request[c].tool \notin MembershipTool \cup {"create_area"} => PlainWrite(w)
        /\ request[c].tool = "create_area" => w.event = "create"
        /\ request[c].tool \in MembershipTool => n = 1
    BY <1>5, SentList
  <2>2. Accepts(rows, w) /\ rows' = Store(rows, w)
    BY <1>5
  <2> HIDE DEF w
  <2>3. CASE w.event = "create"
    <3> DEFINE new == CHOOSE k \in Spare \ DOMAIN rows : TRUE
               row == [kind |-> w.kind, board |-> w.board, f |-> w.f]
    <3>1. rows' = [k \in DOMAIN rows \cup {new} |-> IF k = new THEN row ELSE rows[k]]
      BY <2>2, <2>3 DEF Store
    <3>2. new \in Spare \ DOMAIN rows
      BY <2>2, <2>3 DEF Accepts
    <3> HIDE DEF new, row
    <3>3. rows'[id] = rows[id] /\ \A k \in DOMAIN rows' \ Spare : k \in DOMAIN rows /\ rows'[k] = rows[k]
      BY <1>1, <3>1, <3>2
    <3>4. \A m \in DOMAIN rows[id].f.members : rows[id].f.members[m] \notin Spare
      <4> DEFINE S == Id \ Spare
                 members == rows[id].f.members
      <4>1. members \in Seq(S)
        BY <1>1
      <4> HIDE DEF S, members
      <4>2. \A m \in DOMAIN members : members[m] \in S
        BY <4>1
      <4> QED  BY <4>2 DEF S, members
    <3> QED  BY <1>1, <3>3, <3>4, UnchangedStaysSound
  <2>4. CASE w.event = "delete"
    <3>1. rows' = Without(rows, Dependants(rows, w.id))
      BY <2>2, <2>4 DEF Store
    <3> QED  BY <1>4, <3>1
  <2>5. CASE w.event = "update"
    <3>1. w.id \in DOMAIN rows
      BY <2>2, <2>5 DEF Accepts
    <3>2. /\ DOMAIN rows' = DOMAIN rows
          /\ \A k \in DOMAIN rows : rows'[k].kind = rows[k].kind /\ rows'[k].board = rows[k].board
      BY <1>0, <2>2, <2>5, <3>1, UpdateStored
    <3>3. CASE rows'[id].f.members = rows[id].f.members
      BY <1>1, <3>2, <3>3, UnchangedStaysSound
    <3>4. CASE rows'[id].f.members # rows[id].f.members
      <4>1. id = w.id /\ "members" \in DOMAIN w.f
        <5>1. CASE id = w.id
          BY <1>0, <1>1, <2>2, <2>5, <3>1, <3>4, <5>1, FieldStored
        <5>2. CASE id # w.id
          <6>1. IF id \in DOMAIN w.moves /\ rows[id].board = w.board
                THEN rows'[id].f = Overwrite(rows[id].f, w.moves[id])
                ELSE rows'[id] = rows[id]
            BY <1>0, <1>1, <2>2, <2>5, <3>1, <5>2, UpdateStored
          <6>2. id \in DOMAIN w.moves => "members" \notin DOMAIN w.moves[id]
            BY <2>1, <2>5 DEF ListedWrite
          <6>3. rows'[id].f.members = rows[id].f.members
            BY <1>1, <6>1, <6>2, Overwritten
          <6> QED  BY <3>4, <6>3
        <5> QED  BY <5>1, <5>2
      <4>2. request[c].tool \in MembershipTool /\ n = 1
        BY <2>1, <2>5, <4>1 DEF PlainWrite
      <4>3. w = Payload(c, 1)
        BY <4>2 DEF w
      <4>4. WritesList(c) /\ 1 <= sent[c]
        BY <1>0, <1>5, <4>2, ListWritten
      <4>5. request[c].id = id /\ seen[c] # <<>> /\ seen[c][1] # None
        BY <4>1, <4>3, <4>4 DEF WritesList, ChangesList
      <4>6. Sound(rows, seen[c][1])
        BY <4>2, <4>5 DEF ReadAreas
      <4> QED  BY <2>2, <4>2, <4>3, <4>4, <4>5, <4>6, ListStaysSound
    <3> QED  BY <3>3, <3>4
  <2> QED  BY <2>1, <2>3, <2>4, <2>5
<1> QED  BY <1>2, <1>3, <1>4, <1>5 DEF RowsFate

\* However late and in whatever order the writes of any number of calls are stored: the
\* members of an area stay distinct tables of its board, if the lists that were read were.
THEOREM AreasStaySound == Spec => SoundAreasStaySound
<1>1. NamesInv /\ [Next]_vars => [\A id \in Areas(rows) \cap Areas(rows') : StaysSound(id)]_vars
  BY AreaStaysSound
<1> QED  BY <1>1, NamesInit, NamesStep, PTL DEF Spec, SoundAreasStaySound
=============================================================================
