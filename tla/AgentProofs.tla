---------------------------- MODULE AgentProofs ----------------------------
(***************************************************************************)
(* Proofs about the agents of a node.  MadServer, for any number of        *)
(* clients, any count, any number of tries and of restarts: types, that    *)
(* the server answers only what it was asked, and that a client counts     *)
(* only packets that were answered.  PerfCounters, for any number of       *)
(* ports and of tools that run side by side, with any options, counters as *)
(* wide as wanted and any number of events and of retries: types, that no  *)
(* event is reported twice by a tool that resets what it has read, that    *)
(* what is erased was read, and that every port is reported and added up.  *)
(*                                                                         *)
(* Sums over sets of ports are folds; what is used of them (SumStep,       *)
(* SumWithout, SumSame) is proved from a least set that would contradict   *)
(* it.  The lists of operations a tool plans are compared with what they   *)
(* read and reset: every port is read, and reset only after that           *)
(* (Thorough), no port twice (Plan).                                       *)
(***************************************************************************)
EXTENDS MadServer, PerfCounters, FiniteSetTheorems, SequenceTheorems,
        WellFoundedInduction, TLAPS

------------------------------------------------------------------------------
(* Bags of messages. *)

LEMMA BagSteps ==
  ASSUME NEW bag \in Bags, NEW m \in Msgs
  PROVE  /\ Add(bag, m) \in Bags
         /\ bag[m] > 0 => Drop(bag, m) \in Bags
         /\ \A k \in Msgs : k # m => Add(bag, m)[k] = bag[k] /\ Drop(bag, m)[k] = bag[k]
         /\ Add(bag, m)[m] = bag[m] + 1
         /\ Drop(bag, m)[m] = bag[m] - 1
         /\ \A k \in Msgs : bag[k] \in Nat
BY DEF Bags, Add, Drop

LEMMA NoMessages == Empty \in Bags /\ \A m \in Msgs : Empty[m] = 0
BY DEF Empty, Bags

------------------------------------------------------------------------------
(* Types. *)

LEMMA InitTyped == Init => TypeOK
<1> SUFFICES ASSUME Init PROVE TypeOK
  OBVIOUS
<1>1. count \in [Clients -> 0..MaxCount]
  <2>1. (IF tool = "ibping" THEN 1..MaxCount ELSE {1}) \subseteq 0..MaxCount
    BY MadServerAssumption
  <2>2. QED
    BY <2>1 DEF Init
<1>2. NotPrinted \in Statistics
  BY DEF NotPrinted, Statistics
<1>3. QED
  BY <1>1, <1>2, NoMessages DEF Init, TypeOK

LEMMA ServerTyped ==
  ASSUME TypeOK, RegisterServer \/ ServerOut \/ Serve
  PROVE  TypeOK'
<1>1. CASE RegisterServer
  BY <1>1, MadServerAssumption DEF RegisterServer, TypeOK, clients, stats
<1>2. CASE ServerOut
  BY <1>2, NoMessages DEF ServerOut, TypeOK, clients, stats
<1>3. CASE Serve
  <2> PICK m \in Msgs : Respond(m) \/ DropReturned(m)
    BY <1>3 DEF Serve
  <2>1. CASE Respond(m)
    <3>1. queued' \in Bags
      BY <2>1, BagSteps DEF Respond, TypeOK
    <3>2. answered' \in Bags /\ back' \in Bags /\ own' \in Bags
      BY <2>1, BagSteps DEF Respond, TypeOK, Sends, SendFails
    <3>3. QED
      BY <2>1, <3>1, <3>2 DEF Respond, TypeOK, clients, stats
  <2>2. CASE DropReturned(m)
    <3>1. returned' \in Bags
      BY <2>2, BagSteps DEF DropReturned, TypeOK
    <3>2. QED
      BY <2>2, <3>1 DEF DropReturned, TypeOK, clients, stats
  <2>3. QED
    BY <2>1, <2>2
<1>4. QED
  BY <1>1, <1>2, <1>3

LEMMA KernelTyped ==
  ASSUME TypeOK, NEW m \in Msgs,
         HandBack(m) \/ Arrive(m) \/ LoseRequest(m) \/ LoseAnswer(m)
  PROVE  TypeOK'
<1>1. CASE HandBack(m)
  <2>1. own' \in Bags /\ returned' \in Bags
    BY <1>1, BagSteps DEF HandBack, TypeOK
  <2>2. QED
    BY <1>1, <2>1 DEF HandBack, TypeOK, clients, stats
<1>2. CASE Arrive(m)
  <2>1. wire' \in Bags /\ queued' \in Bags /\ delivered' \in Bags
    BY <1>2, BagSteps DEF Arrive, TypeOK
  <2>2. QED
    BY <1>2, <2>1 DEF Arrive, TypeOK, clients, stats
<1>3. CASE LoseRequest(m)
  <2>1. wire' \in Bags
    BY <1>3, BagSteps DEF LoseRequest, TypeOK
  <2>2. QED
    BY <1>3, <2>1 DEF LoseRequest, TypeOK, clients, stats, server
<1>4. CASE LoseAnswer(m)
  <2>1. back' \in Bags
    BY <1>4, BagSteps DEF LoseAnswer, TypeOK
  <2>2. QED
    BY <1>4, <2>1 DEF LoseAnswer, TypeOK, clients, stats, server
<1>5. QED
  BY <1>1, <1>2, <1>3, <1>4
(* The calls of a client stay within its count, so each has a transaction id. *)
Counted ==
  \A c \in Clients :
    /\ count[c] + ntrans[c] <= MaxCount
    /\ pc[c] = "call" => ntrans[c] > 0

LEMMA CurrentTyped ==
  ASSUME TypeOK, Counted, NEW c \in Clients, pc[c] = "call"
  PROVE  Current(c) \in Msgs /\ ntrans[c] \in 1..MaxCount
<1>1. count[c] \in 0..MaxCount /\ ntrans[c] \in Nat
  BY DEF TypeOK
<1>2. ntrans[c] \in 1..MaxCount
  BY <1>1, MadServerAssumption DEF Counted
<1>3. QED
  BY <1>2 DEF Current, Msgs, Trids

LEMMA AskTyped ==
  ASSUME TypeOK, Counted, NEW c \in Clients, Ask(c)
  PROVE  /\ <<c, ntrans[c] + 1>> \in Msgs
         /\ TypeOK' /\ Counted'
<1>1. count[c] \in 0..MaxCount /\ ntrans[c] \in Nat
  BY DEF TypeOK
<1>2. ntrans[c] + 1 \in 1..MaxCount
  BY <1>1, MadServerAssumption DEF Counted, Ask
<1>3. <<c, ntrans[c] + 1>> \in Msgs
  BY <1>2 DEF Msgs, Trids
<1>4. wire' \in Bags
  BY <1>3, BagSteps DEF Ask, TypeOK
<1>5. count' \in [Clients -> 0..MaxCount]
  BY <1>1, MadServerAssumption DEF Ask, TypeOK
<1>6. TypeOK'
  BY <1>4, <1>5 DEF Ask, TypeOK, server
<1>7. Counted'
  <2> SUFFICES ASSUME NEW d \in Clients
               PROVE  /\ count'[d] + ntrans'[d] <= MaxCount
                      /\ pc'[d] = "call" => ntrans'[d] > 0
    BY DEF Counted
  <2>1. CASE d = c
    BY <2>1, <1>1, MadServerAssumption DEF Ask, TypeOK, Counted
  <2>2. CASE d # c
    BY <2>2 DEF Ask, TypeOK, Counted
  <2>3. QED
    BY <2>1, <2>2
<1>8. QED
  BY <1>3, <1>6, <1>7

LEMMA ClientTyped ==
  ASSUME TypeOK, Counted, NEW c \in Clients,
         Answered(c) \/ TriesAgain(c) \/ GivesUp(c) \/ Report(c)
  PROVE  TypeOK' /\ Counted'
<1>1. count' = count /\ ntrans' = ntrans
  BY DEF Answered, TriesAgain, GivesUp, Report, stats
<1>2. pc' \in [Clients -> {"idle", "call", "out"}]
  BY DEF Answered, TriesAgain, GivesUp, Report, Ends, TypeOK
<1>3. \A d \in Clients : pc'[d] = "call" => pc[d] = "call"
  BY DEF Answered, TriesAgain, GivesUp, Report, Ends, TypeOK
<1>4. Counted'
  BY <1>1, <1>3 DEF Counted
<1>5. CASE Answered(c)
  <2>1. back' \in Bags
    BY <1>5, CurrentTyped, BagSteps DEF Answered, TypeOK
  <2>2. replied' \in [Clients -> Nat]
    BY <1>5 DEF Answered, TypeOK
  <2>3. UNCHANGED <<tool, server, wire, count, tries, ntrans, lost, printed>>
    BY <1>5 DEF Answered
  <2>4. QED
    BY <1>2, <1>4, <2>1, <2>2, <2>3 DEF TypeOK, server
<1>6. CASE TriesAgain(c)
  <2>1. wire' \in Bags
    BY <1>6, CurrentTyped, BagSteps DEF TriesAgain, TypeOK
  <2>2. QED
    BY <1>6, <1>2, <1>4, <2>1 DEF TriesAgain, TypeOK, server, stats
<1>7. CASE GivesUp(c)
  <2>1. lost' \in [Clients -> Nat]
    BY <1>7 DEF GivesUp, TypeOK
  <2>2. UNCHANGED <<tool, server, wire, back, count, tries, ntrans, replied, printed>>
    BY <1>7 DEF GivesUp
  <2>3. QED
    BY <1>2, <1>4, <2>1, <2>2 DEF TypeOK, server
<1>8. CASE Report(c)
  <2>1. printed' \in [Clients -> Statistics]
    BY <1>8 DEF Report, TypeOK, Statistics
  <2>2. QED
    BY <1>8, <1>2, <1>4, <2>1 DEF Report, TypeOK, server
<1>9. QED
  BY <1>5, <1>6, <1>7, <1>8

Typed == TypeOK /\ Counted

LEMMA TypedStep == Typed /\ [Next]_vars => Typed'
<1> SUFFICES ASSUME TypeOK, Counted, [Next]_vars
             PROVE  TypeOK' /\ Counted'
  BY DEF Typed
<1>1. CASE RegisterServer \/ ServerOut \/ Serve
  <2>1. UNCHANGED <<count, ntrans, pc>>
    BY <1>1 DEF RegisterServer, ServerOut, Serve, Respond, DropReturned, clients, stats
  <2>2. QED
    BY <1>1, <2>1, ServerTyped DEF Counted
<1>2. ASSUME NEW m \in Msgs, HandBack(m) \/ Arrive(m) \/ LoseRequest(m) \/ LoseAnswer(m)
      PROVE  TypeOK' /\ Counted'
  <2>1. UNCHANGED <<count, ntrans, pc>>
    BY <1>2 DEF HandBack, Arrive, LoseRequest, LoseAnswer, clients, stats
  <2>2. QED
    BY <1>2, <2>1, KernelTyped DEF Counted
<1>3. ASSUME NEW c \in Clients, ClientStep(c)
      PROVE  TypeOK' /\ Counted'
  BY <1>3, AskTyped, ClientTyped DEF ClientStep
<1>4. CASE UNCHANGED vars
  BY <1>4 DEF vars, server, clients, stats, TypeOK, Counted
<1>5. QED
  BY <1>1, <1>2, <1>3, <1>4 DEF Next, Done

LEMMA InitCounted == Init => Counted
<1> SUFFICES ASSUME Init, NEW c \in Clients
             PROVE  count[c] + ntrans[c] <= MaxCount /\ pc[c] # "call"
  BY DEF Counted
<1>1. count[c] \in 0..MaxCount
  BY InitTyped DEF TypeOK
<1>2. ntrans[c] = 0 /\ pc[c] = "idle"
  BY DEF Init
<1>3. QED
  BY <1>1, <1>2, MadServerAssumption

\* Every variable of the server and of its clients keeps its type, and no client
\* makes more calls than -c says.
THEOREM TypeCorrect == Spec => []Typed
<1>1. Init => Typed
  BY InitTyped, InitCounted DEF Typed
<1>2. QED
  BY <1>1, TypedStep, PTL DEF Spec
------------------------------------------------------------------------------
(* The server. *)

(* A request is queued or answered, at most once: what is queued counts as   *)
(* not yet answered, and a send handed back counts for nothing.              *)
Owed == \A m \in Msgs : queued[m] + answered[m] <= delivered[m]

LEMMA OwedStep ==
  ASSUME TypeOK, Owed, [Next]_vars
  PROVE  Owed'
<1>0. queued \in Bags /\ answered \in Bags /\ delivered \in Bags
  BY DEF TypeOK
<1>1. CASE UNCHANGED <<queued, answered, delivered>>
  BY <1>1 DEF Owed
<1>2. CASE ServerOut
  <2> SUFFICES ASSUME NEW m \in Msgs
               PROVE  queued'[m] + answered'[m] <= delivered'[m]
    BY DEF Owed
  <2>1. queued'[m] = 0 /\ answered'[m] = answered[m] /\ delivered'[m] = delivered[m]
    BY <1>2, NoMessages DEF ServerOut
  <2>2. queued[m] + answered[m] <= delivered[m]
    BY DEF Owed
  <2>3. queued[m] \in Nat /\ answered[m] \in Nat /\ delivered[m] \in Nat
    BY <1>0, BagSteps
  <2>4. QED
    BY <2>1, <2>2, <2>3
<1>3. ASSUME NEW m \in Msgs, Respond(m) PROVE Owed'
  <2> SUFFICES ASSUME NEW k \in Msgs
               PROVE  queued'[k] + answered'[k] <= delivered'[k]
    BY DEF Owed
  <2>1. queued[k] + answered[k] <= delivered[k]
    BY DEF Owed
  <2>2. queued[k] \in Nat /\ answered[k] \in Nat /\ delivered[k] \in Nat
    BY <1>0, BagSteps
  <2>3. delivered' = delivered /\ queued' = Drop(queued, m)
    BY <1>3 DEF Respond
  <2>4. answered' = answered \/ answered' = Add(answered, m)
    BY <1>3 DEF Respond, Sends, SendFails
  <2>5. CASE k = m
    <3>1. queued'[k] = queued[k] - 1
      BY <2>3, <2>5, <1>0, BagSteps
    <3>2. answered'[k] = answered[k] \/ answered'[k] = answered[k] + 1
      BY <2>4, <2>5, <1>0, BagSteps
    <3>3. QED
      BY <2>1, <2>2, <2>3, <3>1, <3>2
  <2>6. CASE k # m
    <3>1. queued'[k] = queued[k] /\ answered'[k] = answered[k]
      BY <2>3, <2>4, <2>6, <1>0, BagSteps
    <3>2. QED
      BY <2>1, <2>3, <3>1
  <2>7. QED
    BY <2>5, <2>6
<1>4. ASSUME NEW m \in Msgs, Arrive(m) PROVE Owed'
  <2>1. CASE ~up
    BY <1>4, <2>1 DEF Arrive, Owed
  <2>2. CASE up
    <3> SUFFICES ASSUME NEW k \in Msgs
                 PROVE  queued'[k] + answered'[k] <= delivered'[k]
      BY DEF Owed
    <3>1. queued[k] + answered[k] <= delivered[k]
      BY DEF Owed
    <3>2. queued[k] \in Nat /\ answered[k] \in Nat /\ delivered[k] \in Nat
      BY <1>0, BagSteps
    <3>3. queued' = Add(queued, m) /\ delivered' = Add(delivered, m) /\ answered' = answered
      BY <1>4, <2>2 DEF Arrive
    <3>4. CASE k = m
      BY <3>1, <3>2, <3>3, <3>4, <1>0, BagSteps
    <3>5. CASE k # m
      BY <3>1, <3>3, <3>5, <1>0, BagSteps
    <3>6. QED
      BY <3>4, <3>5
  <2>3. QED
    BY <2>1, <2>2
<1>5. CASE \E m \in Msgs : DropReturned(m) \/ HandBack(m) \/ LoseRequest(m) \/ LoseAnswer(m)
  BY <1>5, <1>1 DEF DropReturned, HandBack, LoseRequest, LoseAnswer, server
<1>6. CASE \E c \in Clients : ClientStep(c)
  BY <1>6, <1>1 DEF ClientStep, Ask, Answered, TriesAgain, GivesUp, Report, server
<1>7. CASE RegisterServer \/ UNCHANGED vars
  BY <1>7, <1>1 DEF RegisterServer, vars, server
<1>8. QED
  BY <1>2, <1>3, <1>4, <1>5, <1>6, <1>7 DEF Next, Done, Serve

\* The server answers a transaction no more often than requests of it were
\* delivered, over all restarts and whatever the kernel hands back to it.
THEOREM ServerAnswersAreAsked == Spec => []AnswersAreAsked
<1>1. Init => Owed
  BY NoMessages DEF Init, Owed
<1>2. Typed /\ Owed /\ [Next]_vars => Owed'
  BY OwedStep DEF Typed
<1>3. Typed /\ Owed => AnswersAreAsked
  <2> SUFFICES ASSUME Typed, Owed, NEW m \in Msgs
               PROVE  answered[m] <= delivered[m]
    BY DEF AnswersAreAsked
  <2>1. queued[m] + answered[m] <= delivered[m]
    BY DEF Owed
  <2>2. queued[m] \in Nat /\ answered[m] \in Nat /\ delivered[m] \in Nat
    BY BagSteps DEF Typed, TypeOK
  <2>3. QED
    BY <2>1, <2>2
<1>4. QED
  BY <1>1, <1>2, <1>3, TypeCorrect, PTL DEF Spec
------------------------------------------------------------------------------
(* The clients. *)

(* The calls of a client that are over, and those among them that the server *)
(* answered.                                                                 *)
Over(c) == IF pc[c] = "call" THEN ntrans[c] - 1 ELSE ntrans[c]
Served(c) == {t \in 1..Over(c) : answered[<<c, t>>] > 0}

(* An answer under way was sent, and only calls that are over are counted: so *)
(* the answer that ends a call ends one that was not counted yet.             *)
Backed == \A m \in Msgs : back[m] > 0 => answered[m] > 0
CountedOnce == \A c \in Clients : replied[c] <= Cardinality(Served(c))

LEMMA BackedStep ==
  ASSUME TypeOK, Counted, Backed, [Next]_vars
  PROVE  Backed' /\ \A m \in Msgs : answered[m] <= answered'[m]
<1>0. back \in Bags /\ answered \in Bags
  BY DEF TypeOK
<1>1. \A m \in Msgs : back[m] \in Nat /\ answered[m] \in Nat
  BY <1>0, BagSteps
<1>2. ASSUME NEW m \in Msgs, Respond(m)
      PROVE  Backed' /\ \A k \in Msgs : answered[k] <= answered'[k]
  <2>1. CASE answered' = answered /\ back' = back
    BY <2>1, <1>1 DEF Backed
  <2>2. CASE answered' = Add(answered, m) /\ back' = Add(back, m)
    <3> SUFFICES ASSUME NEW k \in Msgs
                 PROVE  (back'[k] > 0 => answered'[k] > 0) /\ answered[k] <= answered'[k]
      BY DEF Backed
    <3>1. CASE k = m
      BY <2>2, <3>1, <1>0, <1>1, BagSteps
    <3>2. CASE k # m
      <4>1. back'[k] = back[k] /\ answered'[k] = answered[k]
        BY <2>2, <3>2, <1>0, BagSteps
      <4>2. QED
        BY <4>1, <1>1 DEF Backed
    <3>3. QED
      BY <3>1, <3>2
  <2>3. QED
    BY <1>2, <2>1, <2>2 DEF Respond, Sends, SendFails
<1>3. ASSUME NEW m \in Msgs, answered' = answered, back' = Drop(back, m)
      PROVE  Backed' /\ \A k \in Msgs : answered[k] <= answered'[k]
  <2> SUFFICES ASSUME NEW k \in Msgs
               PROVE  (back'[k] > 0 => answered'[k] > 0) /\ answered[k] <= answered'[k]
    BY DEF Backed
  <2>1. back'[k] = back[k] \/ back'[k] = back[k] - 1
    BY <1>3, <1>0, BagSteps
  <2>2. QED
    BY <2>1, <1>1, <1>3 DEF Backed
<1>4. CASE UNCHANGED <<answered, back>>
  BY <1>4, <1>1 DEF Backed
<1>5. CASE \E c \in Clients : ClientStep(c)
  <2> PICK c \in Clients : ClientStep(c)
    BY <1>5
  <2>1. CASE Answered(c)
    <3>1. Current(c) \in Msgs
      BY <2>1, CurrentTyped DEF Answered
    <3>2. answered' = answered /\ back' = Drop(back, Current(c))
      BY <2>1 DEF Answered, server
    <3>3. QED
      BY <3>1, <3>2, <1>3
  <2>2. CASE ~Answered(c)
    BY <2>2, <1>4 DEF ClientStep, Ask, TriesAgain, GivesUp, Report, server
  <2>3. QED
    BY <2>1, <2>2
<1>6. ASSUME NEW m \in Msgs, LoseAnswer(m)
      PROVE  Backed' /\ \A k \in Msgs : answered[k] <= answered'[k]
  BY <1>6, <1>3 DEF LoseAnswer, server
<1>7. CASE \E m \in Msgs : DropReturned(m) \/ HandBack(m) \/ LoseRequest(m) \/ Arrive(m)
  BY <1>7, <1>4 DEF DropReturned, HandBack, LoseRequest, Arrive, server
<1>8. CASE RegisterServer \/ ServerOut \/ UNCHANGED vars
  BY <1>8, <1>4 DEF RegisterServer, ServerOut, vars, server
<1>9. QED
  BY <1>2, <1>5, <1>6, <1>7, <1>8 DEF Next, Done, Serve

LEMMA FiniteCalls ==
  ASSUME NEW n \in 0..MaxCount, NEW S, S \subseteq 1..n
  PROVE  IsFiniteSet(S) /\ Cardinality(S) \in Nat
<1>1. IsFiniteSet(1..n)
  BY MadServerAssumption, FS_Interval
<1>2. IsFiniteSet(S)
  BY <1>1, FS_Subset
<1>3. QED
  BY <1>2, FS_CardinalityType

LEMMA ServedFinite ==
  ASSUME TypeOK, Counted, NEW c \in Clients
  PROVE  /\ Over(c) \in 0..MaxCount
         /\ IsFiniteSet(Served(c)) /\ Cardinality(Served(c)) \in Nat
<1>1. count[c] \in 0..MaxCount /\ ntrans[c] \in Nat
  BY DEF TypeOK
<1>2. Over(c) \in 0..MaxCount
  BY <1>1, MadServerAssumption DEF Over, Counted
<1>3. QED
  BY <1>2, FiniteCalls DEF Served

LEMMA ServedFiniteNext ==
  ASSUME TypeOK', Counted', NEW c \in Clients
  PROVE  /\ Over(c)' \in 0..MaxCount
         /\ IsFiniteSet(Served(c)') /\ Cardinality(Served(c)') \in Nat
<1>1. count'[c] \in 0..MaxCount /\ ntrans'[c] \in Nat
  BY DEF TypeOK
<1>2. Over(c)' \in 0..MaxCount
  BY <1>1, MadServerAssumption DEF Over, Counted
<1>3. QED
  BY <1>2, FiniteCalls DEF Served

(* Calls that are over stay over, and answered ones stay answered. *)
LEMMA ServedGrows ==
  ASSUME TypeOK, Counted, TypeOK', Counted', NEW c \in Clients,
         \A m \in Msgs : answered[m] <= answered'[m],
         Over(c) <= Over(c)'
  PROVE  /\ Served(c) \subseteq Served(c)'
         /\ Cardinality(Served(c)) <= Cardinality(Served(c)')
         /\ IsFiniteSet(Served(c)')
<1>1. Over(c) \in 0..MaxCount /\ Over(c)' \in 0..MaxCount
  BY ServedFinite, ServedFiniteNext
<1>2. Served(c) \subseteq Served(c)'
  <2> SUFFICES ASSUME NEW t \in 1..Over(c), answered[<<c, t>>] > 0
               PROVE  t \in 1..Over(c)' /\ answered'[<<c, t>>] > 0
    BY DEF Served
  <2>1. t \in 1..Over(c)'
    BY <1>1, MadServerAssumption
  <2>2. <<c, t>> \in Msgs
    BY <1>1, MadServerAssumption DEF Msgs, Trids
  <2>3. answered[<<c, t>>] \in Nat /\ answered'[<<c, t>>] \in Nat
    BY <2>2 DEF TypeOK, Bags
  <2>4. answered[<<c, t>>] <= answered'[<<c, t>>]
    BY <2>2
  <2>5. QED
    BY <2>1, <2>3, <2>4
<1>3. IsFiniteSet(Served(c)')
  BY ServedFiniteNext
<1>4. QED
  BY <1>2, <1>3, FS_Subset

LEMMA CountedOnceStep ==
  ASSUME TypeOK, Counted, TypeOK', Counted', Backed, CountedOnce, [Next]_vars
  PROVE  CountedOnce'
<1> SUFFICES ASSUME NEW c \in Clients
             PROVE  replied'[c] <= Cardinality(Served(c)')
  BY DEF CountedOnce
<1>1. \A m \in Msgs : answered[m] <= answered'[m]
  BY BackedStep
<1>2. replied[c] <= Cardinality(Served(c)) /\ replied[c] \in Nat
  BY DEF CountedOnce, TypeOK
<1>3. ntrans[c] \in Nat
  BY DEF TypeOK
<1>4. ASSUME replied'[c] = replied[c], Over(c) <= Over(c)'
      PROVE  replied'[c] <= Cardinality(Served(c)')
  <2>1. Cardinality(Served(c)) \in Nat /\ Cardinality(Served(c)') \in Nat
    BY ServedFinite, ServedFiniteNext
  <2>2. Cardinality(Served(c)) <= Cardinality(Served(c)')
    BY <1>1, <1>4, ServedGrows
  <2>3. QED
    BY <1>2, <1>4, <2>1, <2>2
<1>5. CASE UNCHANGED <<replied, ntrans, pc>>
  <2>1. Over(c) <= Over(c)'
    BY <1>5, <1>3 DEF Over
  <2>2. QED
    BY <1>5, <2>1, <1>4
<1>6. ASSUME NEW d \in Clients, ClientStep(d)
      PROVE  replied'[c] <= Cardinality(Served(c)')
  <2>1. CASE Answered(d) /\ d = c
    <3>1. pc[c] = "call" /\ Over(c) = ntrans[c] - 1 /\ ntrans[c] \in 1..MaxCount
      BY <2>1, CurrentTyped DEF Answered, Over
    <3>2. Over(c)' = ntrans[c]
      BY <2>1 DEF Answered, Ends, Over, TypeOK
    <3>3. Current(c) \in Msgs /\ back[Current(c)] > 0 /\ answered' = answered
      BY <2>1, CurrentTyped DEF Answered, server
    <3>4. ntrans[c] \in Served(c)'
      BY <3>1, <3>2, <3>3 DEF Backed, Served, Current
    <3>5. ntrans[c] \notin Served(c)
      BY <3>1 DEF Served
    <3>6. Served(c) \subseteq Served(c)' /\ IsFiniteSet(Served(c)')
      BY <3>1, <3>2, <1>1, ServedGrows
    <3>7. Cardinality(Served(c) \cup {ntrans[c]}) = Cardinality(Served(c)) + 1
      BY <3>5, ServedFinite, FS_AddElement
    <3>8. Cardinality(Served(c) \cup {ntrans[c]}) <= Cardinality(Served(c)')
      BY <3>4, <3>6, FS_Subset
    <3>9. replied'[c] = replied[c] + 1
      BY <2>1 DEF Answered, TypeOK
    <3>10. Cardinality(Served(c)) \in Nat /\ Cardinality(Served(c)') \in Nat
      BY ServedFinite, ServedFiniteNext
    <3>11. QED
      BY <1>2, <3>7, <3>8, <3>9, <3>10
  <2>2. CASE ~(Answered(d) /\ d = c)
    <3>1. replied'[c] = replied[c]
      BY <1>6, <2>2 DEF ClientStep, Ask, Answered, TriesAgain, GivesUp, Report, stats, TypeOK
    <3>2. Over(c) <= Over(c)'
      <4>1. CASE d # c
        <5>1. pc'[c] = pc[c] /\ ntrans'[c] = ntrans[c]
          BY <1>6, <4>1 DEF ClientStep, Ask, Answered, TriesAgain, GivesUp, Report, Ends,
                            stats, TypeOK
        <5>2. QED
          BY <5>1, <1>3 DEF Over
      <4>2. CASE d = c /\ Ask(d)
        BY <4>2, <1>3 DEF Ask, Over, TypeOK
      <4>3. CASE d = c /\ ~Ask(d)
        <5>1. ntrans' = ntrans
          BY <1>6, <4>3, <2>2 DEF ClientStep, Answered, TriesAgain, GivesUp, Report, stats
        <5>2. pc'[c] = "call" => pc[c] = "call"
          BY <1>6, <4>3, <2>2 DEF ClientStep, Answered, TriesAgain, GivesUp, Report, Ends,
                                  TypeOK
        <5>3. QED
          BY <5>1, <5>2, <1>3 DEF Over
      <4>4. QED
        BY <1>6, <4>1, <4>2, <4>3
    <3>3. QED
      BY <3>1, <3>2, <1>4
  <2>3. QED
    BY <2>1, <2>2
<1>7. CASE RegisterServer \/ ServerOut \/ Serve \/ UNCHANGED vars
  BY <1>7, <1>5 DEF RegisterServer, ServerOut, Serve, Respond, DropReturned, vars, clients, stats
<1>8. CASE \E m \in Msgs : HandBack(m) \/ Arrive(m) \/ LoseRequest(m) \/ LoseAnswer(m)
  BY <1>8, <1>5 DEF HandBack, Arrive, LoseRequest, LoseAnswer, clients, stats
<1>9. QED
  BY <1>6, <1>7, <1>8 DEF Next, Done

\* A client counts only packets the server answered, each once: not the retries
\* of a packet, nor an answer that comes after the next packet was sent.
THEOREM RepliesWereServed == Spec => []RepliedWasServed
<1>1. Init => Backed /\ CountedOnce
  <2> SUFFICES ASSUME Init PROVE Backed /\ CountedOnce
    OBVIOUS
  <2>1. Backed
    BY NoMessages DEF Init, Backed
  <2>2. ASSUME NEW c \in Clients PROVE replied[c] <= Cardinality(Served(c))
    <3>1. Cardinality(Served(c)) \in Nat
      BY InitTyped, InitCounted, ServedFinite
    <3>2. replied[c] = 0
      BY DEF Init
    <3>3. QED
      BY <3>1, <3>2
  <2>3. QED
    BY <2>1, <2>2 DEF CountedOnce
<1>2. Typed /\ Backed /\ CountedOnce /\ Typed' /\ [Next]_vars => Backed' /\ CountedOnce'
  BY BackedStep, CountedOnceStep DEF Typed
<1>3. Typed /\ CountedOnce => RepliedWasServed
  <2> SUFFICES ASSUME TypeOK, Counted, CountedOnce, NEW c \in Clients
               PROVE  replied[c] <= Cardinality({t \in Trids : answered[<<c, t>>] > 0})
    BY DEF RepliedWasServed, Typed
  <2> DEFINE All == {t \in Trids : answered[<<c, t>>] > 0}
  <2>1. IsFiniteSet(Trids) /\ All \subseteq Trids
    BY MadServerAssumption, FS_Interval DEF Trids
  <2>2. IsFiniteSet(All) /\ Cardinality(All) \in Nat
    BY <2>1, FS_Subset, FS_CardinalityType
  <2>3. Served(c) \subseteq All
    <3>1. Over(c) \in 0..MaxCount
      BY ServedFinite
    <3>2. 1..Over(c) \subseteq Trids
      BY <3>1, MadServerAssumption DEF Trids
    <3>3. QED
      BY <3>2 DEF Served
  <2>4. Cardinality(Served(c)) <= Cardinality(All) /\ Cardinality(Served(c)) \in Nat
    BY <2>2, <2>3, ServedFinite, FS_Subset
  <2>5. replied[c] <= Cardinality(Served(c)) /\ replied[c] \in Nat
    BY DEF CountedOnce, TypeOK
  <2>6. QED
    BY <2>2, <2>4, <2>5
<1>4. QED
  BY <1>1, <1>2, <1>3, TypeCorrect, PTL DEF Spec

------------------------------------------------------------------------------
(***************************************************************************)
(* PerfCounters.  Sums over ports first.                                   *)
(***************************************************************************)
\* A set of numbers has a least one.
LEMMA LeastOf ==
  ASSUME NEW T, T \subseteq Nat, T # {}
  PROVE \E m \in T : \A k \in T : m <= k
<1> DEFINE F == {0..k : k \in T}
<1>1. F \subseteq FiniteSubsetsOf(Nat) /\ F # {}
  <2>1. ASSUME NEW k \in T PROVE IsFiniteSet(0..k) /\ 0..k \subseteq Nat
    BY FS_Interval
  <2> QED BY <2>1 DEF FiniteSubsetsOf
<1>2. \E x \in F : \A y \in F : ~(<<y, x>> \in StrictSubsetOrdering(Nat))
  <2> HIDE DEF F
  <2> QED BY <1>1, FS_StrictSubsetOrderingWellFounded, WFMin
<1>3. PICK m \in T : \A k \in T : ~(<<0..k, 0..m>> \in StrictSubsetOrdering(Nat))
  BY <1>2
<1>4. ASSUME NEW k \in T PROVE m <= k
  <2>1. SUFFICES ASSUME k < m PROVE FALSE
    OBVIOUS
  <2>2. 0..k \subseteq 0..m /\ 0..k # 0..m /\ 0..k \in SUBSET Nat /\ 0..m \in SUBSET Nat
    <3>1. m \in 0..m /\ m \notin 0..k BY <2>1
    <3> QED BY <2>1, <3>1
  <2>3. <<0..k, 0..m>> \in StrictSubsetOrdering(Nat)
    BY <2>2 DEF StrictSubsetOrdering
  <2> QED BY <2>3, <1>3
<1> QED BY <1>4

\* The member that a sum begins with.
Pick(s) == CHOOSE x \in s : TRUE

\* What a sum over s is, if g has those over smaller sets.
SumFrom(g, f, k, s) == IF s = {} THEN 0 ELSE g[s \ {Pick(s)}] + f[Pick(s)][k]

\* g is the recursive function of SumOver, for the subsets of S of at most n ports.
Upto(S, n) == {s \in SUBSET S : Cardinality(s) <= n}
IsSum(g, f, k, S, n) == g = [s \in Upto(S, n) |-> SumFrom(g, f, k, s)]

LEMMA SmallerSets ==
  ASSUME NEW S, IsFiniteSet(S), NEW s \in SUBSET S, s # {}
  PROVE  /\ Pick(s) \in s /\ s \ {Pick(s)} \in SUBSET S
         /\ Cardinality(s) \in Nat /\ Cardinality(s) > 0
         /\ Cardinality(s \ {Pick(s)}) = Cardinality(s) - 1
<1>1. Pick(s) \in s
  BY DEF Pick
<1>2. IsFiniteSet(s)
  BY FS_Subset
<1>3. Cardinality(s) \in Nat /\ Cardinality(s) # 0
  BY <1>2, FS_CardinalityType, FS_EmptySet
<1>4. Cardinality(s \ {Pick(s)}) = Cardinality(s) - 1
  BY <1>1, <1>2, FS_RemoveElement
<1> QED BY <1>1, <1>3, <1>4

LEMMA SumExists ==
  ASSUME NEW S, IsFiniteSet(S), NEW f, NEW k, NEW n \in Nat
  PROVE  \E g : IsSum(g, f, k, S, n)
<1> DEFINE T == {m \in 0..n : ~\E g : IsSum(g, f, k, S, m)}
<1>1. SUFFICES ASSUME T # {} PROVE FALSE
  <2>1. n \in 0..n
    OBVIOUS
  <2> QED BY <2>1
<1>2. PICK m \in T : \A j \in T : m <= j
  <2>1. T \subseteq Nat
    OBVIOUS
  <2> HIDE DEF T
  <2> QED BY <1>1, <2>1, LeastOf
<1>3. m \in 0..n /\ ~\E g : IsSum(g, f, k, S, m)
  BY <1>2
<1>4. CASE m = 0
  <2>1. \A s \in Upto(S, 0) : s = {}
    <3> TAKE s \in Upto(S, 0)
    <3>1. s # {} => Cardinality(s) \in Nat /\ Cardinality(s) > 0
      BY SmallerSets DEF Upto
    <3> QED BY <3>1 DEF Upto
  <2> DEFINE g == [s \in Upto(S, 0) |-> 0]
  <2>2. g = [s \in Upto(S, 0) |-> SumFrom(g, f, k, s)]
    BY <2>1 DEF SumFrom
  <2> HIDE DEF g
  <2>3. IsSum(g, f, k, S, 0)
    BY <2>2 DEF IsSum
  <2> QED BY <1>3, <1>4, <2>3
<1>5. CASE m # 0
  <2>1. m - 1 \in 0..n /\ ~(m <= m - 1)
    BY <1>3, <1>5
  <2>2. m - 1 \notin T
    <3> HIDE DEF T
    <3> QED BY <1>2, <2>1
  <2>3. PICK h : IsSum(h, f, k, S, m - 1)
    BY <2>1, <2>2
  <2> DEFINE g == [s \in Upto(S, m) |-> SumFrom(h, f, k, s)]
  <2>4. ASSUME NEW s \in Upto(S, m)
        PROVE  SumFrom(h, f, k, s) = SumFrom(g, f, k, s)
    <3>1. CASE s = {}
      BY <3>1 DEF SumFrom
    <3>2. CASE s # {}
      <4> DEFINE r == s \ {Pick(s)}
      <4>1. s \in SUBSET S /\ Cardinality(s) <= m
        BY DEF Upto
      <4>2. r \in SUBSET S /\ Cardinality(s) \in Nat /\ Cardinality(r) = Cardinality(s) - 1
        BY <3>2, <4>1, SmallerSets
      <4>3. Cardinality(r) <= m - 1 /\ Cardinality(r) <= m
        BY <1>3, <4>1, <4>2
      <4>4. r \in Upto(S, m - 1) /\ r \in Upto(S, m)
        BY <4>2, <4>3 DEF Upto
      <4> HIDE DEF r
      <4>5. h[r] = SumFrom(h, f, k, r)
        BY <2>3, <4>4 DEF IsSum
      <4>6. g[r] = SumFrom(h, f, k, r)
        BY <4>4
      <4>7. h[r] = g[r]
        BY <4>5, <4>6
      <4> HIDE DEF g
      <4> QED BY <3>2, <4>7 DEF SumFrom, r
    <3> QED BY <3>1, <3>2
  <2>5. g = [s \in Upto(S, m) |-> SumFrom(g, f, k, s)]
    BY <2>4
  <2> HIDE DEF g
  <2>6. IsSum(g, f, k, S, m)
    BY <2>5 DEF IsSum
  <2> QED BY <1>3, <2>6
<1> QED BY <1>4, <1>5

SumsOf(g, f, k, S) == g = [s \in SUBSET S |-> SumFrom(g, f, k, s)]

LEMMA SumIs ==
  ASSUME NEW S, IsFiniteSet(S), NEW f, NEW k
  PROVE  \E g : SumsOf(g, f, k, S) /\ SumOver(f, S, k) = g[S]
<1> DEFINE Is(g) == g = [s \in SUBSET S |-> SumFrom(g, f, k, s)]
<1>1. Cardinality(S) \in Nat /\ Upto(S, Cardinality(S)) = SUBSET S
  <2>1. Cardinality(S) \in Nat
    BY FS_CardinalityType
  <2>2. \A s \in SUBSET S : Cardinality(s) <= Cardinality(S)
    BY FS_Subset
  <2> QED BY <2>1, <2>2 DEF Upto
<1>2. \E g : Is(g)
  <2>1. \E g : IsSum(g, f, k, S, Cardinality(S))
    BY <1>1, SumExists
  <2> QED BY <1>1, <2>1 DEF IsSum
<1>3. SumOver(f, S, k) = (CHOOSE g : Is(g))[S]
  BY DEF SumOver, FoldSet, MapThenFoldSet, SumFrom, Pick
<1> HIDE DEF Is
<1>4. Is(CHOOSE g : Is(g))
  BY <1>2
<1> QED BY <1>3, <1>4 DEF Is, SumsOf

\* The sum over nothing, and over a set of which one member is added last.
LEMMA SumStep ==
  ASSUME NEW S, IsFiniteSet(S), NEW f, NEW k
  PROVE  /\ S = {} => SumOver(f, S, k) = 0
         /\ S # {} => SumOver(f, S, k) = SumOver(f, S \ {Pick(S)}, k) + f[Pick(S)][k]
<1>1. PICK g : SumsOf(g, f, k, S) /\ SumOver(f, S, k) = g[S]
  BY SumIs
<1>2. \A s \in SUBSET S : g[s] = SumFrom(g, f, k, s)
  BY <1>1 DEF SumsOf
<1>0. SumOver(f, S, k) = SumFrom(g, f, k, S)
  BY <1>1, <1>2
<1>3. CASE S = {}
  BY <1>0, <1>3 DEF SumFrom
<1>4. CASE S # {}
  <2> DEFINE R == S \ {Pick(S)}
  <2>1. IsFiniteSet(R) /\ R \in SUBSET S
    BY FS_RemoveElement
  <2> HIDE DEF R
  <2>2. PICK h : SumsOf(h, f, k, R) /\ SumOver(f, R, k) = h[R]
    BY <2>1, SumIs
  <2>0. \A s \in SUBSET R : h[s] = SumFrom(h, f, k, s)
    BY <2>2 DEF SumsOf
  <2> DEFINE T == {n \in 0..Cardinality(R) : \E s \in SUBSET R : Cardinality(s) = n /\ h[s] # g[s]}
  <2>3. T = {}
    <3>1. SUFFICES ASSUME T # {} PROVE FALSE
      OBVIOUS
    <3>2. PICK n \in T : \A m \in T : n <= m
      <4>1. T \subseteq Nat
        OBVIOUS
      <4> HIDE DEF T
      <4> QED BY <3>1, <4>1, LeastOf
    <3>3. PICK s \in SUBSET R : Cardinality(s) = n /\ h[s] # g[s]
      BY <3>2
    <3>4. h[s] = SumFrom(h, f, k, s) /\ g[s] = SumFrom(g, f, k, s)
      BY <1>2, <2>0, <2>1
    <3>5. s # {}
      BY <3>3, <3>4 DEF SumFrom
    <3> DEFINE r == s \ {Pick(s)}
    <3>6. r \in SUBSET R /\ Cardinality(s) \in Nat /\ Cardinality(s) > 0 /\ Cardinality(r) = Cardinality(s) - 1
      BY <2>1, <3>5, SmallerSets
    <3>7. h[r] # g[r]
      BY <3>3, <3>4, <3>5 DEF SumFrom
    <3> HIDE DEF r
    <3>8. Cardinality(R) \in Nat /\ Cardinality(r) <= Cardinality(R)
      BY <2>1, <3>6, FS_Subset, FS_CardinalityType
    <3>9. Cardinality(r) \in 0..Cardinality(R)
      BY <3>6, <3>8
    <3>10. Cardinality(r) \in T
      BY <3>6, <3>7, <3>9
    <3>11. ~(n <= Cardinality(r))
      BY <3>3, <3>6
    <3> HIDE DEF T
    <3> QED BY <3>2, <3>10, <3>11
  <2>4. h[R] = g[R]
    <3>1. Cardinality(R) \in 0..Cardinality(R)
      BY <2>1, FS_CardinalityType
    <3> QED BY <2>3, <3>1
  <2> QED BY <1>0, <1>4, <2>2, <2>4 DEF SumFrom, R
<1> QED BY <1>3, <1>4

LEMMA SumIsNat ==
  ASSUME NEW S, IsFiniteSet(S), NEW f, NEW k, \A p \in S : f[p][k] \in Nat
  PROVE  \A s \in SUBSET S : SumOver(f, s, k) \in Nat
<1> DEFINE T == {n \in Nat : \E s \in SUBSET S : Cardinality(s) = n /\ ~(SumOver(f, s, k) \in Nat)}
<1>1. T = {}
  <2>1. SUFFICES ASSUME T # {} PROVE FALSE
    OBVIOUS
  <2>2. PICK n \in T : \A m \in T : n <= m
    <3>1. T \subseteq Nat
      OBVIOUS
    <3> HIDE DEF T
    <3> QED BY <2>1, <3>1, LeastOf
  <2>3. PICK s \in SUBSET S : Cardinality(s) = n /\ ~(SumOver(f, s, k) \in Nat)
    BY <2>2
  <2> DEFINE r == s \ {Pick(s)}
  <2>4. IsFiniteSet(s)
    BY FS_Subset
  <2>5. s # {} /\ SumOver(f, s, k) = SumOver(f, r, k) + f[Pick(s)][k]
    <3>1. /\ s = {} => SumOver(f, s, k) = 0
          /\ s # {} => SumOver(f, s, k) = SumOver(f, r, k) + f[Pick(s)][k]
      BY <2>4, SumStep
    <3> QED BY <2>3, <3>1
  <2>6. /\ Pick(s) \in S /\ r \in SUBSET S
        /\ Cardinality(s) \in Nat /\ Cardinality(s) > 0 /\ Cardinality(r) = Cardinality(s) - 1
    BY <2>5, SmallerSets
  <2> HIDE DEF r
  <2>7. ~(SumOver(f, r, k) \in Nat)
    BY <2>3, <2>5, <2>6
  <2>8. Cardinality(r) \in Nat /\ ~(n <= Cardinality(r))
    BY <2>3, <2>6
  <2>9. Cardinality(r) \in T
    BY <2>6, <2>7, <2>8
  <2> HIDE DEF T
  <2> QED BY <2>2, <2>8, <2>9
<1>2. ASSUME NEW s \in SUBSET S PROVE Cardinality(s) \in Nat
  BY FS_Subset, FS_CardinalityType
<1> QED BY <1>1, <1>2

\* It does not matter which member is added last.
LEMMA SumWithout ==
  ASSUME NEW S, IsFiniteSet(S), NEW f, NEW k, \A p \in S : f[p][k] \in Nat, NEW z \in S
  PROVE  SumOver(f, S, k) = SumOver(f, S \ {z}, k) + f[z][k]
<1> DEFINE Right(s, x) == SumOver(f, s, k) = SumOver(f, s \ {x}, k) + f[x][k]
           T == {n \in Nat : \E s \in SUBSET S : Cardinality(s) = n /\ \E x \in s : ~Right(s, x)}
<1>1. T = {}
  <2>1. SUFFICES ASSUME T # {} PROVE FALSE
    OBVIOUS
  <2>2. PICK n \in T : \A m \in T : n <= m
    <3>1. T \subseteq Nat
      OBVIOUS
    <3> HIDE DEF T
    <3> QED BY <2>1, <3>1, LeastOf
  <2>3. PICK s \in SUBSET S : Cardinality(s) = n /\ \E x \in s : ~Right(s, x)
    <3> HIDE DEF Right
    <3> QED BY <2>2
  <2>4. PICK x \in s : ~Right(s, x)
    BY <2>3
  <2> DEFINE y == Pick(s)
  <2>5. IsFiniteSet(s) /\ s # {} /\ y \in s
    BY FS_Subset DEF Pick
  <2>6. SumOver(f, s, k) = SumOver(f, s \ {y}, k) + f[y][k]
    BY <2>5, SumStep
  <2> HIDE DEF y
  <2>7. x # y
    BY <2>4, <2>6
  <2>8. ASSUME NEW u \in s
        PROVE  \A w \in s \ {u} : Right(s \ {u}, w)
    <3>1. Cardinality(s \ {u}) \in Nat /\ ~(n <= Cardinality(s \ {u}))
      <4>1. Cardinality(s \ {u}) = Cardinality(s) - 1 /\ Cardinality(s) \in Nat
        BY <2>5, FS_RemoveElement, FS_CardinalityType
      <4>2. Cardinality(s \ {u}) \in Nat
        BY <2>5, FS_RemoveElement, FS_CardinalityType
      <4> QED BY <2>3, <4>1, <4>2
    <3>2. Cardinality(s \ {u}) \notin T
      <4> HIDE DEF T
      <4> QED BY <2>2, <3>1
    <3>3. s \ {u} \in SUBSET S
      OBVIOUS
    <3> HIDE DEF Right
    <3> QED BY <3>1, <3>2, <3>3
  <2>9. /\ SumOver(f, s \ {y}, k) = SumOver(f, (s \ {y}) \ {x}, k) + f[x][k]
        /\ SumOver(f, s \ {x}, k) = SumOver(f, (s \ {x}) \ {y}, k) + f[y][k]
    BY <2>5, <2>7, <2>8
  <2>10. (s \ {y}) \ {x} = (s \ {x}) \ {y}
    OBVIOUS
  <2> DEFINE a == SumOver(f, (s \ {y}) \ {x}, k)
  <2>11. a \in Nat /\ f[x][k] \in Nat /\ f[y][k] \in Nat
    <3>1. (s \ {y}) \ {x} \in SUBSET S
      OBVIOUS
    <3> QED BY <2>5, <3>1, SumIsNat
  <2>12. /\ SumOver(f, s, k) = (a + f[x][k]) + f[y][k]
         /\ SumOver(f, s \ {x}, k) = a + f[y][k]
    BY <2>6, <2>9, <2>10
  <2> HIDE DEF a
  <2>13. Right(s, x)
    BY <2>11, <2>12
  <2> QED BY <2>4, <2>13
<1>2. ASSUME NEW s \in SUBSET S PROVE Cardinality(s) \in Nat
  BY FS_Subset, FS_CardinalityType
<1>3. \A s \in SUBSET S : \A x \in s : Right(s, x)
  <2> HIDE DEF Right
  <2> QED BY <1>1, <1>2
<1>4. S \in SUBSET S
  OBVIOUS
<1> QED BY <1>3, <1>4

\* What is added is what the sum grows by, and a sum is at least each of its parts.
LEMMA SumWith ==
  ASSUME NEW S, IsFiniteSet(S), NEW x, x \notin S, NEW f, NEW k,
         \A p \in S \cup {x} : f[p][k] \in Nat
  PROVE  /\ SumOver(f, S, k) \in Nat
         /\ SumOver(f, S \cup {x}, k) = SumOver(f, S, k) + f[x][k]
<1>1. IsFiniteSet(S \cup {x}) /\ S \cup {x} \in SUBSET (S \cup {x}) /\ S \in SUBSET (S \cup {x})
  BY FS_AddElement
<1>2. (S \cup {x}) \ {x} = S
  OBVIOUS
<1>3. SumOver(f, S, k) \in Nat
  BY <1>1, SumIsNat
<1>4. SumOver(f, S \cup {x}, k) = SumOver(f, (S \cup {x}) \ {x}, k) + f[x][k]
  <2> DEFINE A == S \cup {x}
  <2>1. IsFiniteSet(A) /\ A \in SUBSET A /\ x \in A /\ \A p \in A : f[p][k] \in Nat
    BY <1>1
  <2> HIDE DEF A
  <2>2. SumOver(f, A, k) = SumOver(f, A \ {x}, k) + f[x][k]
    BY <2>1, SumWithout
  <2> QED BY <2>2 DEF A
<1> QED BY <1>2, <1>3, <1>4

LEMMA SumIsMore ==
  ASSUME NEW S, IsFiniteSet(S), NEW x \in S, NEW f, NEW k, \A p \in S : f[p][k] \in Nat
  PROVE  SumOver(f, S, k) \in Nat /\ f[x][k] <= SumOver(f, S, k)
<1>1. S \in SUBSET S /\ S \ {x} \in SUBSET S
  OBVIOUS
<1>2. SumOver(f, S, k) \in Nat /\ SumOver(f, S \ {x}, k) \in Nat
  BY <1>1, SumIsNat
<1>3. SumOver(f, S, k) = SumOver(f, S \ {x}, k) + f[x][k]
  BY SumWithout
<1> QED BY <1>2, <1>3

\* A sum depends on its members only.
LEMMA SumSame ==
  ASSUME NEW S, IsFiniteSet(S), NEW f, NEW g, NEW k, \A p \in S : f[p][k] = g[p][k]
  PROVE  SumOver(f, S, k) = SumOver(g, S, k)
<1> DEFINE T == {n \in Nat : \E s \in SUBSET S : Cardinality(s) = n /\ SumOver(f, s, k) # SumOver(g, s, k)}
<1>1. T = {}
  <2>1. SUFFICES ASSUME T # {} PROVE FALSE
    OBVIOUS
  <2>2. PICK n \in T : \A m \in T : n <= m
    <3>1. T \subseteq Nat
      OBVIOUS
    <3> HIDE DEF T
    <3> QED BY <2>1, <3>1, LeastOf
  <2>3. PICK s \in SUBSET S : Cardinality(s) = n /\ SumOver(f, s, k) # SumOver(g, s, k)
    BY <2>2
  <2> DEFINE r == s \ {Pick(s)}
  <2>4. IsFiniteSet(s)
    BY FS_Subset
  <2>5. /\ s = {} => SumOver(f, s, k) = 0 /\ SumOver(g, s, k) = 0
        /\ s # {} => /\ SumOver(f, s, k) = SumOver(f, r, k) + f[Pick(s)][k]
                     /\ SumOver(g, s, k) = SumOver(g, r, k) + g[Pick(s)][k]
    BY <2>4, SumStep
  <2>6. s # {}
    BY <2>3, <2>5
  <2>7. /\ Pick(s) \in S /\ r \in SUBSET S
        /\ Cardinality(s) \in Nat /\ Cardinality(s) > 0 /\ Cardinality(r) = Cardinality(s) - 1
    BY <2>6, SmallerSets
  <2> HIDE DEF r
  <2>8. SumOver(f, r, k) # SumOver(g, r, k)
    BY <2>3, <2>5, <2>6, <2>7
  <2>9. Cardinality(r) \in Nat /\ ~(n <= Cardinality(r))
    BY <2>3, <2>7
  <2>10. Cardinality(r) \in T
    BY <2>7, <2>8, <2>9
  <2> HIDE DEF T
  <2> QED BY <2>2, <2>9, <2>10
<1>2. Cardinality(S) \in Nat /\ S \in SUBSET S
  BY FS_CardinalityType
<1> QED BY <1>1, <1>2

------------------------------------------------------------------------------
(* Lists of operations. *)

Named == Ports \cup {AllPorts}
Ops == {o \in [op : {"caps", "ports", "read", "reset", "exit"}, port : Nat] :
          o.op \in {"read", "reset"} => o.port \in Named}

LEMMA PortsAre ==
  /\ Ports \subseteq Nat /\ IsFiniteSet(Ports) /\ AllPorts \notin Ports
  /\ StartPort \in 0..1 /\ NumPorts \in Nat \ {0} /\ (PortZero => 0 \in Ports)
  /\ Named \subseteq Nat /\ IsFiniteSet(Named)
<1>1. StartPort \in 0..1 /\ NumPorts \in Nat \ {0} /\ NumPorts < 255 /\ (PortZero => StartPort = 0)
  BY PerfCountersAssumption DEF StartPort, AllPorts
<1>2. IsFiniteSet(Ports)
  BY <1>1, FS_Interval DEF Ports
<1>3. IsFiniteSet(Named)
  BY <1>2, FS_AddElement DEF Named
<1> QED BY <1>1, <1>2, <1>3 DEF Ports, AllPorts, Named

LEMMA OpIs ==
  /\ \A name, p : Op(name, p).op = name /\ Op(name, p).port = p
  /\ \A p \in Named : Op("read", p) \in Ops /\ Op("reset", p) \in Ops
  /\ \A p \in Nat : Op("caps", p) \in Ops /\ Op("ports", p) \in Ops /\ Op("exit", p) \in Ops
  /\ \A o \in Ops : o = Op(o.op, o.port)
BY PortsAre DEF Op, Ops

\* PortList has every port, once.
LEMMA PortListIs ==
  /\ PortList \in Seq(Ports) /\ Len(PortList) \in Nat \ {0}
  /\ \A p \in Ports : \E j \in 1..Len(PortList) : PortList[j] = p
  /\ \A i, j \in 1..Len(PortList) : PortList[i] = PortList[j] => i = j
<1> DEFINE n == NumPorts + 1 - StartPort
<1>1. n \in Nat \ {0} /\ StartPort \in Nat /\ NumPorts \in Nat
  BY PortsAre
<1>2. PortList = [j \in 1..n |-> StartPort + j - 1]
  BY DEF PortList
<1> HIDE DEF n
<1>3. \A j \in 1..n : StartPort + j - 1 \in StartPort..NumPorts
  BY <1>1 DEF n
<1>4. PortList \in Seq(Ports) /\ Len(PortList) = n
  BY <1>1, <1>2, <1>3 DEF Ports
<1>5. ASSUME NEW p \in Ports PROVE \E j \in 1..n : PortList[j] = p
  <2>1. p \in StartPort..NumPorts
    BY DEF Ports
  <2>2. p - StartPort + 1 \in 1..n /\ StartPort + (p - StartPort + 1) - 1 = p
    BY <1>1, <2>1 DEF n
  <2> QED BY <1>2, <2>2
<1>6. \A i, j \in 1..n : PortList[i] = PortList[j] => i = j
  BY <1>1, <1>2
<1> QED BY <1>1, <1>4, <1>5, <1>6

\* What a tool was asked to do.
LEMMA OptionsAre ==
  ASSUME scenario \in Scenarios, NEW t \in Tools
  PROVE  /\ Understood(Opt(t)) /\ Opt(t).runs \in Nat
         /\ IsPerfquery(t) => /\ Opt(t).ports \in Seq(Named) /\ InfoPort(t) \in Named
                              /\ Opt(t).reset \in {"no", "after", "only"}
         /\ ~IsPerfquery(t) => Opt(t).clear \subseteq Kinds /\ Opt(t).countersOnly \in BOOLEAN
<1>1. Understood(Opt(t))
  BY PerfCountersAssumption DEF Tools, Opt
<1>2. ASSUME IsPerfquery(t)
      PROVE  /\ Opt(t).ports \in Seq(Named) /\ InfoPort(t) \in Named
             /\ Opt(t).reset \in {"no", "after", "only"}
  <2>1. /\ Opt(t).ports \in Seq(Named) /\ Opt(t).reset \in {"no", "after", "only"}
        /\ Opt(t).self \in Ports \cup {0}
        /\ PortZero \/ Opt(t).self # 0 \/ Opt(t).ports # <<>> \/ Opt(t).all
    BY <1>1, <1>2 DEF Understood, IsPerfquery, Named
  <2>2. CASE Opt(t).self # 0
    BY <2>1, <2>2 DEF InfoPort, Named
  <2>3. CASE Opt(t).self = 0 /\ Opt(t).ports # <<>>
    <3>1. Opt(t).ports[1] \in Named
      BY <2>1, <2>3
    <3>2. InfoPort(t) = Opt(t).ports[1]
      BY <2>3 DEF InfoPort
    <3> QED BY <2>1, <3>1, <3>2
  <2>4. CASE Opt(t).self = 0 /\ Opt(t).ports = <<>> /\ Opt(t).all
    <3>1. InfoPort(t) = AllPorts
      BY <2>4 DEF InfoPort
    <3> QED BY <2>1, <3>1 DEF Named
  <2>5. CASE Opt(t).self = 0 /\ Opt(t).ports = <<>> /\ ~Opt(t).all
    BY <2>1, <2>5, PortsAre DEF InfoPort, Named
  <2> QED BY <2>1, <2>2, <2>3, <2>4, <2>5
<1> QED BY <1>1, <1>2 DEF Understood, IsPerfquery

Once(s) == \A i, j \in 1..Len(s) : s[i] = s[j] => i = j

LEMMA LoopIs ==
  ASSUME scenario \in Scenarios, NEW t \in Tools, IsPerfquery(t)
  PROVE  /\ Loop(t) \in Seq(Named)
         /\ PortsDiffer => Once(Loop(t))
<1>1. Opt(t).ports \in Seq(Named) /\ InfoPort(t) \in Named
  BY OptionsAre
<1>2. <<InfoPort(t)>> \in Seq(Named) /\ Once(<<InfoPort(t)>>)
  BY <1>1 DEF Once
<1>3. PortList \in Seq(Named) /\ Once(PortList)
  BY PortListIs DEF Once, Named
<1>4. PortsDiffer => Once(Opt(t).ports)
  BY DEF PortsDiffer, Once, Opt, Tools, IsPerfquery
<1> QED BY <1>1, <1>2, <1>3, <1>4 DEF Loop

\* A list that reads the ports of A and then resets those of B, perhaps after a question
\* for the ports.
Planned(q, A, B) ==
  \E n \in {0, 1} :
    /\ q \in Seq(Ops) /\ Len(q) = n + Len(A) + Len(B)
    /\ n = 1 => q[1] = Op("ports", 0)
    /\ \A i \in 1..Len(A) : q[n + i] = Op("read", A[i])
    /\ \A i \in 1..Len(B) : q[n + Len(A) + i] = Op("reset", B[i])

LEMMA PlansArePlanned ==
  ASSUME NEW A \in Seq(Named), NEW B \in Seq(Named)
  PROVE  /\ Planned(ForPorts("read", A) \o ForPorts("reset", B), A, B)
         /\ Planned(<<Op("ports", 0)>> \o ForPorts("read", A) \o ForPorts("reset", B), A, B)
<1> DEFINE r == ForPorts("read", A)
           s == ForPorts("reset", B)
           o == <<Op("ports", 0)>>
<1>1. /\ r \in Seq(Ops) /\ Len(r) = Len(A) /\ \A i \in 1..Len(A) : r[i] = Op("read", A[i])
      /\ s \in Seq(Ops) /\ Len(s) = Len(B) /\ \A i \in 1..Len(B) : s[i] = Op("reset", B[i])
  BY OpIs DEF ForPorts
<1>2. o \in Seq(Ops) /\ Len(o) = 1 /\ o[1] = Op("ports", 0)
  BY OpIs
<1>3. Len(A) \in Nat /\ Len(B) \in Nat
  OBVIOUS
<1> HIDE DEF r, s, o
<1> DEFINE rs == r \o s
           q == o \o rs
<1>4. /\ rs \in Seq(Ops) /\ Len(rs) = Len(A) + Len(B)
      /\ \A i \in 1..Len(A) : rs[i] = Op("read", A[i])
      /\ \A i \in 1..Len(B) : rs[Len(A) + i] = Op("reset", B[i])
  <2>1. /\ rs \in Seq(Ops) /\ Len(rs) = Len(r) + Len(s)
        /\ \A i \in 1..(Len(r) + Len(s)) : rs[i] = IF i <= Len(r) THEN r[i] ELSE s[i - Len(r)]
    <3>1. r \in Seq(Ops) /\ s \in Seq(Ops)
      BY <1>1
    <3> QED BY <3>1, ConcatProperties
  <2> HIDE DEF rs
  <2>2. rs \in Seq(Ops) /\ Len(rs) = Len(A) + Len(B)
    BY <1>1, <2>1
  <2>3. ASSUME NEW i \in 1..Len(A) PROVE rs[i] = Op("read", A[i])
    <3>1. i \in 1..(Len(r) + Len(s)) /\ i <= Len(r)
      BY <1>1, <1>3
    <3> QED BY <1>1, <2>1, <3>1
  <2>4. ASSUME NEW i \in 1..Len(B) PROVE rs[Len(A) + i] = Op("reset", B[i])
    <3>1. Len(A) + i \in 1..(Len(r) + Len(s)) /\ ~(Len(A) + i <= Len(r)) /\ Len(A) + i - Len(r) = i
      BY <1>1, <1>3
    <3> QED BY <1>1, <2>1, <3>1
  <2> QED BY <2>2, <2>3, <2>4
<1> HIDE DEF rs
<1>5. /\ q \in Seq(Ops) /\ Len(q) = 1 + Len(A) + Len(B)
      /\ q[1] = Op("ports", 0)
      /\ \A i \in 1..(Len(A) + Len(B)) : q[1 + i] = rs[i]
  <2>1. /\ q \in Seq(Ops) /\ Len(q) = Len(o) + Len(rs)
        /\ \A i \in 1..(Len(o) + Len(rs)) : q[i] = IF i <= Len(o) THEN o[i] ELSE rs[i - Len(o)]
    <3>1. o \in Seq(Ops) /\ rs \in Seq(Ops)
      BY <1>2, <1>4
    <3> QED BY <3>1, ConcatProperties
  <2> HIDE DEF q
  <2>2. \A i \in 1..(Len(A) + Len(B)) : 1 + i \in 1..(1 + Len(A) + Len(B)) /\ (1 + i) - 1 = i /\ ~(1 + i <= 1)
    BY <1>3
  <2>3. 1 \in 1..(1 + Len(A) + Len(B))
    BY <1>3
  <2> QED BY <1>2, <1>3, <1>4, <2>1, <2>2, <2>3
<1>6. o \o r \o s = q
  BY <1>1, <1>2, ConcatAssociative DEF rs
<1> HIDE DEF q
<1>7. Planned(rs, A, B)
  <2>1. /\ Len(rs) = 0 + Len(A) + Len(B)
        /\ \A i \in 1..Len(A) : rs[0 + i] = Op("read", A[i])
        /\ \A i \in 1..Len(B) : rs[0 + Len(A) + i] = Op("reset", B[i])
    BY <1>3, <1>4
  <2> QED BY <1>4, <2>1 DEF Planned
<1>8. Planned(q, A, B)
  <2>1. \A i \in 1..Len(A) : i \in 1..(Len(A) + Len(B))
    BY <1>3
  <2>2. \A i \in 1..Len(B) : Len(A) + i \in 1..(Len(A) + Len(B)) /\ 1 + (Len(A) + i) = 1 + Len(A) + i
    BY <1>3
  <2>3. \A i \in 1..Len(A) : q[1 + i] = Op("read", A[i])
    BY <1>4, <1>5, <2>1
  <2>4. \A i \in 1..Len(B) : q[1 + Len(A) + i] = Op("reset", B[i])
    BY <1>4, <1>5, <2>2
  <2> QED BY <1>5, <2>3, <2>4 DEF Planned
<1>9. Planned(r \o s, A, B) /\ Planned(o \o r \o s, A, B)
  BY <1>6, <1>7, <1>8 DEF rs
<1> QED BY <1>9 DEF r, s, o

\* The recursive function of FlattenSeq.
Flattens(f, s, n) == f = [i \in 1..n |-> IF i = 1 THEN s[i] ELSE f[i-1] \o s[i]]

LEMMA FlattenExists ==
  ASSUME NEW s, NEW n \in Nat
  PROVE  \E f : Flattens(f, s, n)
<1> DEFINE T == {m \in 0..n : ~\E f : Flattens(f, s, m)}
<1>1. SUFFICES ASSUME T # {} PROVE FALSE
  <2>1. n \in 0..n
    OBVIOUS
  <2> QED BY <2>1
<1>2. PICK m \in T : \A j \in T : m <= j
  <2>1. T \subseteq Nat
    OBVIOUS
  <2> HIDE DEF T
  <2> QED BY <1>1, <2>1, LeastOf
<1>3. m \in 0..n /\ ~\E f : Flattens(f, s, m)
  BY <1>2
<1>4. CASE m = 0
  <2> DEFINE f == [i \in 1..0 |-> s]
  <2>1. f = [i \in 1..0 |-> IF i = 1 THEN s[i] ELSE f[i-1] \o s[i]]
    OBVIOUS
  <2> HIDE DEF f
  <2>2. Flattens(f, s, 0)
    BY <2>1 DEF Flattens
  <2> QED BY <1>3, <1>4, <2>2
<1>5. CASE m # 0
  <2>1. m - 1 \in 0..n /\ ~(m <= m - 1)
    BY <1>3, <1>5
  <2>2. m - 1 \notin T
    <3> HIDE DEF T
    <3> QED BY <1>2, <2>1
  <2>3. PICK g : Flattens(g, s, m - 1)
    BY <2>1, <2>2
  <2> DEFINE f == [i \in 1..m |-> IF i = 1 THEN s[i] ELSE g[i-1] \o s[i]]
  <2>4. ASSUME NEW i \in 1..m, i # 1
        PROVE  g[i-1] = f[i-1]
    <3> DEFINE j == i - 1
    <3>1. j \in 1..(m - 1) /\ j \in 1..m
      BY <1>3, <2>4
    <3> HIDE DEF j
    <3>2. g[j] = IF j = 1 THEN s[j] ELSE g[j-1] \o s[j]
      BY <2>3, <3>1 DEF Flattens
    <3>3. f[j] = IF j = 1 THEN s[j] ELSE g[j-1] \o s[j]
      BY <3>1
    <3> HIDE DEF f
    <3>4. g[j] = f[j]
      BY <3>2, <3>3
    <3> QED BY <3>4 DEF j
  <2>5. f = [i \in 1..m |-> IF i = 1 THEN s[i] ELSE f[i-1] \o s[i]]
    BY <2>4
  <2> HIDE DEF f
  <2>6. Flattens(f, s, m)
    BY <2>5 DEF Flattens
  <2> QED BY <1>3, <2>6
<1> QED BY <1>4, <1>5

LEMMA FlattenIs ==
  ASSUME NEW s, Len(s) \in Nat \ {0}
  PROVE  \E f : Flattens(f, s, Len(s)) /\ FlattenSeq(s) = f[Len(s)]
<1> DEFINE Is(f) == f = [i \in 1..Len(s) |-> IF i = 1 THEN s[i] ELSE f[i-1] \o s[i]]
<1>1. \E f : Is(f)
  BY FlattenExists DEF Flattens
<1>2. FlattenSeq(s) = (CHOOSE f : Is(f))[Len(s)]
  BY DEF FlattenSeq
<1> HIDE DEF Is
<1>3. Is(CHOOSE f : Is(f))
  BY <1>1
<1> QED BY <1>2, <1>3 DEF Is, Flattens

\* q reads the first n ports, and resets each after it has been read, if c.
Visits(q, c, n) ==
  /\ q \in Seq(Ops) /\ Len(q) = IF c THEN 2 * n ELSE n
  /\ c => \A j \in 1..n : q[2*j - 1] = Op("read", PortList[j]) /\ q[2*j] = Op("reset", PortList[j])
  /\ ~c => \A j \in 1..n : q[j] = Op("read", PortList[j])

LEMMA ReadThenReset ==
  ASSUME NEW p \in Named, NEW x, x = <<Op("read", p)>> \o <<Op("reset", p)>>
  PROVE  x \in Seq(Ops) /\ Len(x) = 2 /\ x[1] = Op("read", p) /\ x[2] = Op("reset", p)
<1> DEFINE a == <<Op("read", p)>>
           b == <<Op("reset", p)>>
<1>1. /\ a \in Seq(Ops) /\ Len(a) = 1 /\ a[1] = Op("read", p)
      /\ b \in Seq(Ops) /\ Len(b) = 1 /\ b[1] = Op("reset", p)
  BY OpIs
<1>2. x = a \o b
  OBVIOUS
<1> HIDE DEF a, b
<1>3. /\ a \o b \in Seq(Ops) /\ Len(a \o b) = Len(a) + Len(b)
      /\ \A i \in 1..(Len(a) + Len(b)) : (a \o b)[i] = IF i <= Len(a) THEN a[i] ELSE b[i - Len(a)]
  <2>1. a \in Seq(Ops) /\ b \in Seq(Ops)
    BY <1>1
  <2> QED BY <2>1, ConcatProperties
<1>4. /\ x \in Seq(Ops) /\ Len(x) = 2
      /\ \A i \in 1..2 : x[i] = IF i <= 1 THEN a[i] ELSE b[i - 1]
  <2>1. Len(a) + Len(b) = 2
    BY <1>1
  <2> QED BY <1>1, <1>2, <1>3, <2>1
<1>5. x[1] = a[1] /\ x[2] = b[1]
  BY <1>4
<1> QED BY <1>1, <1>4, <1>5

\* One more port.
LEMMA VisitsMore ==
  ASSUME NEW n \in Nat, n < Len(PortList), NEW q, NEW c \in BOOLEAN, Visits(q, c, n), NEW x,
         x = IF c THEN <<Op("read", PortList[n+1])>> \o <<Op("reset", PortList[n+1])>>
             ELSE <<Op("read", PortList[n+1])>>
  PROVE  Visits(q \o x, c, n + 1)
<1>0. n + 1 \in 1..Len(PortList) /\ PortList[n+1] \in Named
  BY PortListIs DEF Named
<1>1. q \in Seq(Ops)
  BY DEF Visits
<1>3. CASE c
  <2>1. /\ x \in Seq(Ops) /\ Len(x) = 2 /\ x[1] = Op("read", PortList[n+1])
        /\ x[2] = Op("reset", PortList[n+1])
    BY <1>0, <1>3, ReadThenReset
  <2>2. Len(q) = 2 * n /\ \A j \in 1..n : q[2*j - 1] = Op("read", PortList[j]) /\ q[2*j] = Op("reset", PortList[j])
    BY <1>3 DEF Visits
  <2>3. /\ q \o x \in Seq(Ops) /\ Len(q \o x) = Len(q) + Len(x)
        /\ \A i \in 1..(Len(q) + Len(x)) : (q \o x)[i] = IF i <= Len(q) THEN q[i] ELSE x[i - Len(q)]
    BY <1>1, <2>1, ConcatProperties
  <2> DEFINE r == q \o x
  <2> HIDE DEF r
  <2>4. /\ r \in Seq(Ops) /\ Len(r) = 2 * (n + 1)
        /\ \A i \in 1..(2 * n + 2) : r[i] = IF i <= 2 * n THEN q[i] ELSE x[i - 2 * n]
    BY <2>1, <2>2, <2>3 DEF r
  <2>5. ASSUME NEW j \in 1..(n + 1)
        PROVE  r[2*j - 1] = Op("read", PortList[j]) /\ r[2*j] = Op("reset", PortList[j])
    <3>1. CASE j \in 1..n
      <4>1. 2*j - 1 \in 1..(2*n + 2) /\ 2*j \in 1..(2*n + 2) /\ 2*j - 1 <= 2*n /\ 2*j <= 2*n
        BY <3>1
      <4>2. r[2*j - 1] = q[2*j - 1] /\ r[2*j] = q[2*j]
        BY <2>4, <4>1
      <4> QED BY <2>2, <3>1, <4>2
    <3>2. CASE j = n + 1
      <4>1. /\ 2*j - 1 \in 1..(2*n + 2) /\ 2*j \in 1..(2*n + 2) /\ ~(2*j - 1 <= 2*n) /\ ~(2*j <= 2*n)
            /\ 2*j - 1 - 2*n = 1 /\ 2*j - 2*n = 2
        BY <3>2
      <4>2. r[2*j - 1] = x[1] /\ r[2*j] = x[2]
        BY <2>4, <4>1
      <4> QED BY <2>1, <3>2, <4>2
    <3> QED BY <3>1, <3>2
  <2>6. Visits(r, c, n + 1)
    BY <1>3, <2>4, <2>5 DEF Visits
  <2> QED BY <2>6 DEF r
<1>4. CASE ~c
  <2>1. x \in Seq(Ops) /\ Len(x) = 1 /\ x[1] = Op("read", PortList[n+1])
    BY <1>0, <1>4, OpIs
  <2>2. Len(q) = n /\ \A j \in 1..n : q[j] = Op("read", PortList[j])
    BY <1>4 DEF Visits
  <2>3. /\ q \o x \in Seq(Ops) /\ Len(q \o x) = Len(q) + Len(x)
        /\ \A i \in 1..(Len(q) + Len(x)) : (q \o x)[i] = IF i <= Len(q) THEN q[i] ELSE x[i - Len(q)]
    BY <1>1, <2>1, ConcatProperties
  <2> DEFINE r == q \o x
  <2> HIDE DEF r
  <2>4. /\ r \in Seq(Ops) /\ Len(r) = n + 1
        /\ \A i \in 1..(n + 1) : r[i] = IF i <= n THEN q[i] ELSE x[i - n]
    BY <2>1, <2>2, <2>3 DEF r
  <2>5. ASSUME NEW j \in 1..(n + 1)
        PROVE  r[j] = Op("read", PortList[j])
    <3>1. CASE j \in 1..n
      BY <2>2, <2>4, <3>1
    <3>2. CASE j = n + 1
      <4>1. ~(j <= n) /\ j - n = 1
        BY <3>2
      <4> QED BY <2>1, <2>4, <3>2, <4>1
    <3> QED BY <3>1, <3>2
  <2>6. Visits(r, c, n + 1)
    BY <1>4, <2>4, <2>5 DEF Visits
  <2> QED BY <2>6 DEF r
<1> QED BY <1>3, <1>4

\* print_node's loop visits every port.
LEMMA EachPortVisits ==
  ASSUME NEW t, NEW clears \in BOOLEAN
  PROVE  Visits(EachPort(t, clears), clears /\ Opt(t).clear # {}, Len(PortList))
<1> DEFINE c == clears /\ Opt(t).clear # {}
           N == Len(PortList)
           s == [j \in 1..N |->
                   <<Op("read", PortList[j])>> \o (IF clears THEN Clear(t, PortList[j]) ELSE <<>>)]
           X(j) == IF c THEN <<Op("read", PortList[j])>> \o <<Op("reset", PortList[j])>>
                   ELSE <<Op("read", PortList[j])>>
<1>1. EachPort(t, clears) = FlattenSeq(s)
  BY DEF EachPort
<1>2. N \in Nat \ {0} /\ Len(s) = N
  BY PortListIs
<1>3. ASSUME NEW j \in 1..N PROVE s[j] = X(j)
  <2>1. PortList[j] \in Named
    BY PortListIs DEF Named
  <2>2. <<Op("read", PortList[j])>> \in Seq(Ops)
    BY <2>1, OpIs
  <2>3. CASE c
    <3>1. s[j] = <<Op("read", PortList[j])>> \o <<Op("reset", PortList[j])>>
      BY <2>3 DEF Clear
    <3>2. X(j) = <<Op("read", PortList[j])>> \o <<Op("reset", PortList[j])>>
      BY <2>3
    <3> QED BY <3>1, <3>2
  <2>4. CASE ~c
    <3>1. s[j] = <<Op("read", PortList[j])>> \o <<>>
      BY <2>4 DEF Clear
    <3>2. s[j] = <<Op("read", PortList[j])>>
      BY <2>2, <3>1, ConcatEmptySeq
    <3>3. X(j) = <<Op("read", PortList[j])>>
      BY <2>4
    <3> QED BY <3>2, <3>3
  <2> QED BY <2>3, <2>4
<1> HIDE DEF s
<1>4. PICK f : Flattens(f, s, N) /\ FlattenSeq(s) = f[N]
  BY <1>2, FlattenIs
<1>5. \A i \in 1..N : f[i] = IF i = 1 THEN s[i] ELSE f[i-1] \o s[i]
  BY <1>4 DEF Flattens
<1> DEFINE T == {i \in 1..N : ~Visits(f[i], c, i)}
<1>6. T = {}
  <2>1. SUFFICES ASSUME T # {} PROVE FALSE
    OBVIOUS
  <2>2. PICK i \in T : \A j \in T : i <= j
    <3>1. T \subseteq Nat
      BY <1>2
    <3> HIDE DEF T
    <3> QED BY <2>1, <3>1, LeastOf
  <2>3. i \in 1..N /\ ~Visits(f[i], c, i)
    BY <2>2
  <2>4. CASE i = 1
    <3>1. f[1] = X(1)
      BY <1>3, <1>5, <2>3, <2>4
    <3>2. PortList[1] \in Named
      BY <1>2, PortListIs DEF Named
    <3>3. Visits(X(1), c, 1)
      <4>1. CASE c
        <5> DEFINE x == X(1)
        <5>1. X(1) = <<Op("read", PortList[1])>> \o <<Op("reset", PortList[1])>>
          BY <4>1
        <5>2. /\ x \in Seq(Ops) /\ Len(x) = 2 /\ x[1] = Op("read", PortList[1])
              /\ x[2] = Op("reset", PortList[1])
          BY <3>2, <5>1, ReadThenReset
        <5> HIDE DEF x
        <5>3. \A j \in 1..1 : x[2*j - 1] = Op("read", PortList[j]) /\ x[2*j] = Op("reset", PortList[j])
          <6> TAKE j \in 1..1
          <6>1. j = 1 /\ 2*j - 1 = 1 /\ 2*j = 2
            OBVIOUS
          <6> QED BY <5>2, <6>1
        <5>4. Visits(x, c, 1)
          BY <4>1, <5>2, <5>3 DEF Visits
        <5> QED BY <5>4 DEF x
      <4>2. CASE ~c
        BY <3>2, <4>2, OpIs DEF Visits
      <4> QED BY <4>1, <4>2
    <3> QED BY <2>3, <2>4, <3>1, <3>3
  <2>5. CASE i # 1
    <3>1. i - 1 \in 1..N /\ ~(i <= i - 1) /\ i - 1 \in Nat /\ i - 1 < N /\ (i - 1) + 1 = i
      BY <1>2, <2>3, <2>5
    <3>2. i - 1 \notin T
      <4> HIDE DEF T
      <4> QED BY <2>2, <3>1
    <3>3. Visits(f[i-1], c, i - 1)
      BY <3>1, <3>2
    <3>4. f[i] = f[i-1] \o X(i)
      BY <1>3, <1>5, <2>3, <2>5
    <3> DEFINE q == f[i-1]
               n == i - 1
    <3>5. Visits(q, c, n) /\ n \in Nat /\ n < Len(PortList) /\ n + 1 = i
      BY <3>1, <3>3
    <3> HIDE DEF q, n
    <3>6. Visits(q \o X(n+1), c, n + 1)
      BY <3>5, VisitsMore
    <3> QED BY <2>3, <3>4, <3>5, <3>6 DEF q
  <2> QED BY <2>4, <2>5
<1>7. Visits(f[N], c, N)
  BY <1>2, <1>6
<1> QED BY <1>1, <1>4, <1>7

\* An operation is one of p, or of all ports.
Covers(o, name, p) == o.op = name /\ o.port \in {p, AllPorts}

\* What is reset has been read before.
ReadFirst(q) ==
  \A p \in Ports, i \in 1..Len(q) :
    Covers(q[i], "reset", p) => \E j \in 1..(i - 1) : Covers(q[j], "read", p)

\* p is read before it is reset.
Ahead(q, p) ==
  \E i \in 1..Len(q) :
    /\ Covers(q[i], "read", p)
    /\ \A j \in 1..(i - 1) : ~Covers(q[j], "reset", p)

NoCaps(q) == \A i \in 1..Len(q) : q[i].op # "caps"

LEMMA ForPortsIs ==
  ASSUME NEW name
  PROVE  ForPorts(name, <<>>) = <<>> /\ \A p : ForPorts(name, <<p>>) = <<Op(name, p)>>
BY DEF ForPorts

\* What perfquery plans.
Plan(t, q, A, B) ==
  /\ A \in Seq(Named) /\ B \in Seq(Named) /\ Planned(q, A, B)
  /\ Opt(t).reset = "no" => B = <<>>
  /\ Opt(t).reset = "after" => A = B
  /\ PortsDiffer => Once(A) /\ Once(B)
  /\ Opt(t).reset # "only" /\ ~Opt(t).detail => A = Loop(t)

LEMMA PerfqueryPlanIs ==
  ASSUME scenario \in Scenarios, NEW t \in Tools, IsPerfquery(t)
  PROVE  \/ ~Opt(t).all /\ PerfqueryPlan(t) = <<Op("exit", 0)>>
         \/ \E A, B \in Seq(Named) : Plan(t, PerfqueryPlan(t), A, B)
<1>1. Loop(t) \in Seq(Named) /\ (PortsDiffer => Once(Loop(t)))
  BY LoopIs
<1>2. InfoPort(t) \in Named /\ Opt(t).reset \in {"no", "after", "only"}
  BY OptionsAre
<1>3. <<>> \in Seq(Named) /\ Once(<<>>) /\ <<InfoPort(t)>> \in Seq(Named) /\ Once(<<InfoPort(t)>>)
  BY <1>2 DEF Once
<1>4. SUFFICES ASSUME ~(~allSelect /\ ~Opt(t).all /\ InfoPort(t) = AllPorts)
      PROVE  \E A, B \in Seq(Named) : Plan(t, PerfqueryPlan(t), A, B)
  BY DEF PerfqueryPlan
<1>5. CASE Opt(t).detail
  <2> DEFINE A == IF Opt(t).reset = "only" THEN <<>> ELSE <<InfoPort(t)>>
             B == IF Opt(t).reset = "no" THEN <<>> ELSE <<InfoPort(t)>>
  <2>1. A \in Seq(Named) /\ B \in Seq(Named) /\ Once(A) /\ Once(B)
    BY <1>3
  <2>2. /\ (IF Opt(t).reset = "only" THEN <<>> ELSE <<Op("read", InfoPort(t))>>) = ForPorts("read", A)
        /\ (IF Opt(t).reset = "no" THEN <<>> ELSE <<Op("reset", InfoPort(t))>>) = ForPorts("reset", B)
    BY ForPortsIs
  <2>3. PerfqueryPlan(t) = ForPorts("read", A) \o ForPorts("reset", B)
    BY <1>4, <1>5, <2>2 DEF PerfqueryPlan, DetailPlan
  <2>4. Opt(t).reset = "no" => B = <<>>
    OBVIOUS
  <2>5. Opt(t).reset = "after" => A = B
    OBVIOUS
  <2> HIDE DEF A, B
  <2>6. Planned(PerfqueryPlan(t), A, B)
    BY <2>1, <2>3, PlansArePlanned
  <2>7. Plan(t, PerfqueryPlan(t), A, B)
    BY <1>5, <2>1, <2>4, <2>5, <2>6 DEF Plan
  <2> QED BY <2>1, <2>7
<1>6. CASE ~Opt(t).detail
  <2> DEFINE A == IF Opt(t).reset = "only" THEN <<>> ELSE Loop(t)
             B == IF Opt(t).reset = "no" THEN <<>> ELSE Loop(t)
             r == ForPorts("read", A)
             s == ForPorts("reset", B)
  <2>1. A \in Seq(Named) /\ B \in Seq(Named) /\ (PortsDiffer => Once(A) /\ Once(B))
    BY <1>1, <1>3
  <2>2. /\ (IF Opt(t).reset = "only" THEN <<>> ELSE ForPorts("read", Loop(t))) = r
        /\ (IF Opt(t).reset = "no" THEN <<>> ELSE ForPorts("reset", ResetLoop(t))) = s
    BY ForPortsIs DEF ResetLoop
  <2>3. PerfqueryPlan(t) = (IF Looping(t) THEN <<Op("ports", 0)>> ELSE <<>>) \o r \o s
    BY <1>4, <1>6, <2>2 DEF PerfqueryPlan
  <2>4. Opt(t).reset = "no" => B = <<>>
    OBVIOUS
  <2>5. Opt(t).reset = "after" => A = B
    OBVIOUS
  <2>50. Opt(t).reset # "only" => A = Loop(t)
    OBVIOUS
  <2> HIDE DEF A, B
  <2>51. r \in Seq(Ops)
    BY <2>1, OpIs DEF ForPorts
  <2>6. Planned(PerfqueryPlan(t), A, B)
    <3>1. CASE Looping(t)
      <4>1. PerfqueryPlan(t) = <<Op("ports", 0)>> \o r \o s
        BY <2>3, <3>1
      <4> QED BY <2>1, <4>1, PlansArePlanned
    <3>2. CASE ~Looping(t)
      <4>1. PerfqueryPlan(t) = <<>> \o r \o s
        BY <2>3, <3>2
      <4>2. <<>> \o r = r
        BY <2>51, ConcatEmptySeq
      <4>3. PerfqueryPlan(t) = r \o s
        BY <4>1, <4>2
      <4> QED BY <2>1, <4>3, PlansArePlanned
    <3> QED BY <3>1, <3>2
  <2>7. Plan(t, PerfqueryPlan(t), A, B)
    BY <2>1, <2>4, <2>5, <2>50, <2>6 DEF Plan
  <2> QED BY <2>1, <2>7
<1> QED BY <1>5, <1>6

\* What is reset, in such a plan, has been read.
LEMMA PlanReadsFirst ==
  ASSUME NEW t, NEW q, NEW A \in Seq(Named), NEW B \in Seq(Named), Plan(t, q, A, B)
  PROVE  /\ q \in Seq(Ops) /\ NoCaps(q)
         /\ Opt(t).reset \in {"no", "after"} => ReadFirst(q)
         /\ Opt(t).reset = "no" => \A i \in 1..Len(q) : q[i].op # "reset"
<1>1. PICK n \in {0, 1} :
        /\ q \in Seq(Ops) /\ Len(q) = n + Len(A) + Len(B)
        /\ n = 1 => q[1] = Op("ports", 0)
        /\ \A i \in 1..Len(A) : q[n + i] = Op("read", A[i])
        /\ \A i \in 1..Len(B) : q[n + Len(A) + i] = Op("reset", B[i])
  BY DEF Plan, Planned
<1>2. n \in Nat /\ Len(A) \in Nat /\ Len(B) \in Nat
  OBVIOUS
<1>3. ASSUME NEW i \in 1..Len(q)
      PROVE  \/ n = 1 /\ i = 1
             \/ \E j \in 1..Len(A) : i = n + j
             \/ \E j \in 1..Len(B) : i = n + Len(A) + j
  <2>1. i <= n + Len(A) + Len(B) /\ i \in Nat /\ i >= 1
    BY <1>1, <1>2
  <2>2. CASE i <= n
    BY <2>1, <2>2
  <2>3. CASE i > n /\ i <= n + Len(A)
    <3>1. i - n \in 1..Len(A) /\ i = n + (i - n)
      BY <1>2, <2>1, <2>3
    <3> QED BY <3>1
  <2>4. CASE i > n + Len(A)
    <3>1. i - n - Len(A) \in 1..Len(B) /\ i = n + Len(A) + (i - n - Len(A))
      BY <1>2, <2>1, <2>4
    <3> QED BY <3>1
  <2> QED BY <1>2, <2>1, <2>2, <2>3, <2>4
<1>4. ASSUME NEW i \in 1..Len(q)
      PROVE  /\ q[i].op \in {"ports", "read", "reset"}
             /\ q[i].op = "reset" => \E j \in 1..Len(B) : i = n + Len(A) + j /\ q[i] = Op("reset", B[j])
  BY <1>1, <1>3, OpIs
<1>5. Opt(t).reset = "no" => Len(B) = 0
  BY DEF Plan
<1>6. ASSUME Opt(t).reset = "after" PROVE ReadFirst(q)
  <2>1. A = B
    BY <1>6 DEF Plan
  <2>2. ASSUME NEW p \in Ports, NEW i \in 1..Len(q), Covers(q[i], "reset", p)
        PROVE  \E j \in 1..(i - 1) : Covers(q[j], "read", p)
    <3>1. PICK j \in 1..Len(B) : i = n + Len(A) + j /\ q[i] = Op("reset", B[j])
      BY <1>4, <2>2 DEF Covers
    <3>2. n + j \in 1..(i - 1)
      BY <1>2, <2>1, <3>1
    <3>3. q[n + j] = Op("read", B[j])
      BY <1>1, <2>1
    <3>4. Covers(q[n + j], "read", p)
      BY <2>2, <3>1, <3>3, OpIs DEF Covers
    <3> QED BY <3>2, <3>4
  <2> QED BY <2>2 DEF ReadFirst
<1>7. Opt(t).reset = "no" => \A i \in 1..Len(q) : q[i].op # "reset"
  BY <1>2, <1>4, <1>5
<1>8. Opt(t).reset = "no" => ReadFirst(q)
  BY <1>7 DEF ReadFirst, Covers
<1> QED BY <1>1, <1>4, <1>6, <1>7, <1>8 DEF NoCaps

\* A list that reads and resets, reads every port, and resets what has been read.
Thorough(q) ==
  /\ q \in Seq(Ops) /\ \A i \in 1..Len(q) : q[i].op \in {"read", "reset"}
  /\ ReadFirst(q)
  /\ \A p \in Ports : Ahead(q, p)

NoResets(q) == \A i \in 1..Len(q) : q[i].op # "reset"

LEMMA VisitsAreThorough ==
  ASSUME NEW q, NEW c \in BOOLEAN, Visits(q, c, Len(PortList))
  PROVE  Thorough(q) /\ (~c => NoResets(q))
<1> DEFINE n == Len(PortList)
<1>1. n \in Nat /\ q \in Seq(Ops) /\ \A j \in 1..n : PortList[j] \in Ports
  BY PortListIs DEF Visits
<1>2. CASE ~c
  <2>1. Len(q) = n /\ \A j \in 1..n : q[j] = Op("read", PortList[j])
    BY <1>2 DEF Visits
  <2>2. \A j \in 1..Len(q) : q[j].op = "read"
    BY <2>1, OpIs
  <2>3. ReadFirst(q) /\ NoResets(q)
    BY <2>2 DEF ReadFirst, Covers, NoResets
  <2>4. ASSUME NEW p \in Ports PROVE Ahead(q, p)
    <3>1. PICK j \in 1..n : PortList[j] = p
      BY PortListIs
    <3>2. j \in 1..Len(q) /\ Covers(q[j], "read", p)
      BY <2>1, <3>1, OpIs DEF Covers
    <3>3. \A m \in 1..(j - 1) : m \in 1..Len(q)
      BY <1>1, <2>1
    <3> QED BY <2>2, <3>2, <3>3 DEF Ahead, Covers
  <2> QED BY <1>1, <2>2, <2>3, <2>4 DEF Thorough
<1>3. CASE c
  <2>1. Len(q) = 2 * n /\ \A j \in 1..n : q[2*j - 1] = Op("read", PortList[j]) /\ q[2*j] = Op("reset", PortList[j])
    BY <1>3 DEF Visits
  <2>2. ASSUME NEW i \in 1..Len(q)
        PROVE  \E j \in 1..n : i = 2*j - 1 \/ i = 2*j
    <3>1. i \in 1..(2*n)
      BY <2>1
    <3> DEFINE j == (i + 1) \div 2
    <3>2. j \in Nat /\ (2*j = i \/ 2*j = i + 1)
      BY <3>1
    <3> HIDE DEF j
    <3>3. j \in 1..n
      BY <1>1, <3>1, <3>2
    <3> QED BY <3>2, <3>3
  <2>3. ASSUME NEW i \in 1..Len(q), q[i].op = "reset"
        PROVE  i - 1 \in 1..(i - 1) /\ i - 1 \in 1..Len(q) /\ q[i-1] = Op("read", q[i].port) /\ q[i].port \in Ports
    <3>1. PICK j \in 1..n : i = 2*j - 1 \/ i = 2*j
      BY <2>2
    <3>2. i = 2*j /\ q[i] = Op("reset", PortList[j])
      <4>1. i # 2*j - 1
        <5>1. q[2*j - 1].op = "read"
          BY <2>1, OpIs
        <5> QED BY <2>3, <5>1
      <4> QED BY <2>1, <3>1, <4>1
    <3>3. 2*j - 1 = i - 1 /\ i - 1 \in 1..(i - 1) /\ i - 1 \in 1..(2*n)
      BY <1>1, <3>2
    <3>4. q[i-1] = Op("read", PortList[j])
      BY <2>1, <3>3
    <3> QED BY <1>1, <2>1, <3>2, <3>3, <3>4, OpIs
  <2>4. ReadFirst(q)
    <3>1. ASSUME NEW p \in Ports, NEW i \in 1..Len(q), Covers(q[i], "reset", p)
          PROVE  \E j \in 1..(i - 1) : Covers(q[j], "read", p)
      <4>1. i - 1 \in 1..(i - 1) /\ q[i-1] = Op("read", q[i].port)
        BY <2>3, <3>1 DEF Covers
      <4>2. Covers(q[i-1], "read", p)
        BY <3>1, <4>1, OpIs DEF Covers
      <4> QED BY <4>1, <4>2
    <3> QED BY <3>1 DEF ReadFirst
  <2>5. ASSUME NEW p \in Ports PROVE Ahead(q, p)
    <3>1. PICK j \in 1..n : PortList[j] = p
      BY PortListIs
    <3>2. 2*j - 1 \in 1..Len(q) /\ Covers(q[2*j - 1], "read", p)
      BY <1>1, <2>1, <3>1, OpIs DEF Covers
    <3>3. ASSUME NEW m \in 1..(2*j - 1 - 1) PROVE ~Covers(q[m], "reset", p)
      <4>1. m \in 1..Len(q)
        BY <1>1, <2>1
      <4>2. SUFFICES ASSUME Covers(q[m], "reset", p) PROVE FALSE
        OBVIOUS
      <4>3. PICK h \in 1..n : m = 2*h - 1 \/ m = 2*h
        BY <2>2, <4>1
      <4>4. m = 2*h
        <5>1. q[2*h - 1].op = "read"
          BY <2>1, OpIs
        <5> QED BY <4>2, <4>3, <5>1 DEF Covers
      <4>5. h # j /\ q[m] = Op("reset", PortList[h])
        BY <2>1, <4>4
      <4>6. PortList[h] = p
        BY <1>1, <4>2, <4>5, OpIs, PortsAre DEF Covers
      <4> QED BY <3>1, <4>5, <4>6, PortListIs
    <3> QED BY <3>2, <3>3 DEF Ahead
  <2>6. \A i \in 1..Len(q) : q[i].op \in {"read", "reset"}
    <3> TAKE i \in 1..Len(q)
    <3>1. PICK j \in 1..n : i = 2*j - 1 \/ i = 2*j
      BY <2>2
    <3> QED BY <2>1, <3>1, OpIs
  <2> QED BY <1>1, <1>3, <2>4, <2>5, <2>6 DEF Thorough
<1> QED BY <1>2, <1>3

\* All ports may be reset at the end.
LEMMA ThoroughThenAll ==
  ASSUME NEW q, Thorough(q), NoResets(q)
  PROVE  Thorough(q \o <<Op("reset", AllPorts)>>)
<1> DEFINE b == <<Op("reset", AllPorts)>>
           r == q \o b
           n == Len(q)
<1>1. q \in Seq(Ops) /\ n \in Nat /\ b \in Seq(Ops) /\ Len(b) = 1 /\ b[1] = Op("reset", AllPorts)
  BY OpIs DEF Thorough, Named
<1> HIDE DEF b
<1>2. /\ r \in Seq(Ops) /\ Len(r) = Len(q) + Len(b)
      /\ \A i \in 1..(Len(q) + Len(b)) : r[i] = IF i <= Len(q) THEN q[i] ELSE b[i - Len(q)]
  <2>1. q \in Seq(Ops) /\ b \in Seq(Ops)
    BY <1>1
  <2> QED BY <2>1, ConcatProperties
<1> HIDE DEF r
<1>3. /\ r \in Seq(Ops) /\ Len(r) = n + 1
      /\ \A i \in 1..n : r[i] = q[i]
      /\ r[n + 1] = Op("reset", AllPorts)
  <2>1. /\ n + 1 \in 1..(n + Len(b)) /\ ~(n + 1 <= n) /\ (n + 1) - n = 1
        /\ \A i \in 1..n : i \in 1..(n + Len(b)) /\ i <= n
    BY <1>1
  <2> QED BY <1>1, <1>2, <2>1
<1>4. \A i \in 1..(n + 1) : i \in 1..n \/ i = n + 1
  BY <1>1
<1>5. \A i \in 1..Len(r) : r[i].op \in {"read", "reset"}
  BY <1>3, <1>4, OpIs DEF Thorough
<1>6. ASSUME NEW p \in Ports
      PROVE  \E i \in 1..n : Covers(r[i], "read", p) /\ \A j \in 1..(i - 1) : ~Covers(r[j], "reset", p)
  <2>1. PICK i \in 1..n : Covers(q[i], "read", p) /\ \A j \in 1..(i - 1) : ~Covers(q[j], "reset", p)
    BY DEF Thorough, Ahead
  <2>2. \A j \in 1..(i - 1) : j \in 1..n
    BY <1>1
  <2> QED BY <1>3, <2>1, <2>2
<1>7. ASSUME NEW p \in Ports PROVE Ahead(r, p)
  <2>1. \A i \in 1..n : i \in 1..Len(r)
    BY <1>1, <1>3
  <2> QED BY <1>6, <2>1 DEF Ahead
<1>8. ReadFirst(r)
  <2>1. ASSUME NEW p \in Ports, NEW i \in 1..Len(r), Covers(r[i], "reset", p)
        PROVE  \E j \in 1..(i - 1) : Covers(r[j], "read", p)
    <3>1. i = n + 1
      BY <1>3, <1>4, <2>1 DEF NoResets, Covers
    <3>2. i - 1 = n
      BY <1>1, <3>1
    <3> QED BY <1>6, <3>2
  <2> QED BY <2>1 DEF ReadFirst
<1>9. Thorough(r)
  BY <1>3, <1>5, <1>7, <1>8 DEF Thorough
<1> QED BY <1>9 DEF r, b

LEMMA ThoroughThenClear ==
  ASSUME NEW q, Thorough(q), NoResets(q), NEW t
  PROVE  Thorough(q \o Clear(t, AllPorts))
<1>1. CASE Opt(t).clear = {}
  <2>1. q \in Seq(Ops) /\ Clear(t, AllPorts) = <<>>
    BY <1>1 DEF Thorough, Clear
  <2>2. q \o Clear(t, AllPorts) = q
    BY <2>1, ConcatEmptySeq
  <2> QED BY <2>2
<1>2. CASE Opt(t).clear # {}
  <2>1. Clear(t, AllPorts) = <<Op("reset", AllPorts)>>
    BY <1>2 DEF Clear
  <2> QED BY <2>1, ThoroughThenAll
<1> QED BY <1>1, <1>2

LEMMA PrintNodePlanIs ==
  ASSUME NEW t, NEW all \in BOOLEAN
  PROVE  Thorough(PrintNodePlan(t, all))
<1>1. CASE ~all
  <2> DEFINE c == TRUE /\ Opt(t).clear # {}
  <2>1. Visits(EachPort(t, TRUE), c, Len(PortList)) /\ c \in BOOLEAN
    BY EachPortVisits
  <2> HIDE DEF c
  <2>2. Thorough(EachPort(t, TRUE))
    BY <2>1, VisitsAreThorough
  <2> QED BY <1>1, <2>2 DEF PrintNodePlan
<1>2. CASE all
  <2> DEFINE q == IF Opt(t).countersOnly THEN EachPort(t, FALSE) ELSE <<Op("read", AllPorts)>>
  <2>1. PrintNodePlan(t, all) = q \o Clear(t, AllPorts)
    BY <1>2 DEF PrintNodePlan
  <2>2. Thorough(EachPort(t, FALSE)) /\ NoResets(EachPort(t, FALSE))
    <3> DEFINE c == FALSE /\ Opt(t).clear # {}
    <3>1. Visits(EachPort(t, FALSE), c, Len(PortList)) /\ c = FALSE
      BY EachPortVisits
    <3> HIDE DEF c
    <3> QED BY <3>1, VisitsAreThorough
  <2>3. Thorough(<<Op("read", AllPorts)>>) /\ NoResets(<<Op("read", AllPorts)>>)
    <3> DEFINE b == <<Op("read", AllPorts)>>
    <3>1. b \in Seq(Ops) /\ Len(b) = 1 /\ b[1] = Op("read", AllPorts)
      BY OpIs DEF Named
    <3> HIDE DEF b
    <3>2. \A i \in 1..Len(b) : b[i].op = "read"
      BY <3>1, OpIs
    <3>3. ASSUME NEW p \in Ports PROVE Ahead(b, p)
      BY <3>1, OpIs DEF Ahead, Covers
    <3>4. ReadFirst(b)
      BY <3>2 DEF ReadFirst, Covers
    <3>5. Thorough(b) /\ NoResets(b)
      BY <3>1, <3>2, <3>3, <3>4 DEF Thorough, NoResets
    <3> QED BY <3>5 DEF b
  <2>4. Thorough(q) /\ NoResets(q)
    BY <2>2, <2>3
  <2> HIDE DEF q
  <2> QED BY <2>1, <2>4, ThoroughThenClear
<1> QED BY <1>1, <1>2

------------------------------------------------------------------------------
(* The types of the variables. *)

CountersTypeOK ==
  /\ scenario \in Scenarios /\ allSelect \in BOOLEAN
  /\ counter \in [Ports -> [Kinds -> 0..Cap]]
  /\ events \in [Ports -> [Kinds -> Nat]]
  /\ todo \in [Tools -> Seq(Ops)]
  /\ phase \in [Tools -> {"run", "done", "exit"}]
  /\ sends \in [Tools -> Nat]
  /\ seen \in [Tools -> [Named -> [Kinds -> (0..Cap) \cup {Unread}]]]
  /\ since \in [Tools -> [Ports -> [Kinds -> Nat]]]
  /\ first \in [Tools -> [Ports -> [Kinds -> 0..Cap]]]
  /\ sum \in [Tools -> [Kinds -> 0..Cap]]
  /\ bad \in [Tools -> SUBSET Ports]
  /\ failures \in [Tools -> Nat]
  /\ total \in [Tools -> [Ports -> [Kinds -> Nat]]]
  /\ runs \in [Tools -> Nat]

\* A tool asks for the capabilities first, and only then; what was sent is at the head
\* of the list; nothing is left when the tool has ended; only perfquery asks for ports
\* and gives up.
OrderlyTool(o, ph, q, n) ==
  /\ ph # "run" => q = <<>>
  /\ n > 0 => ph = "run" /\ q # <<>> /\ q[1].op = "reset"
  /\ NoCaps(q) \/ q = <<Op("caps", 0)>>
  /\ o.tool # "perfquery" => \A i \in 1..Len(q) : q[i].op \notin {"ports", "exit"}

Orderly == \A t \in Tools : OrderlyTool(Opt(t), phase[t], todo[t], sends[t])

CountersInv == CountersTypeOK /\ Orderly

LEMMA KindsAre == Kinds = {"err", "data"} /\ IsFiniteSet(Kinds)
<1>1. {"err", "data"} = {"err"} \cup {"data"} /\ IsFiniteSet({"err"})
  BY FS_Singleton
<1>2. IsFiniteSet({"err", "data"})
  BY <1>1, FS_AddElement
<1> QED BY <1>2 DEF Kinds

LEMMA TailIs ==
  ASSUME NEW q \in Seq(Ops), q # <<>>
  PROVE  /\ <<>> \o Tail(q) = Tail(q) /\ Tail(q) \in Seq(Ops) /\ Len(q) \in Nat \ {0}
         /\ q[1] \in Ops /\ Len(Tail(q)) = Len(q) - 1
         /\ \A i \in 1..Len(Tail(q)) : Tail(q)[i] = q[i + 1]
<1>1. /\ Tail(q) \in Seq(Ops) /\ Len(Tail(q)) = Len(q) - 1
      /\ \A i \in 1..Len(Tail(q)) : Tail(q)[i] = q[i + 1]
  BY HeadTailProperties
<1>2. <<>> \o Tail(q) = Tail(q)
  BY <1>1, ConcatEmptySeq
<1>3. Len(q) \in Nat \ {0}
  BY EmptySeq
<1> QED BY <1>1, <1>2, <1>3

\* The sum of all ports is a value of a counter, no less than any of them.
LEMMA ValueIs ==
  ASSUME CountersTypeOK, NEW p \in Named
  PROVE  /\ Value(p) \in [Kinds -> 0..Cap]
         /\ p \in Ports => Value(p) = counter[p]
         /\ \A q \in Ports, k \in Kinds : p \in {q, AllPorts} => counter[q][k] <= Value(p)[k]
<1>1. Cap \in Nat
  BY PerfCountersAssumption
<1>2. CASE p = AllPorts
  <2>1. Value(p) = [k \in Kinds |-> Capped(SumOver(counter, Ports, k))]
    BY <1>2 DEF Value
  <2>2. ASSUME NEW k \in Kinds
        PROVE  /\ SumOver(counter, Ports, k) \in Nat
               /\ \A q \in Ports : counter[q][k] <= SumOver(counter, Ports, k) /\ counter[q][k] \in 0..Cap
    <3>1. \A q \in Ports : counter[q][k] \in Nat /\ counter[q][k] \in 0..Cap
      BY DEF CountersTypeOK
    <3>2. Ports \in SUBSET Ports /\ IsFiniteSet(Ports)
      BY PortsAre
    <3>3. SumOver(counter, Ports, k) \in Nat
      BY <3>1, <3>2, SumIsNat
    <3>4. \A q \in Ports : counter[q][k] <= SumOver(counter, Ports, k)
      BY <3>1, <3>2, SumIsMore
    <3> QED BY <3>1, <3>3, <3>4
  <2>3. ASSUME NEW k \in Kinds
        PROVE  /\ Capped(SumOver(counter, Ports, k)) \in 0..Cap
               /\ \A q \in Ports : counter[q][k] <= Capped(SumOver(counter, Ports, k))
    BY <1>1, <2>2 DEF Capped
  <2>4. p \notin Ports
    BY <1>2, PortsAre
  <2> QED BY <1>2, <2>1, <2>3, <2>4
<1>3. CASE p # AllPorts
  <2>1. p \in Ports /\ Value(p) = counter[p]
    BY <1>3 DEF Named, Value
  <2>2. counter[p] \in [Kinds -> 0..Cap]
    BY <2>1 DEF CountersTypeOK
  <2> QED BY <1>1, <1>3, <2>1, <2>2
<1> QED BY <1>2, <1>3

\* Adding up is capped, in the width of the counters or the wider one.
LEMMA AggregateIs ==
  ASSUME NEW k, NEW dest \in 0..Cap, NEW val \in 0..Cap
  PROVE  Aggregate(k, dest, val) = Capped(dest + val) /\ Capped(dest + val) \in 0..Cap
<1>1. Cap \in Nat
  BY PerfCountersAssumption
<1>2. Capped(dest + val) \in 0..Cap
  BY <1>1 DEF Capped
<1>3. CASE dest + val <= Cap
  <2>1. (dest + val) % (Cap + 1) = dest + val
    BY <1>1, <1>3
  <2> QED BY <1>1, <1>2, <1>3, <2>1 DEF Aggregate, Capped
<1>4. CASE dest + val > Cap
  <2>1. (dest + val) % (Cap + 1) = dest + val - (Cap + 1)
    BY <1>1, <1>4
  <2>2. (dest + val) % (Cap + 1) < dest
    BY <1>1, <1>4, <2>1
  <2>3. Capped(dest + val) = Cap
    BY <1>1, <1>4 DEF Capped
  <2>4. Aggregate(k, dest, val) = Cap
    <3>1. CASE k = "err"
      BY <2>3, <3>1 DEF Aggregate
    <3>2. CASE k # "err"
      BY <2>2, <3>2 DEF Aggregate
    <3> QED BY <3>1, <3>2
  <2> QED BY <1>2, <2>3, <2>4
<1> QED BY <1>1, <1>3, <1>4

------------------------------------------------------------------------------
(***************************************************************************)
(* What a step of a tool does to its list: it plans, stops, goes on        *)
(* without having changed anything, reads, resets, finishes or begins      *)
(* again.                                                                  *)
(***************************************************************************)
Plans(t) ==
  /\ phase[t] = "run" /\ todo[t] = <<Op("caps", 0)>>
  /\ \E q : /\ todo' = [todo EXCEPT ![t] = q]
            /\ IsPerfquery(t) => q = PerfqueryPlan(t)
            /\ ~IsPerfquery(t) => \E all \in BOOLEAN : q = PrintNodePlan(t, all)
  /\ \/ failures' = failures
     \/ failures' = [failures EXCEPT ![t] = @ + 1]
  /\ UNCHANGED <<agent, counter, phase, sends, seen, since, first, sum, bad, total, runs>>

Stops(t) ==
  /\ IsPerfquery(t)
  /\ todo' = [todo EXCEPT ![t] = <<>>]
  /\ phase' = [phase EXCEPT ![t] = "exit"]
  /\ sends' = [sends EXCEPT ![t] = 0]
  /\ UNCHANGED <<agent, counter, seen, since, first, sum, bad, failures, total, runs>>

Drops(t) ==
  /\ phase[t] = "run" /\ todo[t] # <<>> /\ todo[t][1].op \in {"ports", "read", "reset"}
  /\ todo' = [todo EXCEPT ![t] = Tail(@)]
  /\ sends' = [sends EXCEPT ![t] = 0]
  /\ IF todo[t][1].op = "read"
     THEN ~IsPerfquery(t) /\ failures' = [failures EXCEPT ![t] = @ + 1]
     ELSE failures' = failures
  /\ todo[t][1].op = "reset" /\ IsPerfquery(t) => sends[t] > 0
  /\ UNCHANGED <<agent, counter, phase, seen, since, first, sum, bad, total, runs>>

LEMMA StepIs ==
  ASSUME CountersInv, NEW t \in Tools, Step(t)
  PROVE  \/ Plans(t) \/ Stops(t) \/ Drops(t) \/ Read(t) \/ Reset(t) \/ Finish(t) \/ Again(t)
<1>1. todo[t] \in Seq(Ops) /\ sends \in [Tools -> Nat] /\ todo \in [Tools -> Seq(Ops)]
  BY DEF CountersInv, CountersTypeOK
<1>2. /\ NoCaps(todo[t]) \/ todo[t] = <<Op("caps", 0)>>
      /\ sends[t] > 0 => Doing(t, "reset")
      /\ ~IsPerfquery(t) => \A i \in 1..Len(todo[t]) : todo[t][i].op \notin {"ports", "exit"}
  BY DEF CountersInv, Orderly, OrderlyTool, Doing, Head1, IsPerfquery
<1>3. todo[t] # <<>> => /\ Len(todo[t]) \in Nat \ {0} /\ <<>> \o Tail(todo[t]) = Tail(todo[t])
  BY <1>1, TailIs
<1>4. \A name : Doing(t, name) /\ name # "reset" => (sends' = sends => sends' = [sends EXCEPT ![t] = 0])
  <2> TAKE name
  <2>1. HAVE Doing(t, name) /\ name # "reset"
  <2>2. ~(sends[t] > 0)
    BY <1>2, <2>1 DEF Doing
  <2>3. sends[t] = 0
    BY <1>1, <2>2
  <2> QED BY <1>1, <2>3
<1>5. Doing(t, "caps") => todo[t] = <<Op("caps", 0)>> /\ \A q \in Seq(Ops) : q \o Tail(todo[t]) = q
  <2>1. HAVE Doing(t, "caps")
  <2>2. todo[t][1].op = "caps" /\ todo[t] # <<>>
    BY <2>1 DEF Doing, Head1
  <2>3. 1 \in 1..Len(todo[t])
    BY <1>3, <2>2
  <2>4. todo[t] = <<Op("caps", 0)>>
    BY <1>2, <2>2, <2>3 DEF NoCaps
  <2>5. Tail(todo[t]) = <<>>
    <3>1. Len(Tail(todo[t])) = 0 /\ Tail(todo[t]) \in Seq(Ops)
      BY <1>1, <2>2, <2>4, TailIs
    <3> QED BY <3>1, EmptySeq
  <2> QED BY <2>4, <2>5, ConcatEmptySeq
<1>6. IsPerfquery(t) => PerfqueryPlan(t) \in Seq(Ops)
  <2>1. HAVE IsPerfquery(t)
  <2>2. scenario \in Scenarios
    BY DEF CountersInv, CountersTypeOK
  <2>3. <<Op("exit", 0)>> \in Seq(Ops)
    BY OpIs
  <2>4. ASSUME NEW A \in Seq(Named), NEW B \in Seq(Named), Plan(t, PerfqueryPlan(t), A, B)
        PROVE  PerfqueryPlan(t) \in Seq(Ops)
    BY <2>4, PlanReadsFirst
  <2> QED BY <2>1, <2>2, <2>3, <2>4, PerfqueryPlanIs
<1>7. \A all \in BOOLEAN : PrintNodePlan(t, all) \in Seq(Ops)
  BY PrintNodePlanIs DEF Thorough
<1>8. allSelect \in BOOLEAN
  BY DEF CountersInv, CountersTypeOK
<1>9. CASE QueryCaps(t)
  <2>1. Doing(t, "caps") /\ phase[t] = "run"
    BY <1>9 DEF QueryCaps, Doing
  <2>2. CASE IsPerfquery(t)
    <3>1. todo' = [todo EXCEPT ![t] = PerfqueryPlan(t)]
      BY <1>5, <1>6, <1>9, <2>1, <2>2 DEF QueryCaps, Go
    <3> QED BY <1>5, <1>9, <2>1, <2>2, <3>1 DEF QueryCaps, Plans
  <2>3. CASE ~IsPerfquery(t)
    <3>1. todo' = [todo EXCEPT ![t] = PrintNodePlan(t, allSelect)]
      BY <1>5, <1>7, <1>8, <1>9, <2>1, <2>3 DEF QueryCaps, Go
    <3> QED BY <1>5, <1>8, <1>9, <2>1, <2>3, <3>1 DEF QueryCaps, Plans
  <2> QED BY <2>2, <2>3
<1>10. CASE CapsFail(t)
  <2>1. Doing(t, "caps") /\ phase[t] = "run"
    BY <1>10 DEF CapsFail, Doing
  <2>2. CASE IsPerfquery(t)
    BY <1>4, <1>10, <2>1, <2>2 DEF CapsFail, Exits, Stops, agent
  <2>3. CASE ~IsPerfquery(t)
    <3>1. todo' = [todo EXCEPT ![t] = PrintNodePlan(t, FALSE)]
      BY <1>5, <1>7, <1>10, <2>1, <2>3 DEF CapsFail, Go
    <3> QED BY <1>5, <1>10, <2>1, <2>3, <3>1 DEF CapsFail, Plans
  <2> QED BY <2>2, <2>3
<1>11. CASE NoAllSelect(t)
  <2>1. Doing(t, "exit") /\ phase[t] = "run"
    BY <1>11 DEF NoAllSelect, Doing
  <2>2. IsPerfquery(t)
    <3>1. 1 \in 1..Len(todo[t]) /\ todo[t][1].op = "exit"
      BY <1>3, <2>1 DEF Doing, Head1
    <3> QED BY <1>2, <3>1
  <2> QED BY <1>4, <1>11, <2>1, <2>2 DEF NoAllSelect, Exits, Stops, agent
<1>12. CASE QueryPorts(t)
  <2>1. Doing(t, "ports") /\ phase[t] = "run" /\ todo[t] # <<>> /\ todo[t][1].op = "ports"
    BY <1>12 DEF QueryPorts, Doing, Head1
  <2>2. sends' = [sends EXCEPT ![t] = 0]
    BY <1>4, <1>12, <2>1 DEF QueryPorts
  <2>5. IsPerfquery(t)
    <3>1. 1 \in 1..Len(todo[t])
      BY <1>3, <2>1
    <3> QED BY <1>2, <2>1, <3>1
  <2>3. CASE Exits(t)
    BY <1>12, <2>1, <2>2, <2>3, <2>5 DEF QueryPorts, Exits, Stops, agent
  <2>4. CASE Go(t, <<>>) /\ UNCHANGED phase
    <3>1. todo' = [todo EXCEPT ![t] = Tail(@)]
      BY <1>1, <1>3, <2>1, <2>4 DEF Go
    <3> QED BY <1>12, <2>1, <2>2, <2>4, <3>1 DEF QueryPorts, Drops, agent
  <2> QED BY <1>12, <2>3, <2>4 DEF QueryPorts
<1>13. CASE ReadFails(t)
  <2>1. Doing(t, "read") /\ phase[t] = "run" /\ todo[t] # <<>> /\ todo[t][1].op = "read"
    BY <1>13 DEF ReadFails, Doing, Head1
  <2>2. sends' = [sends EXCEPT ![t] = 0]
    BY <1>4, <1>13, <2>1 DEF ReadFails
  <2>3. CASE IsPerfquery(t)
    BY <1>13, <2>1, <2>2, <2>3 DEF ReadFails, CallFails, Exits, Stops, agent
  <2>4. CASE ~IsPerfquery(t)
    BY <1>13, <2>1, <2>2, <2>4 DEF ReadFails, CallFails, Drops, agent
  <2> QED BY <2>3, <2>4
<1>14. CASE ResetDone(t)
  <2>1. Doing(t, "reset") /\ phase[t] = "run" /\ todo[t] # <<>> /\ todo[t][1].op = "reset"
    BY <1>14 DEF ResetDone, Doing, Head1
  <2>2. todo' = [todo EXCEPT ![t] = Tail(@)]
    BY <1>1, <1>3, <1>14, <2>1 DEF ResetDone, Go
  <2> QED BY <1>14, <2>1, <2>2 DEF ResetDone, Drops, agent
<1>15. CASE ResetFails(t)
  <2>1. Doing(t, "reset") /\ phase[t] = "run" /\ todo[t] # <<>> /\ todo[t][1].op = "reset"
    BY <1>15 DEF ResetFails, Doing, Head1
  <2>2. CASE IsPerfquery(t)
    BY <1>15, <2>1, <2>2 DEF ResetFails, Exits, Stops, agent
  <2>3. CASE ~IsPerfquery(t)
    <3>1. todo' = [todo EXCEPT ![t] = Tail(@)]
      BY <1>1, <1>3, <1>15, <2>1, <2>3 DEF ResetFails, Go
    <3> QED BY <1>15, <2>1, <2>3, <3>1 DEF ResetFails, Drops, agent
  <2> QED BY <2>2, <2>3
<1> QED BY <1>9, <1>10, <1>11, <1>12, <1>13, <1>14, <1>15 DEF Step

\* What is left when t has read: after all ports at once perhaps each of them.
AfterRead(t, q) ==
  \/ q = Tail(todo[t])
  \/ todo[t][1].port = AllPorts /\ ~IsPerfquery(t) /\ q = EachPort(t, FALSE) \o Tail(todo[t])

LEMMA ReadIs ==
  ASSUME CountersInv, NEW t \in Tools, Read(t)
  PROVE  /\ phase[t] = "run" /\ todo[t] # <<>> /\ todo[t][1].op = "read" /\ todo[t][1].port \in Named
         /\ todo[t] \in Seq(Ops) /\ NoCaps(todo[t]) /\ sends[t] = 0
         /\ \E q : AfterRead(t, q) /\ todo' = [todo EXCEPT ![t] = q]
<1>1. todo[t] \in Seq(Ops) /\ sends[t] \in Nat
  BY DEF CountersInv, CountersTypeOK
<1>2. phase[t] = "run" /\ todo[t] # <<>> /\ todo[t][1].op = "read"
  BY DEF Read, Doing, Head1
<1>3. todo[t][1] \in Ops /\ <<>> \o Tail(todo[t]) = Tail(todo[t]) /\ Len(todo[t]) \in Nat \ {0}
  BY <1>1, <1>2, TailIs
<1>4. todo[t][1].port \in Named
  BY <1>2, <1>3 DEF Ops
<1>5. NoCaps(todo[t])
  BY <1>2, OpIs DEF CountersInv, Orderly, OrderlyTool
<1>6. sends[t] = 0
  BY <1>1, <1>2 DEF CountersInv, Orderly, OrderlyTool
<1>7. \E q : AfterRead(t, q) /\ todo' = [todo EXCEPT ![t] = q]
  <2> DEFINE c == ~IsPerfquery(t) /\ Head1(t).port = AllPorts /\ Exceeds(Value(Head1(t).port))
  <2>1. Go(t, IF c THEN EachPort(t, FALSE) ELSE <<>>)
    BY DEF Read
  <2>2. CASE c
    BY <2>1, <2>2 DEF Go, AfterRead, Head1
  <2>3. CASE ~c
    BY <1>3, <2>1, <2>3 DEF Go, AfterRead
  <2> QED BY <2>2, <2>3
<1> QED BY <1>1, <1>2, <1>4, <1>5, <1>6, <1>7

LEMMA OpsOfBoth ==
  ASSUME NEW a \in Seq(Ops), NEW b \in Seq(Ops), NEW q, q = a \o b
  PROVE  /\ q \in Seq(Ops) /\ Len(q) = Len(a) + Len(b)
         /\ \A i \in 1..Len(a) : q[i] = a[i]
         /\ \A i \in 1..Len(b) : q[Len(a) + i] = b[i]
         /\ \A i \in 1..Len(q) : \/ i \in 1..Len(a)
                                 \/ i - Len(a) \in 1..Len(b) /\ i = Len(a) + (i - Len(a))
<1>1. /\ q \in Seq(Ops) /\ Len(q) = Len(a) + Len(b)
      /\ \A i \in 1..(Len(a) + Len(b)) : q[i] = IF i <= Len(a) THEN a[i] ELSE b[i - Len(a)]
  BY ConcatProperties
<1>2. Len(a) \in Nat /\ Len(b) \in Nat
  OBVIOUS
<1>3. ASSUME NEW i \in 1..Len(a) PROVE q[i] = a[i]
  <2>1. i \in 1..(Len(a) + Len(b)) /\ i <= Len(a)
    BY <1>2
  <2> QED BY <1>1, <2>1
<1>4. ASSUME NEW i \in 1..Len(b) PROVE q[Len(a) + i] = b[i]
  <2>1. Len(a) + i \in 1..(Len(a) + Len(b)) /\ ~(Len(a) + i <= Len(a)) /\ Len(a) + i - Len(a) = i
    BY <1>2
  <2> QED BY <1>1, <2>1
<1>5. \A i \in 1..Len(q) : \/ i \in 1..Len(a)
                           \/ i - Len(a) \in 1..Len(b) /\ i = Len(a) + (i - Len(a))
  BY <1>1, <1>2
<1> QED BY <1>1, <1>3, <1>4, <1>5

LEMMA AfterReadIs ==
  ASSUME NEW t, todo[t] \in Seq(Ops), todo[t] # <<>>, NEW q, AfterRead(t, q), NoCaps(todo[t])
  PROVE  /\ q \in Seq(Ops) /\ NoCaps(q)
         /\ (\A i \in 1..Len(todo[t]) : todo[t][i].op \notin {"ports", "exit"}) =>
              \A i \in 1..Len(q) : q[i].op \notin {"ports", "exit"}
<1> DEFINE b == Tail(todo[t])
           a == EachPort(t, FALSE)
<1>1. /\ b \in Seq(Ops) /\ Len(todo[t]) \in Nat \ {0} /\ Len(b) = Len(todo[t]) - 1
      /\ \A i \in 1..Len(b) : b[i] = todo[t][i + 1]
  BY TailIs
<1>2. \A i \in 1..Len(b) : i + 1 \in 1..Len(todo[t])
  BY <1>1
<1>3. a \in Seq(Ops) /\ \A i \in 1..Len(a) : a[i].op = "read"
  <2> DEFINE c == FALSE /\ Opt(t).clear # {}
  <2>1. Visits(a, c, Len(PortList)) /\ c = FALSE
    BY EachPortVisits
  <2> HIDE DEF c, a
  <2>2. Thorough(a) /\ NoResets(a)
    BY <2>1, VisitsAreThorough
  <2> QED BY <2>2 DEF Thorough, NoResets
<1>4. q = b \/ q = a \o b
  BY DEF AfterRead
<1> HIDE DEF a, b
<1>5. CASE q = b
  BY <1>1, <1>2, <1>5 DEF NoCaps
<1>6. CASE q = a \o b
  <2>1. /\ q \in Seq(Ops)
        /\ \A i \in 1..Len(a) : q[i] = a[i]
        /\ \A i \in 1..Len(b) : q[Len(a) + i] = b[i]
        /\ \A i \in 1..Len(q) : i \in 1..Len(a) \/ (i - Len(a) \in 1..Len(b) /\ i = Len(a) + (i - Len(a)))
    BY <1>1, <1>3, <1>6, OpsOfBoth
  <2>2. ASSUME NEW i \in 1..Len(q)
        PROVE  q[i].op = "read" \/ \E j \in 1..Len(todo[t]) : q[i] = todo[t][j]
    <3>1. CASE i \in 1..Len(a)
      BY <1>3, <2>1, <3>1
    <3>2. CASE i - Len(a) \in 1..Len(b) /\ i = Len(a) + (i - Len(a))
      <4>1. q[i] = b[i - Len(a)]
        BY <2>1, <3>2
      <4> QED BY <1>1, <1>2, <3>2, <4>1
    <3> QED BY <2>1, <3>1, <3>2
  <2> QED BY <2>1, <2>2 DEF NoCaps
<1> QED BY <1>4, <1>5, <1>6

------------------------------------------------------------------------------
LEMMA CountersInitTyped == ASSUME CountersInit PROVE CountersInv
<1>0. Cap \in Nat /\ Counts \subseteq 0..Cap
  BY PerfCountersAssumption
<1>1. /\ scenario \in Scenarios /\ allSelect \in BOOLEAN
      /\ counter \in [Ports -> [Kinds -> Counts]] /\ events = counter
  BY DEF CountersInit
<1>2. /\ counter \in [Ports -> [Kinds -> 0..Cap]]
      /\ events \in [Ports -> [Kinds -> Nat]] /\ counter \in [Ports -> [Kinds -> Nat]]
  <2>1. Counts \subseteq Nat
    BY <1>0
  <2>2. \A p \in Ports : counter[p] \in [Kinds -> 0..Cap]
    BY <1>0, <1>1
  <2>3. \A p \in Ports : counter[p] \in [Kinds -> Nat]
    BY <2>1, <1>1
  <2> QED BY <1>1, <2>2, <2>3
<1> DEFINE c == <<Op("caps", 0)>>
<1>3. c \in Seq(Ops) /\ \A i \in 1..Len(c) : c[i].op = "caps"
  BY OpIs
<1>4. todo = [t \in Tools |-> c]
  BY DEF CountersInit
<1> HIDE DEF c
<1>5. todo \in [Tools -> Seq(Ops)]
  BY <1>3, <1>4
<1>6. seen \in [Tools -> [Named -> [Kinds -> (0..Cap) \cup {Unread}]]]
  BY DEF CountersInit, Nothing, Named
<1>7. sum \in [Tools -> [Kinds -> 0..Cap]] /\ total \in [Tools -> [Ports -> [Kinds -> Nat]]]
  BY <1>0 DEF CountersInit, Zero
<1>8. /\ phase \in [Tools -> {"run", "done", "exit"}] /\ sends \in [Tools -> Nat]
      /\ since \in [Tools -> [Ports -> [Kinds -> Nat]]] /\ first \in [Tools -> [Ports -> [Kinds -> 0..Cap]]]
      /\ bad \in [Tools -> SUBSET Ports] /\ failures \in [Tools -> Nat] /\ runs \in [Tools -> Nat]
  BY <1>2 DEF CountersInit
<1>9. CountersTypeOK
  BY <1>1, <1>2, <1>5, <1>6, <1>7, <1>8 DEF CountersTypeOK
<1>10. Orderly
  BY <1>3, <1>4, <1>8 DEF CountersInit, Orderly, OrderlyTool, c
<1> QED BY <1>9, <1>10 DEF CountersInv

LEMMA ScenarioStays ==
  ASSUME UNCHANGED scenario
  PROVE  /\ Tools' = Tools
         /\ \A t : Opt(t)' = Opt(t) /\ IsPerfquery(t)' = IsPerfquery(t)
BY DEF Tools, Opt, IsPerfquery

\* A tool's list changes at t only.
LEMMA OrderlyStep ==
  ASSUME CountersInv, UNCHANGED scenario, NEW t \in Tools,
         \A u \in Tools : u # t => todo'[u] = todo[u] /\ phase'[u] = phase[u] /\ sends'[u] = sends[u],
         OrderlyTool(Opt(t), phase'[t], todo'[t], sends'[t])
  PROVE  Orderly'
<1>1. Tools' = Tools /\ \A u : Opt(u)' = Opt(u)
  BY ScenarioStays
<1>2. \A u \in Tools : OrderlyTool(Opt(u), phase[u], todo[u], sends[u])
  BY DEF CountersInv, Orderly
<1>3. \A u \in Tools : OrderlyTool(Opt(u), phase'[u], todo'[u], sends'[u])
  BY <1>2
<1> QED BY <1>1, <1>3 DEF Orderly

LEMMA NoOpsAreOrderly ==
  /\ <<>> \in Seq(Ops) /\ NoCaps(<<>>)
  /\ \A o, ph : OrderlyTool(o, ph, <<>>, 0)
BY DEF OrderlyTool, NoCaps

LEMMA EventKeeps ==
  ASSUME CountersInv, NEW p \in Ports, NEW k \in Kinds, Event(p, k)
  PROVE  CountersInv'
<1>1. UNCHANGED <<scenario, allSelect, todo, phase, sends, seen, since, first, sum, bad, failures, total, runs>>
  BY DEF Event
<1>2. Tools' = Tools /\ \A u : Opt(u)' = Opt(u)
  BY <1>1, ScenarioStays
<1>3. Cap \in Nat /\ CountersTypeOK
  BY PerfCountersAssumption DEF CountersInv
<1>4. events' \in [Ports -> [Kinds -> Nat]]
  BY <1>3 DEF CountersTypeOK, Event
<1>5. counter' \in [Ports -> [Kinds -> 0..Cap]]
  <2>1. counter' = [counter EXCEPT ![p][k] = Capped(counter[p][k] + 1)]
    BY DEF Event
  <2>2. Capped(counter[p][k] + 1) \in 0..Cap
    BY <1>3 DEF CountersTypeOK, Capped
  <2> QED BY <1>3, <2>1, <2>2 DEF CountersTypeOK
<1>6. CountersTypeOK'
  BY <1>1, <1>2, <1>3, <1>4, <1>5 DEF CountersTypeOK
<1>7. Orderly'
  BY <1>1, <1>2 DEF CountersInv, Orderly
<1> QED BY <1>6, <1>7 DEF CountersInv

LEMMA PlansKeeps ==
  ASSUME CountersInv, NEW t \in Tools, Plans(t)
  PROVE  CountersInv'
<1>1. UNCHANGED <<scenario, allSelect, events, counter, phase, sends, seen, since, first, sum, bad, total, runs>>
  BY DEF Plans, agent
<1>2. Tools' = Tools /\ \A u : Opt(u)' = Opt(u)
  BY <1>1, ScenarioStays
<1>3. CountersTypeOK
  BY DEF CountersInv
<1>4. PICK q : /\ todo' = [todo EXCEPT ![t] = q]
               /\ IsPerfquery(t) => q = PerfqueryPlan(t)
               /\ ~IsPerfquery(t) => \E all \in BOOLEAN : q = PrintNodePlan(t, all)
  BY DEF Plans
<1>5. /\ q \in Seq(Ops) /\ NoCaps(q)
      /\ Opt(t).tool # "perfquery" => \A i \in 1..Len(q) : q[i].op \notin {"ports", "exit"}
  <2>1. CASE IsPerfquery(t)
    <3>1. scenario \in Scenarios
      BY <1>3 DEF CountersTypeOK
    <3>2. CASE q = <<Op("exit", 0)>>
      <4>1. q \in Seq(Ops) /\ Len(q) = 1 /\ q[1].op = "exit"
        BY <3>2, OpIs
      <4> QED BY <2>1, <4>1 DEF NoCaps, IsPerfquery
    <3>3. ASSUME NEW A \in Seq(Named), NEW B \in Seq(Named), Plan(t, q, A, B)
          PROVE  q \in Seq(Ops) /\ NoCaps(q)
      BY <3>3, PlanReadsFirst
    <3> QED BY <1>4, <2>1, <3>1, <3>2, <3>3, PerfqueryPlanIs DEF IsPerfquery
  <2>2. CASE ~IsPerfquery(t)
    <3>1. Thorough(q)
      BY <1>4, <2>2, PrintNodePlanIs
    <3> QED BY <3>1 DEF Thorough, NoCaps
  <2> QED BY <2>1, <2>2
<1>6. todo' \in [Tools -> Seq(Ops)] /\ todo'[t] = q /\ \A u \in Tools : u # t => todo'[u] = todo[u]
  BY <1>3, <1>4, <1>5 DEF CountersTypeOK
<1>7. failures' \in [Tools -> Nat]
  <2>1. failures' = failures \/ failures' = [failures EXCEPT ![t] = failures[t] + 1]
    BY DEF Plans
  <2>2. failures \in [Tools -> Nat] /\ failures[t] + 1 \in Nat
    BY <1>3 DEF CountersTypeOK
  <2> QED BY <2>1, <2>2
<1>8. CountersTypeOK'
  BY <1>1, <1>2, <1>3, <1>6, <1>7 DEF CountersTypeOK
<1>9. sends[t] = 0 /\ phase[t] = "run"
  <2>1. sends[t] \in Nat /\ OrderlyTool(Opt(t), phase[t], todo[t], sends[t])
    BY DEF CountersInv, CountersTypeOK, Orderly
  <2>2. todo[t] # <<>> => todo[t][1].op # "reset"
    BY OpIs DEF Plans
  <2> QED BY <2>1, <2>2 DEF OrderlyTool, Plans
<1>10. OrderlyTool(Opt(t), phase'[t], todo'[t], sends'[t])
  BY <1>1, <1>5, <1>6, <1>9 DEF OrderlyTool
<1>11. Orderly'
  BY <1>1, <1>6, <1>10, OrderlyStep
<1> QED BY <1>8, <1>11 DEF CountersInv

LEMMA StopsKeeps ==
  ASSUME CountersInv, NEW t \in Tools, Stops(t)
  PROVE  CountersInv'
<1>1. UNCHANGED <<scenario, allSelect, events, counter, seen, since, first, sum, bad, failures, total, runs>>
  BY DEF Stops, agent
<1>2. Tools' = Tools /\ \A u : Opt(u)' = Opt(u)
  BY <1>1, ScenarioStays
<1>3. CountersTypeOK
  BY DEF CountersInv
<1>4. /\ todo' \in [Tools -> Seq(Ops)] /\ todo'[t] = <<>>
      /\ phase' \in [Tools -> {"run", "done", "exit"}]
      /\ sends' \in [Tools -> Nat] /\ sends'[t] = 0
      /\ \A u \in Tools : u # t => todo'[u] = todo[u] /\ phase'[u] = phase[u] /\ sends'[u] = sends[u]
  BY <1>3 DEF CountersTypeOK, Stops
<1>5. CountersTypeOK'
  BY <1>1, <1>2, <1>3, <1>4 DEF CountersTypeOK
<1>6. Orderly'
  BY <1>1, <1>4, NoOpsAreOrderly, OrderlyStep
<1> QED BY <1>5, <1>6 DEF CountersInv

LEMMA DropsKeeps ==
  ASSUME CountersInv, NEW t \in Tools, Drops(t)
  PROVE  CountersInv'
<1>1. UNCHANGED <<scenario, allSelect, events, counter, phase, seen, since, first, sum, bad, total, runs>>
  BY DEF Drops, agent
<1>2. Tools' = Tools /\ \A u : Opt(u)' = Opt(u)
  BY <1>1, ScenarioStays
<1>3. CountersTypeOK
  BY DEF CountersInv
<1>4. phase[t] = "run" /\ todo[t] # <<>> /\ todo[t] \in Seq(Ops)
  BY <1>3 DEF Drops, CountersTypeOK
<1> DEFINE b == Tail(todo[t])
<1>5. /\ b \in Seq(Ops) /\ Len(todo[t]) \in Nat \ {0} /\ Len(b) = Len(todo[t]) - 1
      /\ \A i \in 1..Len(b) : b[i] = todo[t][i + 1]
  BY <1>4, TailIs
<1>6. todo' = [todo EXCEPT ![t] = b] /\ sends' = [sends EXCEPT ![t] = 0]
  BY <1>3 DEF Drops, CountersTypeOK
<1> HIDE DEF b
<1>7. \A i \in 1..Len(b) : i + 1 \in 1..Len(todo[t])
  BY <1>5
<1>8. /\ todo' \in [Tools -> Seq(Ops)] /\ todo'[t] = b
      /\ sends' \in [Tools -> Nat] /\ sends'[t] = 0
      /\ \A u \in Tools : u # t => todo'[u] = todo[u] /\ phase'[u] = phase[u] /\ sends'[u] = sends[u]
  BY <1>1, <1>3, <1>5, <1>6 DEF CountersTypeOK
<1>9. failures' \in [Tools -> Nat]
  <2>1. failures' = failures \/ failures' = [failures EXCEPT ![t] = failures[t] + 1]
    BY DEF Drops
  <2>2. failures \in [Tools -> Nat] /\ failures[t] + 1 \in Nat
    BY <1>3 DEF CountersTypeOK
  <2> QED BY <2>1, <2>2
<1>10. CountersTypeOK'
  BY <1>1, <1>2, <1>3, <1>8, <1>9 DEF CountersTypeOK
<1>11. OrderlyTool(Opt(t), phase[t], todo[t], sends[t])
  BY DEF CountersInv, Orderly
<1>12. NoCaps(todo[t])
  BY <1>11, OpIs DEF OrderlyTool, Drops
<1>13. NoCaps(b) /\ (Opt(t).tool # "perfquery" => \A i \in 1..Len(b) : b[i].op \notin {"ports", "exit"})
  BY <1>5, <1>7, <1>11, <1>12 DEF OrderlyTool, NoCaps
<1>14. OrderlyTool(Opt(t), phase'[t], todo'[t], sends'[t])
  BY <1>1, <1>4, <1>8, <1>13 DEF OrderlyTool
<1>15. Orderly'
  BY <1>1, <1>8, <1>14, OrderlyStep
<1> QED BY <1>10, <1>15 DEF CountersInv

LEMMA ReadKeeps ==
  ASSUME CountersInv, NEW t \in Tools, Read(t)
  PROVE  CountersInv'
<1>1. UNCHANGED <<scenario, allSelect, events, counter, phase, sends, first, failures, runs>>
  BY DEF Read, agent
<1>2. Tools' = Tools /\ \A u : Opt(u)' = Opt(u)
  BY <1>1, ScenarioStays
<1>3. CountersTypeOK
  BY DEF CountersInv
<1> DEFINE p == Head1(t).port
           value == Value(p)
<1>4. /\ phase[t] = "run" /\ todo[t] # <<>> /\ p \in Named /\ todo[t] \in Seq(Ops)
      /\ NoCaps(todo[t]) /\ sends[t] = 0
  BY ReadIs DEF Head1
<1>5. value \in [Kinds -> 0..Cap]
  BY <1>3, <1>4, ValueIs
<1>6. PICK q : AfterRead(t, q) /\ todo' = [todo EXCEPT ![t] = q]
  BY ReadIs
<1>7. OrderlyTool(Opt(t), phase[t], todo[t], sends[t])
  BY DEF CountersInv, Orderly
<1>8. /\ q \in Seq(Ops) /\ NoCaps(q)
      /\ Opt(t).tool # "perfquery" => \A i \in 1..Len(q) : q[i].op \notin {"ports", "exit"}
  <2>1. /\ q \in Seq(Ops) /\ NoCaps(q)
        /\ (\A i \in 1..Len(todo[t]) : todo[t][i].op \notin {"ports", "exit"}) =>
              \A i \in 1..Len(q) : q[i].op \notin {"ports", "exit"}
    BY <1>4, <1>6, AfterReadIs
  <2> QED BY <1>7, <2>1 DEF OrderlyTool
<1>9. todo' \in [Tools -> Seq(Ops)] /\ todo'[t] = q /\ \A u \in Tools : u # t => todo'[u] = todo[u]
  BY <1>3, <1>6, <1>8 DEF CountersTypeOK
<1>10. seen' \in [Tools -> [Named -> [Kinds -> (0..Cap) \cup {Unread}]]]
  <2>1. seen' = [seen EXCEPT ![t][p] = [k \in Kinds |-> IF k \in Reads(t) THEN value[k] ELSE @[k]]]
    BY DEF Read
  <2> DEFINE new == [k \in Kinds |-> IF k \in Reads(t) THEN value[k] ELSE seen[t][p][k]]
  <2>2. new \in [Kinds -> (0..Cap) \cup {Unread}]
    BY <1>3, <1>4, <1>5 DEF CountersTypeOK
  <2>3. seen' = [seen EXCEPT ![t][p] = new]
    BY <1>3, <1>4, <2>1 DEF CountersTypeOK
  <2> HIDE DEF new, p
  <2> QED BY <1>3, <1>4, <2>2, <2>3 DEF CountersTypeOK
<1>11. since' \in [Tools -> [Ports -> [Kinds -> Nat]]]
  <2>1. since' = IF p = AllPorts THEN since ELSE [since EXCEPT ![t][p] = events[p]]
    BY DEF Read
  <2>2. p # AllPorts => events[p] \in [Kinds -> Nat]
    BY <1>3, <1>4 DEF CountersTypeOK, Named
  <2> HIDE DEF p
  <2> QED BY <1>3, <1>4, <2>1, <2>2 DEF CountersTypeOK, Named
<1>12. sum' \in [Tools -> [Kinds -> 0..Cap]]
  <2>1. sum' = IF Aggregates(t) THEN [sum EXCEPT ![t] = [k \in Kinds |-> Aggregate(k, @[k], value[k])]] ELSE sum
    BY DEF Read
  <2> DEFINE new == [k \in Kinds |-> Aggregate(k, sum[t][k], value[k])]
  <2>2. new \in [Kinds -> 0..Cap]
    <3> HIDE DEF value
    <3>1. \A k \in Kinds : sum[t][k] \in 0..Cap /\ value[k] \in 0..Cap
      BY <1>3, <1>5 DEF CountersTypeOK
    <3>2. \A k \in Kinds : Aggregate(k, sum[t][k], value[k]) \in 0..Cap
      BY <3>1, AggregateIs
    <3> QED BY <3>2
  <2>3. sum' = IF Aggregates(t) THEN [sum EXCEPT ![t] = new] ELSE sum
    BY <1>3, <2>1 DEF CountersTypeOK
  <2> HIDE DEF new
  <2> QED BY <1>3, <2>2, <2>3 DEF CountersTypeOK
<1>13. bad' \in [Tools -> SUBSET Ports]
  <2>1. bad' = bad \/ (p # AllPorts /\ bad' = [bad EXCEPT ![t] = bad[t] \cup {p}])
    BY DEF Read
  <2> HIDE DEF p
  <2>2. bad \in [Tools -> SUBSET Ports] /\ (p # AllPorts => bad[t] \cup {p} \in SUBSET Ports)
    BY <1>3, <1>4 DEF CountersTypeOK, Named
  <2> QED BY <2>1, <2>2
<1>14. total' \in [Tools -> [Ports -> [Kinds -> Nat]]]
  <2>1. total' = IF p = AllPorts THEN total
                 ELSE [total EXCEPT ![t][p] = [k \in Kinds |-> @[k] + value[k]]]
    BY DEF Read
  <2> DEFINE new == [k \in Kinds |-> total[t][p][k] + value[k]]
  <2>2. p # AllPorts => new \in [Kinds -> Nat]
    <3> HIDE DEF p, value
    <3>1. Cap \in Nat
      BY PerfCountersAssumption
    <3>2. \A k \in Kinds : value[k] \in Nat
      BY <1>5, <3>1
    <3> QED BY <1>3, <1>4, <3>2 DEF CountersTypeOK, Named
  <2>3. p # AllPorts => total' = [total EXCEPT ![t][p] = new]
    BY <1>3, <1>4, <2>1 DEF CountersTypeOK, Named
  <2> HIDE DEF new, p
  <2> QED BY <1>3, <1>4, <2>1, <2>2, <2>3 DEF CountersTypeOK, Named
<1>15. CountersTypeOK'
  BY <1>1, <1>2, <1>3, <1>9, <1>10, <1>11, <1>12, <1>13, <1>14 DEF CountersTypeOK
<1>16. OrderlyTool(Opt(t), phase'[t], todo'[t], sends'[t])
  BY <1>1, <1>4, <1>8, <1>9 DEF OrderlyTool
<1>17. Orderly'
  BY <1>1, <1>9, <1>16, OrderlyStep
<1> QED BY <1>15, <1>17 DEF CountersInv

LEMMA ResetKeeps ==
  ASSUME CountersInv, NEW t \in Tools, Reset(t)
  PROVE  CountersInv'
<1>1. UNCHANGED <<scenario, allSelect, events, todo, phase, seen, since, first, sum, bad, failures, total, runs>>
  BY DEF Reset, agent
<1>2. Tools' = Tools /\ \A u : Opt(u)' = Opt(u)
  BY <1>1, ScenarioStays
<1>3. CountersTypeOK /\ Cap \in Nat
  BY PerfCountersAssumption DEF CountersInv
<1>4. counter' \in [Ports -> [Kinds -> 0..Cap]]
  <2> DEFINE p == Head1(t).port
  <2>1. counter' = [q \in Ports |-> [k \in Kinds |->
                     IF p \in {q, AllPorts} /\ k \in Mask(t) THEN 0 ELSE counter[q][k]]]
    BY DEF Reset
  <2> HIDE DEF p
  <2>2. \A q \in Ports, k \in Kinds : counter[q][k] \in 0..Cap
    BY <1>3 DEF CountersTypeOK
  <2> QED BY <1>3, <2>1, <2>2
<1>5. sends' \in [Tools -> Nat] /\ \A u \in Tools : u # t => sends'[u] = sends[u]
  BY <1>3 DEF CountersTypeOK, Reset
<1>6. CountersTypeOK'
  BY <1>1, <1>2, <1>3, <1>4, <1>5 DEF CountersTypeOK
<1>7. OrderlyTool(Opt(t), phase'[t], todo'[t], sends'[t])
  <2>1. OrderlyTool(Opt(t), phase[t], todo[t], sends[t])
    BY DEF CountersInv, Orderly
  <2> QED BY <1>1, <2>1 DEF OrderlyTool, Reset, Doing, Head1
<1>8. Orderly'
  BY <1>1, <1>5, <1>7, OrderlyStep
<1> QED BY <1>6, <1>8 DEF CountersInv

LEMMA FinishKeeps ==
  ASSUME CountersInv, NEW t \in Tools, Finish(t)
  PROVE  CountersInv'
<1>1. UNCHANGED <<scenario, allSelect, events, counter, todo, sends, seen, since, first, sum, bad, failures, total, runs>>
  BY DEF Finish, agent
<1>2. Tools' = Tools /\ \A u : Opt(u)' = Opt(u)
  BY <1>1, ScenarioStays
<1>3. CountersTypeOK
  BY DEF CountersInv
<1>4. /\ phase' \in [Tools -> {"run", "done", "exit"}] /\ \A u \in Tools : u # t => phase'[u] = phase[u]
  BY <1>3 DEF CountersTypeOK, Finish
<1>5. CountersTypeOK'
  BY <1>1, <1>2, <1>3, <1>4 DEF CountersTypeOK
<1>6. todo'[t] = <<>> /\ sends'[t] = 0
  <2>1. OrderlyTool(Opt(t), phase[t], todo[t], sends[t]) /\ sends[t] \in Nat
    BY DEF CountersInv, Orderly, CountersTypeOK
  <2> QED BY <1>1, <2>1 DEF OrderlyTool, Finish
<1>7. Orderly'
  BY <1>1, <1>4, <1>6, NoOpsAreOrderly, OrderlyStep
<1> QED BY <1>5, <1>7 DEF CountersInv

LEMMA AgainKeeps ==
  ASSUME CountersInv, NEW t \in Tools, Again(t)
  PROVE  CountersInv'
<1>1. UNCHANGED <<scenario, allSelect, events, counter, sends, total>>
  BY DEF Again, agent
<1>2. Tools' = Tools /\ \A u : Opt(u)' = Opt(u)
  BY <1>1, ScenarioStays
<1>3. CountersTypeOK /\ Cap \in Nat
  BY PerfCountersAssumption DEF CountersInv
<1> DEFINE c == <<Op("caps", 0)>>
<1>4. c \in Seq(Ops) /\ \A i \in 1..Len(c) : c[i].op = "caps"
  BY OpIs
<1>5. todo' = [todo EXCEPT ![t] = c]
  BY DEF Again
<1> HIDE DEF c
<1>6. /\ todo' \in [Tools -> Seq(Ops)] /\ todo'[t] = c
      /\ phase' \in [Tools -> {"run", "done", "exit"}] /\ phase'[t] = "run"
      /\ \A u \in Tools : u # t => todo'[u] = todo[u] /\ phase'[u] = phase[u] /\ sends'[u] = sends[u]
  BY <1>1, <1>3, <1>4, <1>5 DEF CountersTypeOK, Again
<1>7. /\ seen' \in [Tools -> [Named -> [Kinds -> (0..Cap) \cup {Unread}]]]
      /\ sum' \in [Tools -> [Kinds -> 0..Cap]]
  <2>1. Nothing \in [Named -> [Kinds -> (0..Cap) \cup {Unread}]] /\ Zero \in [Kinds -> 0..Cap]
    BY <1>3 DEF Nothing, Named, Zero
  <2> QED BY <1>3, <2>1 DEF CountersTypeOK, Again
<1>8. /\ since' \in [Tools -> [Ports -> [Kinds -> Nat]]]
      /\ first' \in [Tools -> [Ports -> [Kinds -> 0..Cap]]]
      /\ bad' \in [Tools -> SUBSET Ports] /\ failures' \in [Tools -> Nat] /\ runs' \in [Tools -> Nat]
  BY <1>3 DEF CountersTypeOK, Again
<1>9. CountersTypeOK'
  BY <1>1, <1>2, <1>3, <1>6, <1>7, <1>8 DEF CountersTypeOK
<1>10. sends[t] = 0
  <2>1. OrderlyTool(Opt(t), phase[t], todo[t], sends[t]) /\ sends[t] \in Nat
    BY DEF CountersInv, Orderly, CountersTypeOK
  <2> QED BY <2>1 DEF OrderlyTool, Again
<1>11. OrderlyTool(Opt(t), phase'[t], todo'[t], sends'[t])
  BY <1>1, <1>4, <1>6, <1>10 DEF OrderlyTool, c
<1>12. Orderly'
  BY <1>1, <1>6, <1>11, OrderlyStep
<1> QED BY <1>9, <1>12 DEF CountersInv

LEMMA CountersInvStep == CountersInv /\ [CountersNext]_countervars => CountersInv'
<1>1. SUFFICES ASSUME CountersInv, [CountersNext]_countervars PROVE CountersInv'
  OBVIOUS
<1>2. CASE UNCHANGED countervars
  <2>1. UNCHANGED <<scenario, allSelect, events, counter, todo, phase, sends, seen, since, first, sum, bad, failures, total, runs>>
    BY <1>2 DEF countervars, agent
  <2>2. Tools' = Tools /\ \A u : Opt(u)' = Opt(u)
    BY <2>1, ScenarioStays
  <2> QED BY <1>1, <2>1, <2>2 DEF CountersInv, CountersTypeOK, Orderly
<1>3. CASE \E p \in Ports, k \in Kinds : Event(p, k)
  BY <1>1, <1>3, EventKeeps
<1>4. CASE \E t \in Tools : Step(t)
  <2>1. PICK t \in Tools : Step(t)
    BY <1>4
  <2> QED BY <1>1, <2>1, StepIs, PlansKeeps, StopsKeeps, DropsKeeps, ReadKeeps, ResetKeeps,
             FinishKeeps, AgainKeeps
<1> QED BY <1>1, <1>2, <1>3, <1>4 DEF CountersNext

\* The variables keep their types, and the tools their order.
THEOREM CountersTyped == CountersSpec => []CountersInv
<1>1. CountersInit => CountersInv
  BY CountersInitTyped
<1> QED BY <1>1, CountersInvStep, PTL DEF CountersSpec

------------------------------------------------------------------------------
(* NothingReportedTwice. *)

\* What was reported and what is there to be reported were both counted.
Clean(t, p) == \A k \in Kinds : counter[p][k] + total[t][p][k] <= events[p][k]

\* Every port that is read is read once, and reset afterwards.
ReadAndReset(q) ==
  \A i \in 1..Len(q) : q[i].op = "read" =>
    /\ \A j \in 1..Len(q) : q[j] = q[i] => j = i
    /\ \E j \in 1..Len(q) : j > i /\ q[j] = Op("reset", q[i].port)

\* p has been read, and is still to be reset.
Pending(q, p) ==
  /\ \E i \in 1..Len(q) : q[i] = Op("reset", p)
  /\ \A i \in 1..Len(q) : q[i] # Op("read", p)

Monitors(t) == IsPerfquery(t) /\ Opt(t).reset = "after" /\ phase[t] # "exit"

\* The counters of a port are clean but between its read and its reset.
MonitorTool(t) ==
  Monitors(t) =>
    /\ ReadAndReset(todo[t])
    /\ \A p \in Ports :
         /\ \A k \in Kinds : total[t][p][k] <= events[p][k]
         /\ Clean(t, p) \/ Pending(todo[t], p)
         /\ sends[t] > 0 /\ todo[t][1].port \in {p, AllPorts} => Clean(t, p)

MonitorInv == \A t \in Tools : MonitorTool(t)

LEMMA NumbersAre ==
  ASSUME CountersTypeOK
  PROVE  \A t \in Tools, p \in Ports, k \in Kinds :
           counter[p][k] \in Nat /\ total[t][p][k] \in Nat /\ events[p][k] \in Nat
<1>1. Cap \in Nat
  BY PerfCountersAssumption
<1> QED BY <1>1 DEF CountersTypeOK

\* Neither an event nor another tool makes anything dirty.
LEMMA MonitorStays ==
  ASSUME CountersTypeOK, CountersTypeOK', UNCHANGED scenario, NEW t \in Tools, MonitorTool(t),
         todo'[t] = todo[t], phase'[t] = phase[t], sends'[t] = sends[t], total'[t] = total[t],
         \A p \in Ports, k \in Kinds :
           /\ events[p][k] <= events'[p][k]
           /\ counter'[p][k] - counter[p][k] <= events'[p][k] - events[p][k]
  PROVE  MonitorTool(t)'
<1>1. Tools' = Tools /\ Opt(t)' = Opt(t) /\ IsPerfquery(t)' = IsPerfquery(t)
  BY ScenarioStays
<1>2. /\ \A p \in Ports, k \in Kinds :
           counter[p][k] \in Nat /\ total[t][p][k] \in Nat /\ events[p][k] \in Nat
      /\ \A p \in Ports, k \in Kinds :
           counter'[p][k] \in Nat /\ total'[t][p][k] \in Nat /\ events'[p][k] \in Nat
  <2>1. \A p \in Ports, k \in Kinds :
          counter[p][k] \in Nat /\ total[t][p][k] \in Nat /\ events[p][k] \in Nat
    BY NumbersAre
  <2>2. \A p \in Ports, k \in Kinds : counter'[p][k] \in 0..Cap /\ events'[p][k] \in Nat
    BY DEF CountersTypeOK
  <2>3. total' \in [Tools -> [Ports -> [Kinds -> Nat]]]
    BY <1>1 DEF CountersTypeOK
  <2>4. Cap \in Nat
    BY PerfCountersAssumption
  <2> QED BY <2>1, <2>2, <2>3, <2>4
<1>3. \A p \in Ports : Clean(t, p) => Clean(t, p)'
  BY <1>2 DEF Clean
<1>4. Monitors(t)' => Monitors(t)
  BY <1>1 DEF Monitors
<1>5. \A p \in Ports, k \in Kinds : total[t][p][k] <= events[p][k] => total'[t][p][k] <= events'[p][k]
  BY <1>2
<1> QED BY <1>3, <1>4, <1>5 DEF MonitorTool

\* A list goes on at its tail.
LEMMA TailReadsAndResets ==
  ASSUME NEW q \in Seq(Ops), q # <<>>, ReadAndReset(q), NEW b, b = Tail(q)
  PROVE  /\ ReadAndReset(b)
         /\ \A p \in Ports : Pending(q, p) /\ q[1] # Op("reset", p) => Pending(b, p)
         /\ \A p \in Ports : q[1] = Op("read", p) => Pending(b, p)
<1>1. /\ b \in Seq(Ops) /\ Len(q) \in Nat \ {0} /\ Len(b) = Len(q) - 1
      /\ \A i \in 1..Len(b) : b[i] = q[i + 1]
  BY TailIs
<1>2. \A i \in 1..Len(b) : i + 1 \in 1..Len(q) /\ i + 1 # 1
  BY <1>1
<1>3. \A i \in 1..Len(q) : i # 1 => i - 1 \in 1..Len(b) /\ b[i - 1] = q[i]
  <2> TAKE i \in 1..Len(q)
  <2>1. HAVE i # 1
  <2>2. i - 1 \in 1..Len(b) /\ (i - 1) + 1 = i
    BY <1>1, <2>1
  <2> QED BY <1>1, <2>2
<1>4. ReadAndReset(b)
  <2>1. ASSUME NEW i \in 1..Len(b), b[i].op = "read"
        PROVE  /\ \A j \in 1..Len(b) : b[j] = b[i] => j = i
               /\ \E j \in 1..Len(b) : j > i /\ b[j] = Op("reset", b[i].port)
    <3>1. i + 1 \in 1..Len(q) /\ q[i + 1] = b[i]
      BY <1>1, <1>2
    <3>2. ASSUME NEW j \in 1..Len(b), b[j] = b[i] PROVE j = i
      <4>1. j + 1 \in 1..Len(q) /\ q[j + 1] = b[j]
        BY <1>1, <1>2
      <4>2. j + 1 = i + 1
        BY <2>1, <3>1, <3>2, <4>1 DEF ReadAndReset
      <4> QED BY <4>2
    <3>3. PICK j \in 1..Len(q) : j > i + 1 /\ q[j] = Op("reset", b[i].port)
      BY <2>1, <3>1 DEF ReadAndReset
    <3>4. j - 1 \in 1..Len(b) /\ j - 1 > i /\ b[j - 1] = q[j]
      BY <1>1, <1>3, <3>3
    <3> QED BY <3>2, <3>3, <3>4
  <2> QED BY <2>1 DEF ReadAndReset
<1>5. ASSUME NEW p \in Ports, Pending(q, p), q[1] # Op("reset", p)
      PROVE  Pending(b, p)
  <2>1. PICK i \in 1..Len(q) : q[i] = Op("reset", p)
    BY <1>5 DEF Pending
  <2>2. i - 1 \in 1..Len(b) /\ b[i - 1] = Op("reset", p)
    BY <1>3, <1>5, <2>1
  <2>3. \A j \in 1..Len(b) : b[j] # Op("read", p)
    BY <1>1, <1>2, <1>5 DEF Pending
  <2> QED BY <2>2, <2>3 DEF Pending
<1>6. ASSUME NEW p \in Ports, q[1] = Op("read", p)
      PROVE  Pending(b, p)
  <2>1. 1 \in 1..Len(q) /\ q[1].op = "read" /\ q[1].port = p
    BY <1>1, <1>6, OpIs
  <2>2. PICK j \in 1..Len(q) : j > 1 /\ q[j] = Op("reset", p)
    BY <2>1 DEF ReadAndReset
  <2>3. j - 1 \in 1..Len(b) /\ b[j - 1] = Op("reset", p)
    BY <1>3, <2>2
  <2>4. ASSUME NEW i \in 1..Len(b) PROVE b[i] # Op("read", p)
    <3>1. i + 1 \in 1..Len(q) /\ i + 1 # 1 /\ q[i + 1] = b[i]
      BY <1>1, <1>2
    <3> QED BY <1>6, <2>1, <3>1 DEF ReadAndReset
  <2> QED BY <2>3, <2>4 DEF Pending
<1> QED BY <1>4, <1>5, <1>6

\* perfquery -r plans to reset what it reads.
LEMMA PlanReadsAndResets ==
  ASSUME PortsDiffer, NEW t, NEW q, NEW A \in Seq(Named), NEW B \in Seq(Named), Plan(t, q, A, B),
         Opt(t).reset = "after"
  PROVE  ReadAndReset(q)
<1>1. PICK n \in {0, 1} :
        /\ q \in Seq(Ops) /\ Len(q) = n + Len(A) + Len(B)
        /\ n = 1 => q[1] = Op("ports", 0)
        /\ \A i \in 1..Len(A) : q[n + i] = Op("read", A[i])
        /\ \A i \in 1..Len(B) : q[n + Len(A) + i] = Op("reset", B[i])
  BY DEF Plan, Planned
<1>2. n \in Nat /\ Len(A) \in Nat /\ A = B /\ Once(A)
  BY DEF Plan
<1> DEFINE N == Len(A)
<1>3. ASSUME NEW i \in 1..Len(q), q[i].op = "read"
      PROVE  \E j \in 1..N : i = n + j /\ q[i] = Op("read", A[j])
  <2>1. i <= n + N + N /\ i \in Nat /\ i >= 1
    BY <1>1, <1>2
  <2>2. ~(i <= n)
    <3>1. SUFFICES ASSUME i <= n PROVE FALSE
      OBVIOUS
    <3>2. n = 1 /\ i = 1
      BY <1>2, <2>1, <3>1
    <3> QED BY <1>1, <1>3, <3>2, OpIs
  <2>3. ~(i > n + N)
    <3>1. SUFFICES ASSUME i > n + N PROVE FALSE
      OBVIOUS
    <3> DEFINE m == i - n - N
    <3>2. m \in 1..N /\ i = n + N + m
      BY <1>2, <2>1, <3>1
    <3> HIDE DEF m
    <3>3. q[n + Len(A) + m] = Op("reset", B[m])
      BY <1>1, <1>2, <3>2
    <3> QED BY <1>3, <3>2, <3>3, OpIs
  <2>4. i - n \in 1..N /\ i = n + (i - n)
    BY <1>2, <2>1, <2>2, <2>3
  <2>5. q[n + (i - n)] = Op("read", A[i - n])
    BY <1>1, <2>4
  <2> QED BY <2>4, <2>5
<1>4. ASSUME NEW i \in 1..Len(q), q[i].op = "read"
      PROVE  /\ \A j \in 1..Len(q) : q[j] = q[i] => j = i
             /\ \E j \in 1..Len(q) : j > i /\ q[j] = Op("reset", q[i].port)
  <2>1. PICK a \in 1..N : i = n + a /\ q[i] = Op("read", A[a])
    BY <1>3, <1>4
  <2>2. ASSUME NEW j \in 1..Len(q), q[j] = q[i] PROVE j = i
    <3>1. q[j].op = "read"
      BY <1>4, <2>2
    <3>2. PICK b \in 1..N : j = n + b /\ q[j] = Op("read", A[b])
      BY <1>3, <3>1
    <3>3. A[a] = A[b]
      BY <2>1, <2>2, <3>2, OpIs
    <3> QED BY <1>2, <2>1, <3>2, <3>3 DEF Once
  <2>3. n + N + a \in 1..Len(q) /\ n + N + a > i
    BY <1>1, <1>2, <2>1
  <2>4. q[n + N + a] = Op("reset", q[i].port)
    BY <1>1, <1>2, <2>1, OpIs
  <2> QED BY <2>2, <2>3, <2>4
<1> QED BY <1>4 DEF ReadAndReset

\* A reset erases what it is for, and nothing else.
LEMMA ResetIs ==
  ASSUME CountersTypeOK, NEW t \in Tools, Reset(t)
  PROVE  /\ \A p \in Ports, k \in Kinds :
              /\ counter'[p][k] <= counter[p][k]
              /\ counter'[p][k] = IF todo[t][1].port \in {p, AllPorts} /\ k \in Mask(t) THEN 0
                                  ELSE counter[p][k]
         /\ phase[t] = "run" /\ todo[t] # <<>> /\ todo[t][1].op = "reset"
         /\ \A u \in Tools : u # t => sends'[u] = sends[u]
<1>1. counter' = [q \in Ports |-> [k \in Kinds |->
                   IF Head1(t).port \in {q, AllPorts} /\ k \in Mask(t) THEN 0 ELSE counter[q][k]]]
  BY DEF Reset
<1>2. ASSUME NEW p \in Ports, NEW k \in Kinds
      PROVE  counter'[p][k] = IF todo[t][1].port \in {p, AllPorts} /\ k \in Mask(t) THEN 0
                              ELSE counter[p][k]
  BY <1>1 DEF Head1
<1>3. \A p \in Ports, k \in Kinds : counter[p][k] \in Nat
  BY NumbersAre
<1>4. sends' = [sends EXCEPT ![t] = @ + 1] /\ sends \in [Tools -> Nat]
  BY DEF Reset, CountersTypeOK
<1> QED BY <1>2, <1>3, <1>4 DEF Reset, Doing, Head1

\* What happens to the tools that take no step.
LEMMA OthersStay ==
  ASSUME CountersInv, NEW t \in Tools, Step(t), NEW u \in Tools, u # t
  PROVE  /\ UNCHANGED <<scenario, allSelect, events>>
         /\ todo'[u] = todo[u] /\ phase'[u] = phase[u] /\ sends'[u] = sends[u] /\ seen'[u] = seen[u]
         /\ since'[u] = since[u] /\ first'[u] = first[u] /\ sum'[u] = sum[u] /\ bad'[u] = bad[u]
         /\ failures'[u] = failures[u] /\ total'[u] = total[u]
         /\ \A p \in Ports, k \in Kinds : counter'[p][k] <= counter[p][k]
<1>1. CountersTypeOK
  BY DEF CountersInv
<1>2. UNCHANGED counter => \A p \in Ports, k \in Kinds : counter'[p][k] <= counter[p][k]
  BY <1>1, NumbersAre
<1>3. CASE Plans(t)
  BY <1>1, <1>2, <1>3 DEF Plans, agent, CountersTypeOK
<1>4. CASE Stops(t)
  BY <1>1, <1>2, <1>4 DEF Stops, agent, CountersTypeOK
<1>5. CASE Drops(t)
  <2>1. failures'[u] = failures[u]
    BY <1>1, <1>5 DEF Drops, CountersTypeOK
  <2> QED BY <1>1, <1>2, <1>5, <2>1 DEF Drops, agent, CountersTypeOK
<1>6. CASE Read(t)
  <2>1. todo'[u] = todo[u]
    BY <1>1, <1>6 DEF Read, Go, CountersTypeOK
  <2>2. seen'[u] = seen[u] /\ since'[u] = since[u]
    BY <1>1, <1>6 DEF Read, CountersTypeOK
  <2>3. sum'[u] = sum[u] /\ bad'[u] = bad[u] /\ total'[u] = total[u]
    BY <1>1, <1>6 DEF Read, CountersTypeOK
  <2> QED BY <1>2, <1>6, <2>1, <2>2, <2>3 DEF Read, agent
<1>7. CASE Reset(t)
  <2>1. sends'[u] = sends[u] /\ \A p \in Ports, k \in Kinds : counter'[p][k] <= counter[p][k]
    BY <1>1, <1>7, ResetIs
  <2> QED BY <1>7, <2>1 DEF Reset, agent
<1>8. CASE Finish(t)
  BY <1>1, <1>2, <1>8 DEF Finish, agent, CountersTypeOK
<1>9. CASE Again(t)
  BY <1>1, <1>2, <1>9 DEF Again, agent, CountersTypeOK
<1> QED BY <1>3, <1>4, <1>5, <1>6, <1>7, <1>8, <1>9, StepIs

LEMMA EventIs ==
  ASSUME CountersTypeOK, NEW q \in Ports, NEW l \in Kinds, Event(q, l)
  PROVE  /\ UNCHANGED <<scenario, allSelect, todo, phase, sends, seen, since, first, sum, bad, failures, total, runs>>
         /\ \A p \in Ports, k \in Kinds :
              /\ events[p][k] <= events'[p][k]
              /\ counter[p][k] <= counter'[p][k]
              /\ counter'[p][k] - counter[p][k] <= events'[p][k] - events[p][k]
<1>1. Cap \in Nat
  BY PerfCountersAssumption
<1>2. ASSUME NEW p \in Ports, NEW k \in Kinds
      PROVE  /\ events[p][k] <= events'[p][k]
             /\ counter[p][k] <= counter'[p][k]
             /\ counter'[p][k] - counter[p][k] <= events'[p][k] - events[p][k]
  <2>0. counter \in [Ports -> [Kinds -> 0..Cap]] /\ events \in [Ports -> [Kinds -> Nat]]
    BY DEF CountersTypeOK
  <2>1. counter'[p][k] = IF p = q /\ k = l THEN Capped(counter[p][k] + 1) ELSE counter[p][k]
    BY <2>0 DEF Event
  <2>2. events'[p][k] = IF p = q /\ k = l THEN events[p][k] + 1 ELSE events[p][k]
    BY <2>0 DEF Event
  <2>3. counter[p][k] \in 0..Cap /\ events[p][k] \in Nat
    BY <2>0
  <2> HIDE DEF CountersTypeOK
  <2> QED BY <1>1, <2>1, <2>2, <2>3 DEF Capped
<1> QED BY <1>2 DEF Event

\* t's own steps.
LEMMA MonitorStep ==
  ASSUME PortsDiffer, CountersInv, CountersInv', NEW t \in Tools, MonitorTool(t), Step(t)
  PROVE  MonitorTool(t)'
<1>1. CountersTypeOK /\ CountersTypeOK' /\ OrderlyTool(Opt(t), phase[t], todo[t], sends[t])
  BY DEF CountersInv, Orderly
<1>2. /\ \A p \in Ports, k \in Kinds :
           counter[p][k] \in Nat /\ total[t][p][k] \in Nat /\ events[p][k] \in Nat
      /\ sends[t] \in Nat /\ todo[t] \in Seq(Ops)
  BY <1>1, NumbersAre DEF CountersTypeOK
<1>3. UNCHANGED scenario => Opt(t)' = Opt(t) /\ IsPerfquery(t)' = IsPerfquery(t)
  BY ScenarioStays
<1>4. CASE Plans(t)
  <2>1. UNCHANGED <<scenario, counter, phase, sends, events, total>>
    BY <1>4 DEF Plans, agent
  <2>2. PICK q : todo' = [todo EXCEPT ![t] = q] /\ (IsPerfquery(t) => q = PerfqueryPlan(t))
    BY <1>4 DEF Plans
  <2>3. todo'[t] = q
    BY <1>1, <2>2 DEF CountersTypeOK
  <2>4. todo[t] = <<Op("caps", 0)>>
    BY <1>4 DEF Plans
  <2>5. SUFFICES ASSUME Monitors(t)
        PROVE  /\ ReadAndReset(q)
               /\ \A p \in Ports :
                    /\ \A k \in Kinds : total[t][p][k] <= events[p][k]
                    /\ Clean(t, p)
    BY <1>3, <2>1, <2>3 DEF MonitorTool, Monitors, Clean
  <2>6. \A p : ~Pending(todo[t], p)
    BY <2>4, OpIs DEF Pending
  <2>7. ReadAndReset(q)
    <3>1. CASE q = <<Op("exit", 0)>>
      BY <3>1, OpIs DEF ReadAndReset
    <3>2. ASSUME NEW A \in Seq(Named), NEW B \in Seq(Named), Plan(t, q, A, B)
          PROVE  ReadAndReset(q)
      BY <2>5, <3>2, PlanReadsAndResets DEF Monitors
    <3>3. scenario \in Scenarios /\ IsPerfquery(t)
      BY <1>1, <2>5 DEF CountersTypeOK, Monitors
    <3> QED BY <2>2, <3>1, <3>2, <3>3, PerfqueryPlanIs
  <2> QED BY <2>5, <2>6, <2>7 DEF MonitorTool
<1>5. CASE Stops(t)
  <2>1. phase'[t] = "exit"
    BY <1>1, <1>5 DEF Stops, CountersTypeOK
  <2> QED BY <2>1 DEF MonitorTool, Monitors
<1>6. CASE Drops(t)
  <2>1. UNCHANGED <<scenario, counter, phase, events, total>>
    BY <1>6 DEF Drops, agent
  <2> DEFINE b == Tail(todo[t])
  <2>2. todo'[t] = b /\ sends'[t] = 0
    BY <1>1, <1>6 DEF Drops, CountersTypeOK
  <2>20. ~(sends'[t] > 0)
    BY <2>2
  <2>3. todo[t] # <<>>
    BY <1>6 DEF Drops
  <2> HIDE DEF b
  <2>4. SUFFICES ASSUME Monitors(t)
        PROVE  /\ ReadAndReset(b)
               /\ \A p \in Ports :
                    /\ \A k \in Kinds : total[t][p][k] <= events[p][k]
                    /\ Clean(t, p) \/ Pending(b, p)
    <3>1. ReadAndReset(todo[t])' = ReadAndReset(todo'[t]) /\ \A p : Pending(todo[t], p)' = Pending(todo'[t], p)
      BY DEF ReadAndReset, Pending
    <3>2. \A p \in Ports : Clean(t, p) => Clean(t, p)'
      BY <2>1 DEF Clean
    <3>3. Monitors(t)' => Monitors(t)
      BY <1>3, <2>1 DEF Monitors
    <3> QED BY <2>1, <2>2, <2>20, <3>1, <3>2, <3>3 DEF MonitorTool
  <2>5. /\ ReadAndReset(todo[t])
        /\ \A p \in Ports :
             /\ \A k \in Kinds : total[t][p][k] <= events[p][k]
             /\ Clean(t, p) \/ Pending(todo[t], p)
             /\ sends[t] > 0 /\ todo[t][1].port \in {p, AllPorts} => Clean(t, p)
    BY <2>4 DEF MonitorTool
  <2>6. /\ ReadAndReset(b)
        /\ \A p \in Ports : Pending(todo[t], p) /\ todo[t][1] # Op("reset", p) => Pending(b, p)
    BY <1>2, <2>3, <2>5, TailReadsAndResets DEF b
  <2>7. ASSUME NEW p \in Ports PROVE Clean(t, p) \/ Pending(b, p)
    <3>1. CASE todo[t][1] = Op("reset", p)
      <4>1. sends[t] > 0 /\ todo[t][1].port \in {p, AllPorts}
        BY <1>6, <2>4, <3>1, OpIs DEF Drops, Monitors
      <4> QED BY <2>5, <4>1
    <3>2. CASE todo[t][1] # Op("reset", p)
      BY <2>5, <2>6, <3>2
    <3> QED BY <3>1, <3>2
  <2> QED BY <2>5, <2>6, <2>7
<1>7. CASE Read(t)
  <2>1. UNCHANGED <<scenario, counter, phase, events, sends>>
    BY <1>7 DEF Read, agent
  <2>2. /\ phase[t] = "run" /\ todo[t] # <<>> /\ todo[t][1].op = "read" /\ todo[t][1].port \in Named
        /\ sends[t] = 0 /\ \E q : AfterRead(t, q) /\ todo' = [todo EXCEPT ![t] = q]
    BY <1>7, ReadIs DEF CountersInv
  <2> DEFINE b == Tail(todo[t])
             z == todo[t][1].port
  <2>3. Monitors(t) => todo'[t] = b
    BY <1>1, <2>2 DEF Monitors, AfterRead, CountersTypeOK
  <2>4. \A p \in Ports : p # z => total'[t][p] = total[t][p]
    BY <1>1, <1>7 DEF Read, Head1, CountersTypeOK
  <2>5. z \in Ports => \A k \in Kinds : total'[t][z][k] = total[t][z][k] + counter[z][k]
    <3>1. HAVE z \in Ports
    <3>2. z # AllPorts /\ Value(z) = counter[z]
      BY <1>1, <2>2, <3>1, ValueIs, PortsAre
    <3>3. total' = [total EXCEPT ![t][z] = [k \in Kinds |-> @[k] + Value(z)[k]]]
      BY <1>7, <3>2 DEF Read, Head1
    <3>4. total \in [Tools -> [Ports -> [Kinds -> Nat]]]
      BY <1>1 DEF CountersTypeOK
    <3> HIDE DEF z
    <3> QED BY <3>1, <3>2, <3>3, <3>4
  <2>6. todo[t][1] = Op("read", z)
    <3>1. todo[t][1] \in Ops
      BY <1>2, <2>2, TailIs
    <3> QED BY <2>2, <3>1, OpIs
  <2>60. ~(sends'[t] > 0)
    BY <2>1, <2>2
  <2> HIDE DEF b, z
  <2>7. SUFFICES ASSUME Monitors(t)
        PROVE  /\ ReadAndReset(b)
               /\ \A p \in Ports :
                    /\ \A k \in Kinds : total'[t][p][k] <= events[p][k]
                    /\ (\A k \in Kinds : counter[p][k] + total'[t][p][k] <= events[p][k]) \/ Pending(b, p)
    <3>1. Monitors(t)' => Monitors(t) /\ todo'[t] = b
      BY <1>3, <2>1, <2>3 DEF Monitors
    <3>2. \A p \in Ports :
            (\A k \in Kinds : counter[p][k] + total'[t][p][k] <= events[p][k]) => Clean(t, p)'
      BY <2>1 DEF Clean
    <3> QED BY <2>1, <2>60, <3>1, <3>2 DEF MonitorTool
  <2>8. /\ ReadAndReset(todo[t])
        /\ \A p \in Ports :
             /\ \A k \in Kinds : total[t][p][k] <= events[p][k]
             /\ Clean(t, p) \/ Pending(todo[t], p)
    BY <2>7 DEF MonitorTool
  <2>9. /\ ReadAndReset(b)
        /\ \A p \in Ports : Pending(todo[t], p) /\ todo[t][1] # Op("reset", p) => Pending(b, p)
        /\ \A p \in Ports : todo[t][1] = Op("read", p) => Pending(b, p)
    BY <1>2, <2>2, <2>8, TailReadsAndResets DEF b
  <2>10. ASSUME NEW p \in Ports
         PROVE  /\ \A k \in Kinds : total'[t][p][k] <= events[p][k]
                /\ (\A k \in Kinds : counter[p][k] + total'[t][p][k] <= events[p][k]) \/ Pending(b, p)
    <3>1. CASE p = z
      <4>1. ~Pending(todo[t], p)
        <5>1. 1 \in 1..Len(todo[t])
          BY <1>2, <2>2, TailIs
        <5> QED BY <2>6, <3>1, <5>1 DEF Pending
      <4>2. Clean(t, p)
        BY <2>8, <4>1
      <4>3. \A k \in Kinds : total'[t][p][k] <= events[p][k]
        BY <1>2, <2>5, <3>1, <4>2 DEF Clean
      <4>4. Pending(b, p)
        BY <2>6, <2>9, <3>1
      <4> QED BY <4>3, <4>4
    <3>2. CASE p # z
      <4>1. total'[t][p] = total[t][p]
        BY <2>4, <3>2
      <4>2. todo[t][1] # Op("reset", p)
        BY <2>2, OpIs
      <4> QED BY <2>8, <2>9, <4>1, <4>2 DEF Clean
    <3> QED BY <3>1, <3>2
  <2> QED BY <2>9, <2>10
<1>8. CASE Reset(t)
  <2>1. UNCHANGED <<scenario, phase, events, todo, total>>
    BY <1>8 DEF Reset, agent
  <2>2. \A p \in Ports, k \in Kinds :
          /\ counter'[p][k] <= counter[p][k] /\ counter'[p][k] \in Nat
          /\ todo[t][1].port \in {p, AllPorts} /\ k \in Mask(t) => counter'[p][k] = 0
    BY <1>1, <1>2, <1>8, ResetIs
  <2>3. SUFFICES ASSUME Monitors(t)
        PROVE  /\ ReadAndReset(todo[t])
               /\ \A p \in Ports :
                    /\ \A k \in Kinds : total[t][p][k] <= events[p][k]
                    /\ Clean(t, p) => \A k \in Kinds : counter'[p][k] + total[t][p][k] <= events[p][k]
                    /\ Clean(t, p) \/ Pending(todo[t], p)
                    /\ todo[t][1].port \in {p, AllPorts} =>
                         \A k \in Kinds : counter'[p][k] + total[t][p][k] <= events[p][k]
    BY <1>3, <2>1 DEF MonitorTool, Monitors, Clean
  <2>4. /\ ReadAndReset(todo[t])
        /\ \A p \in Ports :
             /\ \A k \in Kinds : total[t][p][k] <= events[p][k]
             /\ Clean(t, p) \/ Pending(todo[t], p)
    BY <2>3 DEF MonitorTool
  <2>5. ASSUME NEW p \in Ports, Clean(t, p), NEW k \in Kinds
        PROVE  counter'[p][k] + total[t][p][k] <= events[p][k]
    <3>1. counter[p][k] + total[t][p][k] <= events[p][k]
      BY <2>5 DEF Clean
    <3> QED BY <1>2, <2>2, <3>1
  <2>6. ASSUME NEW p \in Ports, todo[t][1].port \in {p, AllPorts}, NEW k \in Kinds
        PROVE  counter'[p][k] + total[t][p][k] <= events[p][k]
    <3>1. k \in Mask(t)
      BY <2>3 DEF Mask, Monitors
    <3>2. counter'[p][k] = 0 /\ total[t][p][k] <= events[p][k]
      BY <2>2, <2>4, <2>6, <3>1
    <3> QED BY <1>2, <3>2
  <2> QED BY <2>4, <2>5, <2>6
<1>9. CASE Finish(t)
  <2>1. UNCHANGED <<scenario, counter, events, todo, sends, total>> /\ phase[t] = "run"
    BY <1>9 DEF Finish, agent
  <2>2. Monitors(t)' => Monitors(t)
    BY <1>3, <2>1 DEF Monitors
  <2> QED BY <2>1, <2>2 DEF MonitorTool, Clean
<1>10. CASE Again(t)
  <2>1. UNCHANGED <<scenario, counter, events, sends, total>> /\ phase[t] = "done" /\ todo[t] = <<>>
    BY <1>1, <1>10 DEF Again, agent, OrderlyTool
  <2>2. todo'[t] = <<Op("caps", 0)>> /\ sends[t] = 0
    <3>1. sends[t] = 0
      BY <1>1, <1>2, <2>1 DEF OrderlyTool
    <3> QED BY <1>1, <1>10, <3>1 DEF Again, CountersTypeOK
  <2>3. Monitors(t)' => Monitors(t)
    BY <1>3, <2>1 DEF Monitors
  <2>4. \A p : ~Pending(todo[t], p)
    BY <2>1 DEF Pending
  <2>5. ReadAndReset(<<Op("caps", 0)>>)
    BY OpIs DEF ReadAndReset
  <2> QED BY <2>1, <2>2, <2>3, <2>4, <2>5 DEF MonitorTool, Clean
<1> QED BY <1>4, <1>5, <1>6, <1>7, <1>8, <1>9, <1>10, StepIs DEF CountersInv

LEMMA MonitorInvStep ==
  ASSUME PortsDiffer, CountersInv, CountersInv', MonitorInv, [CountersNext]_countervars
  PROVE  MonitorInv'
<1>1. CountersTypeOK /\ CountersTypeOK'
  BY DEF CountersInv
<1>2. \A t \in Tools, p \in Ports, k \in Kinds :
        counter[p][k] \in Nat /\ total[t][p][k] \in Nat /\ events[p][k] \in Nat
  BY <1>1, NumbersAre
<1>3. CASE UNCHANGED countervars
  <2>1. UNCHANGED <<scenario, events, counter, todo, phase, sends, total>>
    BY <1>3 DEF countervars, agent
  <2>2. ASSUME NEW t \in Tools PROVE MonitorTool(t)'
    <3>1. MonitorTool(t)
      BY DEF MonitorInv
    <3>2. \A p \in Ports, k \in Kinds : /\ events[p][k] <= events'[p][k]
                                        /\ counter'[p][k] - counter[p][k] <= events'[p][k] - events[p][k]
      BY <1>2, <2>1
    <3> QED BY <1>1, <2>1, <3>1, <3>2, MonitorStays
  <2> QED BY <2>1, <2>2, ScenarioStays DEF MonitorInv
<1>4. CASE \E q \in Ports, l \in Kinds : Event(q, l)
  <2>1. PICK q \in Ports, l \in Kinds : Event(q, l)
    BY <1>4
  <2>2. /\ UNCHANGED <<scenario, todo, phase, sends, total>>
        /\ \A p \in Ports, k \in Kinds :
              /\ events[p][k] <= events'[p][k]
              /\ counter'[p][k] - counter[p][k] <= events'[p][k] - events[p][k]
    BY <1>1, <2>1, EventIs
  <2>3. ASSUME NEW t \in Tools PROVE MonitorTool(t)'
    <3>1. MonitorTool(t)
      BY DEF MonitorInv
    <3> QED BY <1>1, <2>2, <3>1, MonitorStays
  <2> QED BY <2>2, <2>3, ScenarioStays DEF MonitorInv
<1>5. CASE \E t \in Tools : Step(t)
  <2>1. PICK t \in Tools : Step(t)
    BY <1>5
  <2>2. UNCHANGED scenario
    BY <2>1, StepIs DEF Plans, Stops, Drops, Read, Reset, Finish, Again, agent
  <2>3. ASSUME NEW u \in Tools PROVE MonitorTool(u)'
    <3>1. MonitorTool(u)
      BY DEF MonitorInv
    <3>2. CASE u = t
      BY <2>1, <3>1, <3>2, MonitorStep
    <3>3. CASE u # t
      <4>1. /\ UNCHANGED <<scenario, events>>
            /\ todo'[u] = todo[u] /\ phase'[u] = phase[u] /\ sends'[u] = sends[u] /\ total'[u] = total[u]
            /\ \A p \in Ports, k \in Kinds : counter'[p][k] <= counter[p][k]
        BY <2>1, <3>3, OthersStay
      <4>2. \A p \in Ports, k \in Kinds : counter'[p][k] \in Nat
        BY <1>1, PerfCountersAssumption DEF CountersTypeOK
      <4>3. \A p \in Ports, k \in Kinds :
               /\ events[p][k] <= events'[p][k]
               /\ counter'[p][k] - counter[p][k] <= events'[p][k] - events[p][k]
        BY <1>2, <4>1, <4>2
      <4> QED BY <1>1, <3>1, <4>1, <4>3, MonitorStays
    <3> QED BY <3>2, <3>3
  <2> QED BY <2>2, <2>3, ScenarioStays DEF MonitorInv
<1> QED BY <1>3, <1>4, <1>5 DEF CountersNext

LEMMA MonitorInvInit ==
  ASSUME CountersInit
  PROVE  MonitorInv
<1>1. CountersInv
  BY CountersInitTyped
<1>2. ASSUME NEW t \in Tools PROVE MonitorTool(t)
  <2>1. /\ todo[t] = <<Op("caps", 0)>> /\ sends[t] = 0 /\ events = counter
        /\ total[t] = [p \in Ports |-> Zero]
    BY DEF CountersInit
  <2>2. \A p \in Ports, k \in Kinds : total[t][p][k] = 0
    BY <2>1 DEF Zero
  <2>3. \A p \in Ports, k \in Kinds : counter[p][k] \in Nat
    BY <1>1, NumbersAre DEF CountersInv
  <2>4. ReadAndReset(todo[t])
    BY <2>1, OpIs DEF ReadAndReset
  <2> QED BY <2>1, <2>2, <2>3, <2>4 DEF MonitorTool, Clean
<1> QED BY <1>2 DEF MonitorInv

\* A monitor that runs perfquery -r again and again reports no event twice, whatever
\* the ports, the caps, the bounds and the tools beside it (common_func and main's loops
\* in perfquery.c), if no port is named twice.
THEOREM NothingIsReportedTwice == ASSUME PortsDiffer PROVE CountersSpec => []NothingReportedTwice
<1>1. CountersInit => CountersInv /\ MonitorInv
  BY CountersInitTyped, MonitorInvInit
<1>2. CountersInv /\ MonitorInv /\ [CountersNext]_countervars => (CountersInv /\ MonitorInv)'
  BY CountersInvStep, MonitorInvStep
<1>3. MonitorInv => NothingReportedTwice
  BY DEF MonitorInv, MonitorTool, Monitors, NothingReportedTwice
<1> QED BY <1>1, <1>2, <1>3, PTL DEF CountersSpec

------------------------------------------------------------------------------
(* ErasedWasRead. *)

\* The ports that t has read.
HaveRead(t) == {p \in Ports : \A k \in Reads(t) : HasRead(t, p, k)}

\* What is to be reset is in H, or is read before.
Justified(q, H) ==
  \A p \in Ports, i \in 1..Len(q) :
    Covers(q[i], "reset", p) =>
      \/ p \in H
      \/ \E j \in 1..(i - 1) : Covers(q[j], "read", p)

OnlyResets(t) == IsPerfquery(t) /\ Opt(t).reset = "only"

\* What was read of a counter, it has not grown beyond but by what was counted since.
SeenIsTrue(t) ==
  \A p \in Ports, k \in Kinds :
    seen[t][p][k] # Unread =>
      k \in Reads(t) /\ counter[p][k] <= seen[t][p][k] + (events[p][k] - since[t][p][k])

ReadTool(t) ==
  /\ SeenIsTrue(t)
  /\ ~OnlyResets(t) /\ failures[t] = 0 => Justified(todo[t], HaveRead(t))

ReadInv == \A t \in Tools : ReadTool(t)

LEMMA SeenNumbersAre ==
  ASSUME CountersTypeOK
  PROVE  \A t \in Tools, p \in Ports, k \in Kinds :
           /\ counter[p][k] \in Nat /\ events[p][k] \in Nat /\ since[t][p][k] \in Nat
           /\ seen[t][p][k] \in Int
<1>1. Cap \in Nat /\ Unread \in Int /\ Ports \subseteq Named
  BY PerfCountersAssumption DEF Unread, Named
<1>2. \A t \in Tools, p \in Ports, k \in Kinds :
        counter[p][k] \in 0..Cap /\ events[p][k] \in Nat /\ since[t][p][k] \in Nat
  BY DEF CountersTypeOK
<1>3. \A t \in Tools, p \in Ports, k \in Kinds : seen[t][p][k] \in (0..Cap) \cup {Unread}
  BY <1>1 DEF CountersTypeOK
<1> QED BY <1>1, <1>2, <1>3

\* As long as what t has seen stays, SeenIsTrue does.
LEMMA SeenStays ==
  ASSUME CountersTypeOK, CountersTypeOK', UNCHANGED scenario, NEW t \in Tools, SeenIsTrue(t),
         seen'[t] = seen[t], since'[t] = since[t],
         \A p \in Ports, k \in Kinds :
           counter'[p][k] - counter[p][k] <= events'[p][k] - events[p][k]
  PROVE  SeenIsTrue(t)'
<1>1. Tools' = Tools /\ Opt(t)' = Opt(t) /\ Reads(t)' = Reads(t)
  BY ScenarioStays DEF Reads
<1>2. \A p \in Ports, k \in Kinds :
        /\ counter[p][k] \in Nat /\ events[p][k] \in Nat /\ since[t][p][k] \in Nat
        /\ seen[t][p][k] \in Int
  BY SeenNumbersAre
<1>3. \A p \in Ports, k \in Kinds : counter'[p][k] \in Int /\ events'[p][k] \in Int
  <2>1. counter' \in [Ports -> [Kinds -> 0..Cap]] /\ events' \in [Ports -> [Kinds -> Nat]]
    BY DEF CountersTypeOK
  <2> QED BY <2>1, PerfCountersAssumption
<1>4. ASSUME NEW p \in Ports, NEW k \in Kinds, seen'[t][p][k] # Unread
      PROVE  k \in Reads(t) /\ counter'[p][k] <= seen'[t][p][k] + (events'[p][k] - since'[t][p][k])
  <2>1. k \in Reads(t) /\ counter[p][k] <= seen[t][p][k] + (events[p][k] - since[t][p][k])
    BY <1>4 DEF SeenIsTrue
  <2> QED BY <1>2, <1>3, <2>1
<1> QED BY <1>1, <1>4 DEF SeenIsTrue

LEMMA ReadStays ==
  ASSUME CountersTypeOK, CountersTypeOK', UNCHANGED scenario, NEW t \in Tools, ReadTool(t),
         seen'[t] = seen[t], since'[t] = since[t], todo'[t] = todo[t], failures'[t] = failures[t],
         \A p \in Ports, k \in Kinds :
           counter'[p][k] - counter[p][k] <= events'[p][k] - events[p][k]
  PROVE  ReadTool(t)'
<1>1. SeenIsTrue(t)'
  BY SeenStays DEF ReadTool
<1>2. Opt(t)' = Opt(t) /\ IsPerfquery(t)' = IsPerfquery(t) /\ Reads(t)' = Reads(t)
  BY ScenarioStays DEF Reads
<1>3. OnlyResets(t)' = OnlyResets(t)
  BY <1>2 DEF OnlyResets
<1>4. HaveRead(t)' = HaveRead(t)
  BY <1>2 DEF HaveRead, HasRead
<1> QED BY <1>1, <1>3, <1>4 DEF ReadTool

\* What is read in the meantime is not missed either.
LEMMA MoreIsJustified ==
  ASSUME NEW H, NEW a \in Seq(Ops), NoResets(a), NEW b \in Seq(Ops), Justified(b, H)
  PROVE  Justified(a \o b, H)
<1> DEFINE q == a \o b
<1>1. /\ q \in Seq(Ops) /\ Len(q) = Len(a) + Len(b)
      /\ \A i \in 1..Len(a) : q[i] = a[i]
      /\ \A i \in 1..Len(b) : q[Len(a) + i] = b[i]
      /\ \A i \in 1..Len(q) : \/ i \in 1..Len(a)
                              \/ i - Len(a) \in 1..Len(b) /\ i = Len(a) + (i - Len(a))
  BY OpsOfBoth
<1> HIDE DEF q
<1>2. Len(a) \in Nat /\ Len(b) \in Nat
  OBVIOUS
<1>3. ASSUME NEW p \in Ports, NEW i \in 1..Len(q), Covers(q[i], "reset", p),
             p \notin H
      PROVE  \E j \in 1..(i - 1) : Covers(q[j], "read", p)
  <2> DEFINE m == i - Len(a)
  <2>1. m \in 1..Len(b) /\ i = Len(a) + m
    <3>1. i \notin 1..Len(a)
      BY <1>1, <1>3 DEF Covers, NoResets
    <3> QED BY <1>1, <3>1
  <2> HIDE DEF m
  <2>2. Covers(b[m], "reset", p)
    BY <1>1, <1>3, <2>1
  <2>3. PICK j \in 1..(m - 1) : Covers(b[j], "read", p)
    BY <1>3, <2>1, <2>2 DEF Justified
  <2>4. j \in 1..Len(b) /\ Len(a) + j \in 1..(i - 1)
    BY <1>2, <2>1
  <2>5. q[Len(a) + j] = b[j]
    BY <1>1, <2>4
  <2> QED BY <2>3, <2>4, <2>5
<1>4. Justified(q, H)
  BY <1>3 DEF Justified
<1> QED BY <1>4 DEF q

\* A list goes on at its tail, with what its head has shown, if that was a read.
LEMMA TailIsJustified ==
  ASSUME NEW H, NEW q \in Seq(Ops), q # <<>>, NEW b, b = Tail(q), Justified(q, H),
         NEW G, H \subseteq G, \A p \in Ports : Covers(q[1], "read", p) => p \in G
  PROVE  Justified(b, G)
<1>1. /\ b \in Seq(Ops) /\ Len(q) \in Nat \ {0} /\ Len(b) = Len(q) - 1
      /\ \A i \in 1..Len(b) : b[i] = q[i + 1]
  BY TailIs
<1>2. ASSUME NEW p \in Ports, NEW i \in 1..Len(b), Covers(b[i], "reset", p),
             p \notin G
      PROVE  \E j \in 1..(i - 1) : Covers(b[j], "read", p)
  <2>1. i + 1 \in 1..Len(q) /\ b[i] = q[i + 1]
    BY <1>1
  <2>2. PICK j \in 1..(i + 1 - 1) : Covers(q[j], "read", p)
    BY <1>2, <2>1 DEF Justified
  <2>3. j # 1
    BY <1>2, <2>2
  <2>4. j - 1 \in 1..(i - 1) /\ j - 1 \in 1..Len(b) /\ (j - 1) + 1 = j
    BY <1>1, <2>3
  <2>5. b[j - 1] = q[j]
    BY <1>1, <2>4
  <2> QED BY <2>2, <2>4, <2>5
<1> QED BY <1>2 DEF Justified

\* t's own steps.
LEMMA ReadToolStep ==
  ASSUME CountersInv, CountersInv', NEW t \in Tools, ReadTool(t), Step(t)
  PROVE  ReadTool(t)'
<1>1. CountersTypeOK /\ CountersTypeOK' /\ OrderlyTool(Opt(t), phase[t], todo[t], sends[t])
  BY DEF CountersInv, Orderly
<1>2. /\ \A p \in Ports, k \in Kinds :
           /\ counter[p][k] \in Nat /\ events[p][k] \in Nat /\ since[t][p][k] \in Nat
           /\ seen[t][p][k] \in Int
      /\ failures[t] \in Nat /\ todo[t] \in Seq(Ops)
  BY <1>1, SeenNumbersAre DEF CountersTypeOK
<1>3. UNCHANGED scenario => /\ Opt(t)' = Opt(t) /\ IsPerfquery(t)' = IsPerfquery(t)
                            /\ OnlyResets(t)' = OnlyResets(t) /\ Reads(t)' = Reads(t)
  BY ScenarioStays DEF OnlyResets, Reads
<1>4. UNCHANGED scenario /\ seen'[t] = seen[t] => HaveRead(t)' = HaveRead(t)
  BY <1>3 DEF HaveRead, HasRead
<1>5. UNCHANGED <<scenario, counter, events, seen, since>> => SeenIsTrue(t)'
  BY <1>3 DEF ReadTool, SeenIsTrue
<1>6. CASE Plans(t)
  <2>1. UNCHANGED <<scenario, counter, events, seen, since>>
    BY <1>6 DEF Plans, agent
  <2>2. PICK q : /\ todo' = [todo EXCEPT ![t] = q]
                 /\ IsPerfquery(t) => q = PerfqueryPlan(t)
                 /\ ~IsPerfquery(t) => \E all \in BOOLEAN : q = PrintNodePlan(t, all)
    BY <1>6 DEF Plans
  <2>3. todo'[t] = q
    BY <1>1, <2>2 DEF CountersTypeOK
  <2>4. SUFFICES ASSUME ~OnlyResets(t) PROVE ReadFirst(q)
    BY <1>3, <1>5, <2>1, <2>3 DEF ReadTool, Justified, ReadFirst
  <2>5. CASE IsPerfquery(t)
    <3>1. scenario \in Scenarios
      BY <1>1 DEF CountersTypeOK
    <3>2. Opt(t).reset \in {"no", "after"}
      BY <2>4, <2>5, <3>1, OptionsAre DEF OnlyResets
    <3>3. CASE q = <<Op("exit", 0)>>
      BY <3>3, OpIs DEF ReadFirst, Covers
    <3>4. ASSUME NEW A \in Seq(Named), NEW B \in Seq(Named), Plan(t, q, A, B)
          PROVE  ReadFirst(q)
      BY <3>2, <3>4, PlanReadsFirst
    <3> QED BY <2>2, <2>5, <3>1, <3>3, <3>4, PerfqueryPlanIs
  <2>6. CASE ~IsPerfquery(t)
    BY <2>2, <2>6, PrintNodePlanIs DEF Thorough
  <2> QED BY <2>5, <2>6
<1>7. CASE Stops(t)
  <2>1. UNCHANGED <<scenario, counter, events, seen, since>>
    BY <1>7 DEF Stops, agent
  <2>2. todo'[t] = <<>>
    BY <1>1, <1>7 DEF Stops, CountersTypeOK
  <2> QED BY <1>5, <2>1, <2>2 DEF ReadTool, Justified
<1>8. CASE Drops(t)
  <2>1. UNCHANGED <<scenario, counter, events, seen, since>> /\ todo[t] # <<>>
    BY <1>8 DEF Drops, agent
  <2> DEFINE b == Tail(todo[t])
  <2>2. todo'[t] = b
    BY <1>1, <1>8 DEF Drops, CountersTypeOK
  <2> HIDE DEF b
  <2>3. CASE todo[t][1].op = "read"
    <3>1. failures'[t] # 0
      BY <1>1, <1>2, <1>8, <2>3 DEF Drops, CountersTypeOK
    <3> QED BY <1>5, <2>1, <3>1 DEF ReadTool
  <2>4. CASE todo[t][1].op # "read"
    <3>1. failures'[t] = failures[t]
      BY <1>8, <2>4 DEF Drops
    <3>2. Justified(todo[t], HaveRead(t)) => Justified(b, HaveRead(t))
      <4> DEFINE H == HaveRead(t)
      <4>1. \A p \in Ports : Covers(todo[t][1], "read", p) => p \in H
        BY <2>4 DEF Covers
      <4> HIDE DEF H
      <4>2. Justified(todo[t], H) => Justified(b, H)
        BY <1>2, <2>1, <4>1, TailIsJustified DEF b
      <4> QED BY <4>2 DEF H
    <3> QED BY <1>3, <1>4, <1>5, <2>1, <2>2, <3>1, <3>2 DEF ReadTool
  <2> QED BY <2>3, <2>4
<1>9. CASE Read(t)
  <2>1. UNCHANGED <<scenario, counter, events, failures>>
    BY <1>9 DEF Read, agent
  <2>2. /\ todo[t] # <<>> /\ todo[t][1].op = "read" /\ todo[t][1].port \in Named
    BY <1>9, ReadIs DEF CountersInv
  <2>3. PICK q : AfterRead(t, q) /\ todo' = [todo EXCEPT ![t] = q]
    BY <1>9, ReadIs DEF CountersInv
  <2>4. todo'[t] = q
    BY <1>1, <2>3 DEF CountersTypeOK
  <2> DEFINE z == todo[t][1].port
             b == Tail(todo[t])
             H == HaveRead(t)
             G == HaveRead(t)'
  <2>5. seen' = [seen EXCEPT ![t][z] = [k \in Kinds |-> IF k \in Reads(t) THEN Value(z)[k] ELSE @[k]]]
    BY <1>9 DEF Read, Head1
  <2>6. since' = IF z = AllPorts THEN since ELSE [since EXCEPT ![t][z] = events[z]]
    BY <1>9 DEF Read, Head1
  <2>7. Value(z) \in [Kinds -> 0..Cap] /\ (z \in Ports => Value(z) = counter[z])
    BY <1>1, <2>2, ValueIs
  <2>8. z \in Named /\ (z # AllPorts => z \in Ports) /\ (z \in Ports => z # AllPorts)
    BY <2>2, PortsAre DEF Named
  <2>9. Reads(t) \subseteq Kinds
    BY DEF Reads, Kinds
  <2> HIDE DEF z
  <2>10. /\ \A p \in Named : p # z => seen'[t][p] = seen[t][p]
         /\ \A k \in Kinds : seen'[t][z][k] = IF k \in Reads(t) THEN Value(z)[k] ELSE seen[t][z][k]
    BY <1>1, <2>5, <2>8 DEF CountersTypeOK
  <2>11. \A p \in Ports : since'[t][p] = IF p = z THEN events[p] ELSE since[t][p]
    <3>1. since \in [Tools -> [Ports -> [Kinds -> Nat]]]
      BY <1>1 DEF CountersTypeOK
    <3> QED BY <2>6, <2>8, <3>1
  <2>12. \A k \in Reads(t) : seen'[t][z][k] # Unread
    <3>1. \A n \in 0..Cap : n # Unread
      BY PerfCountersAssumption DEF Unread
    <3> QED BY <2>7, <2>9, <2>10, <3>1
  <2>13. ASSUME NEW p \in Ports, NEW k \in Reads(t), HasRead(t, p, k) \/ z \in {p, AllPorts}
         PROVE  HasRead(t, p, k)'
    <3>1. {p, AllPorts} \subseteq Named
      BY DEF Named
    <3>2. CASE z \in {p, AllPorts}
      BY <2>12, <3>2 DEF HasRead
    <3>3. CASE z \notin {p, AllPorts}
      <4>1. PICK r \in {p, AllPorts} : seen[t][r][k] # Unread
        BY <2>13, <3>3 DEF HasRead
      <4>2. seen'[t][r][k] # Unread
        BY <2>10, <3>1, <3>3, <4>1
      <4> QED BY <4>2 DEF HasRead
    <3> QED BY <3>2, <3>3
  <2>14. H \subseteq G /\ \A p \in Ports : z \in {p, AllPorts} => p \in G
    BY <1>3, <2>1, <2>13 DEF HaveRead
  <2>15. Justified(todo[t], H) => Justified(q, G)
    <3> HIDE DEF H, G, b
    <3>1. HAVE Justified(todo[t], H)
    <3>2. \A p \in Ports : Covers(todo[t][1], "read", p) => p \in G
      BY <2>14 DEF Covers, z
    <3>3. Justified(b, G)
      BY <1>2, <2>2, <2>14, <3>1, <3>2, TailIsJustified DEF b
    <3>4. EachPort(t, FALSE) \in Seq(Ops) /\ NoResets(EachPort(t, FALSE))
      <4> DEFINE c == FALSE /\ Opt(t).clear # {}
      <4>1. Visits(EachPort(t, FALSE), c, Len(PortList)) /\ c = FALSE
        BY EachPortVisits
      <4> HIDE DEF c
      <4> QED BY <4>1, VisitsAreThorough DEF Thorough
    <3>5. b \in Seq(Ops)
      BY <1>2, <2>2, TailIs DEF b
    <3>6. Justified(EachPort(t, FALSE) \o b, G)
      BY <3>3, <3>4, <3>5, MoreIsJustified
    <3> QED BY <2>3, <3>3, <3>6 DEF AfterRead, b
  <2>16. SeenIsTrue(t)'
    <3>1. ASSUME NEW p \in Ports, NEW k \in Kinds, seen'[t][p][k] # Unread
          PROVE  k \in Reads(t) /\ counter[p][k] <= seen'[t][p][k] + (events[p][k] - since'[t][p][k])
      <4>1. p \in Named
        BY DEF Named
      <4>2. CASE p = z /\ k \in Reads(t)
        <5>1. seen'[t][p][k] = counter[p][k] /\ since'[t][p] = events[p]
          BY <2>7, <2>10, <2>11, <4>2
        <5> QED BY <1>2, <4>2, <5>1
      <4>3. CASE ~(p = z /\ k \in Reads(t))
        <5>1. seen'[t][p][k] = seen[t][p][k]
          BY <2>10, <4>1, <4>3
        <5>2. k \in Reads(t) /\ counter[p][k] <= seen[t][p][k] + (events[p][k] - since[t][p][k])
          BY <3>1, <5>1 DEF ReadTool, SeenIsTrue
        <5>3. since'[t][p] = since[t][p]
          BY <2>11, <4>3, <5>2
        <5> QED BY <5>1, <5>2, <5>3
      <4> QED BY <4>2, <4>3
    <3> QED BY <1>3, <2>1, <3>1 DEF SeenIsTrue
  <2> QED BY <1>3, <2>1, <2>4, <2>15, <2>16 DEF ReadTool
<1>10. CASE Reset(t)
  <2>1. UNCHANGED <<scenario, events, todo, seen, since, failures>>
    BY <1>10 DEF Reset, agent
  <2>2. \A p \in Ports, k \in Kinds : counter'[p][k] <= counter[p][k]
    BY <1>1, <1>10, ResetIs
  <2>3. \A p \in Ports, k \in Kinds : counter'[p][k] \in Nat
    <3>1. counter' \in [Ports -> [Kinds -> 0..Cap]]
      BY <1>1 DEF CountersTypeOK
    <3> QED BY <3>1, PerfCountersAssumption
  <2>4. \A p \in Ports, k \in Kinds : counter'[p][k] - counter[p][k] <= events'[p][k] - events[p][k]
    BY <1>2, <2>1, <2>2, <2>3
  <2> QED BY <1>1, <2>1, <2>4, ReadStays
<1>11. CASE Finish(t)
  <2>1. UNCHANGED <<scenario, counter, events, todo, seen, since, failures>>
    BY <1>11 DEF Finish, agent
  <2> QED BY <1>3, <1>4, <1>5, <2>1 DEF ReadTool
<1>12. CASE Again(t)
  <2>1. UNCHANGED <<scenario, counter, events>>
    BY <1>12 DEF Again, agent
  <2>2. todo'[t] = <<Op("caps", 0)>> /\ seen'[t] = Nothing
    BY <1>1, <1>12 DEF Again, CountersTypeOK
  <2>3. \A p \in Ports, k \in Kinds : seen'[t][p][k] = Unread
    BY <2>2 DEF Nothing
  <2>4. \A H : Justified(<<Op("caps", 0)>>, H)
    BY OpIs DEF Justified, Covers
  <2> QED BY <2>2, <2>3, <2>4 DEF ReadTool, SeenIsTrue
<1> QED BY <1>6, <1>7, <1>8, <1>9, <1>10, <1>11, <1>12, StepIs DEF CountersInv

LEMMA ReadInvStep ==
  ASSUME CountersInv, CountersInv', ReadInv, [CountersNext]_countervars
  PROVE  ReadInv'
<1>1. CountersTypeOK /\ CountersTypeOK'
  BY DEF CountersInv
<1>2. \A t \in Tools, p \in Ports, k \in Kinds :
        counter[p][k] \in Nat /\ events[p][k] \in Nat
  BY <1>1, NumbersAre
<1>3. CASE UNCHANGED countervars
  <2>1. UNCHANGED <<scenario, events, counter, todo, seen, since, failures>>
    BY <1>3 DEF countervars, agent
  <2>2. ASSUME NEW t \in Tools PROVE ReadTool(t)'
    <3>1. ReadTool(t)
      BY DEF ReadInv
    <3>2. \A p \in Ports, k \in Kinds : counter'[p][k] - counter[p][k] <= events'[p][k] - events[p][k]
      BY <1>2, <2>1
    <3> QED BY <1>1, <2>1, <3>1, <3>2, ReadStays
  <2> QED BY <2>1, <2>2, ScenarioStays DEF ReadInv
<1>4. CASE \E q \in Ports, l \in Kinds : Event(q, l)
  <2>1. PICK q \in Ports, l \in Kinds : Event(q, l)
    BY <1>4
  <2>2. /\ UNCHANGED <<scenario, todo, seen, since, failures>>
        /\ \A p \in Ports, k \in Kinds : counter'[p][k] - counter[p][k] <= events'[p][k] - events[p][k]
    BY <1>1, <2>1, EventIs
  <2>3. ASSUME NEW t \in Tools PROVE ReadTool(t)'
    <3>1. ReadTool(t)
      BY DEF ReadInv
    <3> QED BY <1>1, <2>2, <3>1, ReadStays
  <2> QED BY <2>2, <2>3, ScenarioStays DEF ReadInv
<1>5. CASE \E t \in Tools : Step(t)
  <2>1. PICK t \in Tools : Step(t)
    BY <1>5
  <2>2. UNCHANGED scenario
    BY <2>1, StepIs DEF Plans, Stops, Drops, Read, Reset, Finish, Again, agent
  <2>3. ASSUME NEW u \in Tools PROVE ReadTool(u)'
    <3>1. ReadTool(u)
      BY DEF ReadInv
    <3>2. CASE u = t
      BY <2>1, <3>1, <3>2, ReadToolStep
    <3>3. CASE u # t
      <4>1. /\ UNCHANGED <<scenario, events>>
            /\ todo'[u] = todo[u] /\ seen'[u] = seen[u] /\ since'[u] = since[u] /\ failures'[u] = failures[u]
            /\ \A p \in Ports, k \in Kinds : counter'[p][k] <= counter[p][k]
        BY <2>1, <3>3, OthersStay
      <4>2. \A p \in Ports, k \in Kinds : counter'[p][k] \in Nat
        BY <1>1, PerfCountersAssumption DEF CountersTypeOK
      <4>3. \A p \in Ports, k \in Kinds : counter'[p][k] - counter[p][k] <= events'[p][k] - events[p][k]
        BY <1>2, <4>1, <4>2
      <4> QED BY <1>1, <3>1, <4>1, <4>3, ReadStays
    <3> QED BY <3>2, <3>3
  <2> QED BY <2>2, <2>3, ScenarioStays DEF ReadInv
<1> QED BY <1>3, <1>4, <1>5 DEF CountersNext

LEMMA ReadInvInit ==
  ASSUME CountersInit
  PROVE  ReadInv
<1>1. ASSUME NEW t \in Tools PROVE ReadTool(t)
  <2>1. todo[t] = <<Op("caps", 0)>> /\ seen[t] = Nothing
    BY DEF CountersInit
  <2>2. \A p \in Ports, k \in Kinds : seen[t][p][k] = Unread
    BY <2>1 DEF Nothing
  <2>3. \A H : Justified(<<Op("caps", 0)>>, H)
    BY OpIs DEF Justified, Covers
  <2> QED BY <2>1, <2>2, <2>3 DEF ReadTool, SeenIsTrue
<1> QED BY <1>1 DEF ReadInv

\* The action of ErasedWasRead.
ErasesWhatWasRead ==
  \A t \in Tools, p \in Ports, k \in Kinds :
    /\ Doing(t, "reset") /\ sends'[t] > sends[t]
    /\ counter'[p][k] < counter[p][k]
    /\ ~(IsPerfquery(t) /\ Opt(t).reset = "only")
    /\ failures[t] = 0 /\ k \in Reads(t)
    => /\ HasRead(t, p, k)
       /\ seen[t][p][k] # Unread =>
            counter[p][k] <= seen[t][p][k] + (events[p][k] - since[t][p][k])

\* Only a reset sends one.
LEMMA SendsIsReset ==
  ASSUME CountersInv, NEW t \in Tools, Step(t), NEW u \in Tools, sends'[u] > sends[u]
  PROVE  u = t /\ Reset(t)
<1>1. sends \in [Tools -> Nat]
  BY DEF CountersInv, CountersTypeOK
<1>2. u = t
  <2>1. u # t => sends'[u] = sends[u]
    BY OthersStay
  <2> QED BY <1>1, <2>1
<1>3. ~Plans(t) /\ ~Read(t) /\ ~Finish(t) /\ ~Again(t)
  <2>1. sends' # sends
    <3>1. sends[u] \in Nat
      BY <1>1
    <3>2. sends'[u] # sends[u]
      BY <3>1
    <3> QED BY <3>2
  <2> QED BY <2>1 DEF Plans, Read, Finish, Again
<1>4. ~Stops(t) /\ ~Drops(t)
  BY <1>1, <1>2 DEF Stops, Drops
<1> QED BY <1>2, <1>3, <1>4, StepIs

LEMMA ErasesStep ==
  ASSUME CountersInv, ReadInv, [CountersNext]_countervars
  PROVE  ErasesWhatWasRead
<1>1. CountersTypeOK
  BY DEF CountersInv
<1>2. SUFFICES ASSUME NEW u \in Tools, NEW p \in Ports, NEW k \in Kinds,
                      sends'[u] > sends[u], counter'[p][k] < counter[p][k],
                      ~OnlyResets(u), failures[u] = 0, k \in Reads(u)
      PROVE  /\ HasRead(u, p, k)
             /\ seen[u][p][k] # Unread =>
                  counter[p][k] <= seen[u][p][k] + (events[p][k] - since[u][p][k])
  BY DEF ErasesWhatWasRead, OnlyResets
<1>3. ReadTool(u)
  BY DEF ReadInv
<1>4. sends[u] \in Nat /\ counter[p][k] \in Nat /\ todo[u] \in Seq(Ops)
  BY <1>1, NumbersAre DEF CountersTypeOK
<1>5. ~UNCHANGED countervars
  <2>1. UNCHANGED countervars => sends' = sends
    BY DEF countervars
  <2> QED BY <1>2, <1>4, <2>1
<1>6. ~\E q \in Ports, l \in Kinds : Event(q, l)
  <2>1. ASSUME NEW q \in Ports, NEW l \in Kinds, Event(q, l) PROVE FALSE
    <3>1. sends' = sends
      BY <1>1, <2>1, EventIs
    <3> QED BY <1>2, <1>4, <3>1
  <2> QED BY <2>1
<1>7. PICK t \in Tools : Step(t)
  BY <1>5, <1>6 DEF CountersNext
<1>8. u = t /\ Reset(t)
  BY <1>2, <1>7, SendsIsReset
<1>9. todo[u] # <<>> /\ todo[u][1].op = "reset" /\ todo[u][1].port \in {p, AllPorts}
  <2>1. /\ counter'[p][k] = IF todo[t][1].port \in {p, AllPorts} /\ k \in Mask(t) THEN 0 ELSE counter[p][k]
        /\ todo[t] # <<>> /\ todo[t][1].op = "reset"
    BY <1>1, <1>8, ResetIs
  <2>2. counter'[p][k] # counter[p][k]
    BY <1>2, <1>4, <2>1
  <2> QED BY <1>8, <2>1, <2>2
<1>10. HasRead(u, p, k)
  <2>1. 1 \in 1..Len(todo[u]) /\ Covers(todo[u][1], "reset", p)
    BY <1>4, <1>9, TailIs DEF Covers
  <2>2. Justified(todo[u], HaveRead(u))
    BY <1>2, <1>3 DEF ReadTool
  <2>3. p \in HaveRead(u)
    BY <2>1, <2>2 DEF Justified
  <2> QED BY <1>2, <2>3 DEF HaveRead
<1> QED BY <1>3, <1>10 DEF ReadTool, SeenIsTrue

\* What is erased was read, or counted after it was read, for every number of ports, of
\* resets sent and of tools (print_node, ibqueryerrors.c; main, perfquery.c).
THEOREM WhatIsErasedWasRead == CountersSpec => ErasedWasRead
<1>1. CountersInit => CountersInv /\ ReadInv
  BY CountersInitTyped, ReadInvInit
<1>2. CountersInv /\ ReadInv /\ [CountersNext]_countervars => (CountersInv /\ ReadInv)'
  BY CountersInvStep, ReadInvStep
<1>3. CountersInv /\ ReadInv /\ [CountersNext]_countervars => [ErasesWhatWasRead]_countervars
  BY ErasesStep
<1>4. [][ErasesWhatWasRead]_countervars <=> ErasedWasRead
  BY DEF ErasesWhatWasRead, ErasedWasRead
<1> QED BY <1>1, <1>2, <1>3, <1>4, PTL DEF CountersSpec

------------------------------------------------------------------------------
(* EveryPortIsReported: the ports beyond the threshold. *)

\* perfquery without -r and -R has nothing to reset.
NoResetTool(t) == IsPerfquery(t) /\ Opt(t).reset = "no" => NoResets(todo[t])

\* t alone resets.
Reports(t) ==
  /\ ~IsPerfquery(t) /\ ~Opt(t).countersOnly
  /\ \A u \in Tools \ {t} : IsPerfquery(u) /\ Opt(u).reset = "no"

\* A port that was beyond the threshold has been reported, or still is and will be read.
ReportTool(t) ==
  Reports(t) /\ failures[t] = 0 =>
    \A p \in Ports : Exceeds(first[t][p]) =>
      \/ p \in bad[t]
      \/ Exceeds(counter[p]) /\ (todo[t] = <<Op("caps", 0)>> \/ Ahead(todo[t], p))

ReportInv == \A t \in Tools : NoResetTool(t) /\ ReportTool(t)

LEMMA CapsAreNotAhead == NoResets(<<Op("caps", 0)>>) /\ \A p : ~Ahead(<<Op("caps", 0)>>, p)
BY OpIs DEF NoResets, Ahead, Covers

LEMMA NoResetsStay ==
  ASSUME NEW q \in Seq(Ops), q # <<>>, NoResets(q)
  PROVE  NoResets(Tail(q))
<1> DEFINE b == Tail(q)
<1>1. /\ Len(q) \in Nat \ {0} /\ Len(b) = Len(q) - 1
      /\ \A i \in 1..Len(b) : b[i] = q[i + 1]
  BY TailIs
<1> HIDE DEF b
<1>2. \A i \in 1..Len(b) : i + 1 \in 1..Len(q)
  BY <1>1
<1>3. NoResets(b)
  BY <1>1, <1>2 DEF NoResets
<1> QED BY <1>3 DEF b

\* A port that is ahead is read at the head, or ahead in the tail; and then it is not
\* reset at the head.
LEMMA AheadGoesOn ==
  ASSUME NEW p, NEW q \in Seq(Ops), q # <<>>, Ahead(q, p)
  PROVE  /\ Covers(q[1], "read", p) \/ Ahead(Tail(q), p)
         /\ ~Covers(q[1], "reset", p)
<1> DEFINE b == Tail(q)
<1>1. /\ Len(q) \in Nat \ {0} /\ Len(b) = Len(q) - 1
      /\ \A i \in 1..Len(b) : b[i] = q[i + 1]
  BY TailIs
<1> HIDE DEF b
<1>2. PICK i \in 1..Len(q) : Covers(q[i], "read", p) /\ \A j \in 1..(i - 1) : ~Covers(q[j], "reset", p)
  BY DEF Ahead
<1>3. CASE i = 1
  BY <1>2, <1>3 DEF Covers
<1>4. CASE i # 1
  <2>1. i - 1 \in 1..Len(b) /\ (i - 1) + 1 = i /\ 1 \in 1..(i - 1)
    BY <1>1, <1>4
  <2>2. b[i - 1] = q[i]
    BY <1>1, <2>1
  <2>3. ASSUME NEW j \in 1..(i - 1 - 1) PROVE ~Covers(b[j], "reset", p)
    <3>1. j \in 1..Len(b) /\ j + 1 \in 1..(i - 1)
      BY <1>1, <2>1
    <3> QED BY <1>1, <1>2, <3>1
  <2>4. Ahead(b, p)
    BY <1>2, <2>1, <2>2, <2>3 DEF Ahead
  <2> QED BY <1>2, <2>1, <2>4 DEF b
<1> QED BY <1>3, <1>4

LEMMA AheadOfMore ==
  ASSUME NEW p, NEW a \in Seq(Ops), NEW b \in Seq(Ops), Ahead(a, p)
  PROVE  Ahead(a \o b, p)
<1> DEFINE q == a \o b
<1>1. /\ q \in Seq(Ops) /\ Len(q) = Len(a) + Len(b)
      /\ \A i \in 1..Len(a) : q[i] = a[i]
  BY OpsOfBoth
<1> HIDE DEF q
<1>2. PICK i \in 1..Len(a) : Covers(a[i], "read", p) /\ \A j \in 1..(i - 1) : ~Covers(a[j], "reset", p)
  BY DEF Ahead
<1>3. Len(a) \in Nat /\ Len(b) \in Nat
  OBVIOUS
<1>4. i \in 1..Len(q) /\ \A j \in 1..(i - 1) : j \in 1..Len(a)
  BY <1>1, <1>3
<1>5. Ahead(q, p)
  BY <1>1, <1>2, <1>4 DEF Ahead
<1> QED BY <1>5 DEF q

LEMMA ReportsStays ==
  ASSUME UNCHANGED scenario, NEW t
  PROVE  Reports(t)' = Reports(t)
BY ScenarioStays DEF Reports, Tools, Opt, IsPerfquery

\* Where nobody else resets, a port stays beyond the threshold.
LEMMA ReportStays ==
  ASSUME CountersTypeOK, CountersTypeOK', UNCHANGED scenario, NEW t \in Tools, ReportTool(t),
         todo'[t] = todo[t], first'[t] = first[t], bad'[t] = bad[t], failures'[t] = failures[t],
         Reports(t) => \A p \in Ports : counter[p]["err"] <= counter'[p]["err"]
  PROVE  ReportTool(t)'
<1>1. Reports(t)' = Reports(t)
  BY ReportsStays
<1>2. Cap \in Nat /\ Threshold \in Int /\ "err" \in Kinds
  BY PerfCountersAssumption DEF Kinds
<1>3. \A p \in Ports : counter[p]["err"] \in Int /\ counter'[p]["err"] \in Int
  <2>1. counter \in [Ports -> [Kinds -> 0..Cap]] /\ counter' \in [Ports -> [Kinds -> 0..Cap]]
    BY DEF CountersTypeOK
  <2> QED BY <1>2, <2>1
<1>4. Reports(t) => \A p \in Ports : Exceeds(counter[p]) => Exceeds(counter'[p])
  BY <1>2, <1>3 DEF Exceeds
<1>5. \A p : Exceeds(first[t][p])' = Exceeds(first[t][p]) /\ Exceeds(counter[p])' = Exceeds(counter'[p])
             /\ Ahead(todo[t], p)' = Ahead(todo[t], p)
  BY DEF Exceeds, Ahead
<1> QED BY <1>1, <1>4, <1>5 DEF ReportTool

\* t's own steps.
LEMMA NoResetStep ==
  ASSUME CountersInv, NEW t \in Tools, NoResetTool(t), Step(t)
  PROVE  NoResetTool(t)'
<1>1. CountersTypeOK /\ todo[t] \in Seq(Ops) /\ OrderlyTool(Opt(t), phase[t], todo[t], sends[t])
  BY DEF CountersInv, CountersTypeOK, Orderly
<1>2. UNCHANGED scenario
  BY StepIs DEF Plans, Stops, Drops, Read, Reset, Finish, Again, agent
<1>3. SUFFICES ASSUME IsPerfquery(t), Opt(t).reset = "no" PROVE NoResets(todo'[t])
  BY <1>2, ScenarioStays DEF NoResetTool, NoResets
<1>4. NoResets(todo[t])
  BY <1>3 DEF NoResetTool
<1>5. CASE Plans(t)
  <2>1. PICK q : todo' = [todo EXCEPT ![t] = q] /\ q = PerfqueryPlan(t)
    BY <1>3, <1>5 DEF Plans
  <2>2. todo'[t] = q
    BY <1>1, <2>1 DEF CountersTypeOK
  <2>3. scenario \in Scenarios
    BY <1>1 DEF CountersTypeOK
  <2>4. CASE q = <<Op("exit", 0)>>
    BY <2>2, <2>4, OpIs DEF NoResets
  <2>5. ASSUME NEW A \in Seq(Named), NEW B \in Seq(Named), Plan(t, q, A, B)
        PROVE  NoResets(q)
    BY <1>3, <2>5, PlanReadsFirst DEF NoResets
  <2> QED BY <1>3, <2>1, <2>2, <2>3, <2>4, <2>5, PerfqueryPlanIs
<1>6. CASE Stops(t)
  BY <1>1, <1>6 DEF Stops, CountersTypeOK, NoResets
<1>7. CASE Drops(t)
  <2>1. todo'[t] = Tail(todo[t]) /\ todo[t] # <<>>
    BY <1>1, <1>7 DEF Drops, CountersTypeOK
  <2> QED BY <1>1, <1>4, <2>1, NoResetsStay
<1>8. CASE Read(t)
  <2>1. todo'[t] = Tail(todo[t]) /\ todo[t] # <<>>
    BY <1>1, <1>3, <1>8, ReadIs DEF CountersTypeOK, AfterRead, CountersInv
  <2> QED BY <1>1, <1>4, <2>1, NoResetsStay
<1>9. CASE Reset(t)
  BY <1>4, <1>9 DEF Reset
<1>10. CASE Finish(t)
  BY <1>4, <1>10 DEF Finish
<1>11. CASE Again(t)
  <2>1. todo'[t] = <<Op("caps", 0)>>
    BY <1>1, <1>11 DEF Again, CountersTypeOK
  <2> QED BY <2>1, CapsAreNotAhead
<1> QED BY <1>5, <1>6, <1>7, <1>8, <1>9, <1>10, <1>11, StepIs

LEMMA ReportStep ==
  ASSUME CountersInv, CountersInv', NEW t \in Tools, ReportTool(t), Step(t)
  PROVE  ReportTool(t)'
<1>1. CountersTypeOK /\ CountersTypeOK' /\ todo[t] \in Seq(Ops)
      /\ OrderlyTool(Opt(t), phase[t], todo[t], sends[t]) /\ failures[t] \in Nat
  BY DEF CountersInv, CountersTypeOK, Orderly
<1>2. UNCHANGED scenario
  BY StepIs DEF Plans, Stops, Drops, Read, Reset, Finish, Again, agent
<1>3. Reports(t)' = Reports(t)
  BY <1>2, ReportsStays
<1>4. Reports(t) => ~IsPerfquery(t)
  BY DEF Reports
<1>5. \A p : /\ Exceeds(first[t][p])' = Exceeds(first'[t][p]) /\ Exceeds(counter[p])' = Exceeds(counter'[p])
             /\ Ahead(todo[t], p)' = Ahead(todo'[t], p)
  BY DEF Exceeds, Ahead
<1>6. CASE Plans(t)
  <2>1. UNCHANGED <<counter, first, bad>>
    BY <1>6 DEF Plans, agent
  <2>2. PICK q : /\ todo' = [todo EXCEPT ![t] = q]
                 /\ ~IsPerfquery(t) => \E all \in BOOLEAN : q = PrintNodePlan(t, all)
    BY <1>6 DEF Plans
  <2>3. todo'[t] = q
    BY <1>1, <2>2 DEF CountersTypeOK
  <2>4. ~IsPerfquery(t) => \A p \in Ports : Ahead(q, p)
    BY <2>2, PrintNodePlanIs DEF Thorough
  <2>5. failures'[t] = 0 => failures[t] = 0
    <3>1. failures' = failures \/ failures'[t] = failures[t] + 1
      BY <1>1, <1>6 DEF Plans, CountersTypeOK
    <3> QED BY <1>1, <3>1
  <2> QED BY <1>3, <1>4, <1>5, <2>1, <2>3, <2>4, <2>5 DEF ReportTool
<1>7. CASE Stops(t)
  BY <1>3, <1>4, <1>7 DEF Stops, ReportTool
<1>8. CASE Drops(t)
  <2>1. UNCHANGED <<counter, first, bad>>
    BY <1>8 DEF Drops, agent
  <2>2. todo'[t] = Tail(todo[t]) /\ todo[t] # <<>>
    BY <1>1, <1>8 DEF Drops, CountersTypeOK
  <2>3. CASE todo[t][1].op = "read"
    <3>1. failures'[t] # 0
      BY <1>1, <1>8, <2>3 DEF Drops, CountersTypeOK
    <3> QED BY <3>1 DEF ReportTool
  <2>4. CASE todo[t][1].op # "read"
    <3>1. failures' = failures /\ todo[t] # <<Op("caps", 0)>>
      BY <1>8, <2>4, OpIs DEF Drops
    <3>2. \A p \in Ports : Ahead(todo[t], p) => Ahead(Tail(todo[t]), p)
      BY <1>1, <2>2, <2>4, AheadGoesOn DEF Covers
    <3> QED BY <1>3, <1>5, <2>1, <2>2, <3>1, <3>2 DEF ReportTool
  <2> QED BY <2>3, <2>4
<1>9. CASE Read(t)
  <2>1. UNCHANGED <<counter, first, failures>>
    BY <1>9 DEF Read, agent
  <2>2. /\ todo[t] # <<>> /\ todo[t][1].op = "read" /\ todo[t][1].port \in Named /\ NoCaps(todo[t])
    BY <1>9, ReadIs DEF CountersInv
  <2> DEFINE z == todo[t][1].port
             b == Tail(todo[t])
             c == ~IsPerfquery(t) /\ z = AllPorts /\ Exceeds(Value(z))
             q == (IF c THEN EachPort(t, FALSE) ELSE <<>>) \o b
  <2>3. todo'[t] = q
    BY <1>1, <1>9 DEF Read, Head1, Go, CountersTypeOK
  <2>4. <<>> \o b = b /\ b \in Seq(Ops) /\ todo[t][1] \in Ops /\ Len(todo[t]) \in Nat \ {0}
    BY <1>1, <2>2, TailIs
  <2>5. todo[t] # <<Op("caps", 0)>>
    BY <2>2, OpIs
  <2>6. SUFFICES ASSUME Reports(t), failures[t] = 0, NEW p \in Ports, Exceeds(first[t][p])
        PROVE  p \in bad'[t] \/ (Exceeds(counter[p]) /\ Ahead(q, p))
    BY <1>3, <1>5, <2>1, <2>3 DEF ReportTool
  <2>7. p \in bad[t] \/ (Exceeds(counter[p]) /\ Ahead(todo[t], p))
    BY <2>5, <2>6 DEF ReportTool
  <2>8. bad[t] \subseteq bad'[t]
    BY <1>1, <1>9 DEF Read, CountersTypeOK
  <2>9. CASE p \in bad[t]
    BY <2>8, <2>9
  <2>10. CASE Exceeds(counter[p]) /\ Ahead(todo[t], p)
    <3>1. CASE z = p
      <4>1. Value(z) = counter[p] /\ p # AllPorts
        BY <1>1, <2>2, <3>1, ValueIs, PortsAre
      <4>2. bad' = [bad EXCEPT ![t] = @ \cup {p}]
        BY <1>9, <2>6, <2>10, <3>1, <4>1 DEF Read, Head1, Reports
      <4> QED BY <1>1, <4>2 DEF CountersTypeOK
    <3>2. CASE z = AllPorts
      <4>1. Exceeds(Value(z))
        <5>1. "err" \in Kinds /\ Threshold \in Int /\ Cap \in Nat
          BY PerfCountersAssumption DEF Kinds
        <5>2. Value(z) \in [Kinds -> 0..Cap] /\ counter[p]["err"] <= Value(z)["err"]
          BY <1>1, <2>2, <3>2, <5>1, ValueIs
        <5>3. counter[p]["err"] \in 0..Cap
          BY <1>1, <5>1 DEF CountersTypeOK
        <5> HIDE DEF z
        <5>4. Value(z)["err"] \in 0..Cap
          BY <5>1, <5>2
        <5> QED BY <2>10, <5>1, <5>2, <5>3, <5>4 DEF Exceeds
      <4>2. q = EachPort(t, FALSE) \o b
        BY <2>6, <3>2, <4>1 DEF Reports
      <4>3. EachPort(t, FALSE) \in Seq(Ops) /\ Ahead(EachPort(t, FALSE), p)
        <5> DEFINE d == FALSE /\ Opt(t).clear # {}
        <5>1. Visits(EachPort(t, FALSE), d, Len(PortList)) /\ d = FALSE
          BY EachPortVisits
        <5> HIDE DEF d
        <5> QED BY <5>1, VisitsAreThorough DEF Thorough
      <4>4. Ahead(q, p)
        BY <2>4, <4>2, <4>3, AheadOfMore
      <4> QED BY <2>10, <4>4
    <3>3. CASE z # p /\ z # AllPorts
      <4>1. ~Covers(todo[t][1], "read", p)
        BY <3>3 DEF Covers
      <4>2. Ahead(b, p)
        BY <1>1, <2>2, <2>10, <4>1, AheadGoesOn
      <4>3. q = b
        BY <2>4, <3>3
      <4> QED BY <2>10, <4>2, <4>3
    <3> QED BY <3>1, <3>2, <3>3
  <2> QED BY <2>7, <2>9, <2>10
<1>10. CASE Reset(t)
  <2>1. UNCHANGED <<todo, first, bad, failures>>
    BY <1>10 DEF Reset, agent
  <2>2. todo[t] # <<>> /\ todo[t][1].op = "reset"
    BY <1>1, <1>10, ResetIs
  <2>3. todo[t] # <<Op("caps", 0)>>
    BY <2>2, OpIs
  <2>4. ASSUME NEW p \in Ports, Ahead(todo[t], p)
        PROVE  counter'[p]["err"] = counter[p]["err"]
    <3>1. ~Covers(todo[t][1], "reset", p)
      BY <1>1, <2>2, <2>4, AheadGoesOn
    <3>2. todo[t][1].port \notin {p, AllPorts} /\ "err" \in Kinds
      BY <2>2, <3>1 DEF Covers, Kinds
    <3> QED BY <1>1, <1>10, <3>2, ResetIs
  <2>5. \A p \in Ports : Ahead(todo[t], p) /\ Exceeds(counter[p]) => Exceeds(counter'[p])
    BY <2>4 DEF Exceeds
  <2> QED BY <1>3, <1>5, <2>1, <2>3, <2>5 DEF ReportTool
<1>11. CASE Finish(t)
  BY <1>3, <1>5, <1>11 DEF Finish, ReportTool
<1>12. CASE Again(t)
  <2>1. todo'[t] = <<Op("caps", 0)>> /\ first'[t] = counter /\ UNCHANGED counter
    BY <1>1, <1>12 DEF Again, CountersTypeOK
  <2> QED BY <1>5, <2>1 DEF ReportTool
<1> QED BY <1>6, <1>7, <1>8, <1>9, <1>10, <1>11, <1>12, StepIs

LEMMA ReportInvStep ==
  ASSUME CountersInv, CountersInv', ReportInv, [CountersNext]_countervars
  PROVE  ReportInv'
<1>1. CountersTypeOK /\ CountersTypeOK'
  BY DEF CountersInv
<1>2. "err" \in Kinds /\ \A p \in Ports : counter[p]["err"] \in Nat
  <2>1. "err" \in Kinds /\ Cap \in Nat
    BY PerfCountersAssumption DEF Kinds
  <2>2. \A p \in Ports : counter[p]["err"] \in 0..Cap
    BY <1>1, <2>1 DEF CountersTypeOK
  <2> QED BY <2>1, <2>2
<1>3. CASE UNCHANGED countervars
  <2>1. UNCHANGED <<scenario, counter, todo, first, bad, failures>>
    BY <1>3 DEF countervars, agent
  <2>2. ASSUME NEW t \in Tools PROVE NoResetTool(t)' /\ ReportTool(t)'
    <3>1. NoResetTool(t) /\ ReportTool(t)
      BY DEF ReportInv
    <3>2. ReportTool(t)'
      BY <1>1, <1>2, <2>1, <3>1, ReportStays
    <3> QED BY <2>1, <3>1, <3>2, ScenarioStays DEF NoResetTool
  <2> QED BY <2>1, <2>2, ScenarioStays DEF ReportInv
<1>4. CASE \E q \in Ports, l \in Kinds : Event(q, l)
  <2>1. PICK q \in Ports, l \in Kinds : Event(q, l)
    BY <1>4
  <2>2. /\ UNCHANGED <<scenario, todo, first, bad, failures>>
        /\ \A p \in Ports : counter[p]["err"] <= counter'[p]["err"]
    BY <1>1, <1>2, <2>1, EventIs
  <2>3. ASSUME NEW t \in Tools PROVE NoResetTool(t)' /\ ReportTool(t)'
    <3>1. NoResetTool(t) /\ ReportTool(t)
      BY DEF ReportInv
    <3>2. ReportTool(t)'
      BY <1>1, <2>2, <3>1, ReportStays
    <3> QED BY <2>2, <3>1, <3>2, ScenarioStays DEF NoResetTool
  <2> QED BY <2>2, <2>3, ScenarioStays DEF ReportInv
<1>5. CASE \E t \in Tools : Step(t)
  <2>1. PICK t \in Tools : Step(t)
    BY <1>5
  <2>2. UNCHANGED scenario
    BY <2>1, StepIs DEF Plans, Stops, Drops, Read, Reset, Finish, Again, agent
  <2>3. ASSUME NEW u \in Tools PROVE NoResetTool(u)' /\ ReportTool(u)'
    <3>1. NoResetTool(u) /\ ReportTool(u) /\ NoResetTool(t)
      BY DEF ReportInv
    <3>2. CASE u = t
      BY <2>1, <3>1, <3>2, NoResetStep, ReportStep
    <3>3. CASE u # t
      <4>1. todo'[u] = todo[u] /\ first'[u] = first[u] /\ bad'[u] = bad[u] /\ failures'[u] = failures[u]
        BY <2>1, <3>3, OthersStay
      <4>2. NoResetTool(u)'
        BY <2>2, <3>1, <4>1, ScenarioStays DEF NoResetTool
      <4>3. Reports(u) => ~Reset(t)
        <5>1. HAVE Reports(u)
        <5>2. NoResets(todo[t])
          BY <3>1, <3>3, <5>1 DEF Reports, NoResetTool
        <5>3. todo[t] \in Seq(Ops)
          BY <1>1 DEF CountersTypeOK
        <5>4. todo[t] # <<>> => todo[t][1].op # "reset"
          <6>1. HAVE todo[t] # <<>>
          <6>2. 1 \in 1..Len(todo[t])
            BY <5>3, <6>1, TailIs
          <6> QED BY <5>2, <6>2 DEF NoResets
        <5> QED BY <1>1, <5>4, ResetIs
      <4>4. Reports(u) => UNCHANGED counter
        BY <2>1, <4>3, StepIs DEF Plans, Stops, Drops, Read, Finish, Again
      <4>5. Reports(u) => \A p \in Ports : counter[p]["err"] <= counter'[p]["err"]
        BY <1>2, <4>4
      <4> QED BY <1>1, <2>2, <3>1, <4>1, <4>2, <4>5, ReportStays
    <3> QED BY <3>2, <3>3
  <2> QED BY <2>2, <2>3, ScenarioStays DEF ReportInv
<1> QED BY <1>3, <1>4, <1>5 DEF CountersNext

LEMMA ReportInvInit ==
  ASSUME CountersInit
  PROVE  ReportInv
<1>1. ASSUME NEW t \in Tools PROVE NoResetTool(t) /\ ReportTool(t)
  <2>1. todo[t] = <<Op("caps", 0)>> /\ first[t] = counter
    BY DEF CountersInit
  <2> QED BY <2>1, CapsAreNotAhead DEF NoResetTool, ReportTool
<1> QED BY <1>1 DEF ReportInv

------------------------------------------------------------------------------
(* EveryPortIsReported: the sum of perfquery -a. *)

Adds(t) == Aggregates(t) /\ Opt(t).reset # "only" /\ phase[t] # "exit"

LoopSet(t) == {Loop(t)[j] : j \in DOMAIN Loop(t)}

\* The ports still to be read.
ToRead(q) == {p \in Named : \E i \in 1..Len(q) : q[i] = Op("read", p)}

ReadsOnce(q) == \A i, j \in 1..Len(q) : q[i].op = "read" /\ q[i] = q[j] => i = j

\* What was read so far is added up.
AddedUp(f, s, S) ==
  /\ \A p \in S, k \in Kinds : f[p][k] \in Nat
  /\ \A k \in Kinds : s[k] = Capped(SumOver(f, S, k))

SumTool(t) ==
  Adds(t) =>
    IF todo[t] = <<Op("caps", 0)>> THEN sum[t] = Zero
    ELSE ReadsOnce(todo[t]) /\ ToRead(todo[t]) \subseteq LoopSet(t)
         /\ AddedUp(seen[t], sum[t], LoopSet(t) \ ToRead(todo[t]))

SumInv == \A t \in Tools : SumTool(t)

LEMMA LoopSetIs ==
  ASSUME scenario \in Scenarios, NEW t \in Tools, IsPerfquery(t)
  PROVE  /\ LoopSet(t) \subseteq Named /\ IsFiniteSet(LoopSet(t))
         /\ LoopSet(t) = {Loop(t)[j] : j \in 1..Len(Loop(t))}
<1>1. Loop(t) \in Seq(Named)
  BY LoopIs
<1>2. DOMAIN Loop(t) = 1..Len(Loop(t))
  BY <1>1
<1>3. LoopSet(t) \subseteq Named
  BY <1>1, <1>2 DEF LoopSet
<1>4. IsFiniteSet(LoopSet(t))
  BY <1>3, PortsAre, FS_Subset
<1> QED BY <1>2, <1>3, <1>4 DEF LoopSet

\* A list that does not read goes on with the same ports, one that reads without it.
LEMMA TailReads ==
  ASSUME NEW q \in Seq(Ops), q # <<>>, ReadsOnce(q), NEW b, b = Tail(q)
  PROVE  /\ ReadsOnce(b)
         /\ q[1].op # "read" => ToRead(b) = ToRead(q)
         /\ \A z \in Named : q[1] = Op("read", z) =>
              ToRead(b) = ToRead(q) \ {z} /\ z \in ToRead(q)
<1>1. /\ Len(q) \in Nat \ {0} /\ Len(b) = Len(q) - 1
      /\ \A i \in 1..Len(b) : b[i] = q[i + 1]
  BY TailIs
<1>2. \A i \in 1..Len(b) : i + 1 \in 1..Len(q) /\ i + 1 # 1
  BY <1>1
<1>3. \A i \in 1..Len(q) : i # 1 => i - 1 \in 1..Len(b) /\ b[i - 1] = q[i]
  <2> TAKE i \in 1..Len(q)
  <2>1. HAVE i # 1
  <2>2. i - 1 \in 1..Len(b) /\ (i - 1) + 1 = i
    BY <1>1, <2>1
  <2> QED BY <1>1, <2>2
<1>4. ReadsOnce(b)
  <2>1. ASSUME NEW i \in 1..Len(b), NEW j \in 1..Len(b), b[i].op = "read", b[i] = b[j]
        PROVE  i = j
    <3>1. i + 1 \in 1..Len(q) /\ j + 1 \in 1..Len(q) /\ q[i + 1].op = "read" /\ q[i + 1] = q[j + 1]
      BY <1>1, <1>2, <2>1
    <3>2. i + 1 = j + 1
      BY <3>1 DEF ReadsOnce
    <3> QED BY <3>2
  <2> QED BY <2>1 DEF ReadsOnce
<1>5. 1 \in 1..Len(q)
  BY <1>1
<1>6. \A p \in Named : Op("read", p).op = "read" /\ \A r : Op("read", p) = Op("read", r) => p = r
  BY OpIs DEF Op
<1>7. ASSUME NEW p \in Named
      PROVE  (\E i \in 1..Len(b) : b[i] = Op("read", p)) <=>
             (\E i \in 1..Len(q) : i # 1 /\ q[i] = Op("read", p))
  BY <1>1, <1>2, <1>3
<1>8. ASSUME q[1].op # "read" PROVE ToRead(b) = ToRead(q)
  <2>1. \A p \in Named : (\E i \in 1..Len(b) : b[i] = Op("read", p)) <=>
                         (\E i \in 1..Len(q) : q[i] = Op("read", p))
    BY <1>6, <1>7, <1>8
  <2> QED BY <2>1 DEF ToRead
<1>9. ASSUME NEW z \in Named, q[1] = Op("read", z)
      PROVE  ToRead(b) = ToRead(q) \ {z} /\ z \in ToRead(q)
  <2>1. z \in ToRead(q)
    BY <1>5, <1>9 DEF ToRead
  <2>2. \A p \in Named : (\E i \in 1..Len(b) : b[i] = Op("read", p)) <=>
                         (p # z /\ \E i \in 1..Len(q) : q[i] = Op("read", p))
    <3> TAKE p \in Named
    <3>1. ASSUME NEW i \in 1..Len(q), i # 1, q[i] = Op("read", p) PROVE p # z
      BY <1>5, <1>6, <1>9, <3>1 DEF ReadsOnce
    <3>2. ASSUME p # z, NEW i \in 1..Len(q), q[i] = Op("read", p) PROVE i # 1
      BY <1>6, <1>9, <3>2
    <3> QED BY <1>7, <3>1, <3>2
  <2>3. \A p \in Named : p \in ToRead(b) <=> p # z /\ p \in ToRead(q)
    BY <2>2 DEF ToRead
  <2>4. ToRead(b) \subseteq Named /\ ToRead(q) \subseteq Named
    BY DEF ToRead
  <2> QED BY <2>1, <2>3, <2>4
<1> QED BY <1>4, <1>8, <1>9

\* perfquery reads each port it loops over, once.
LEMMA PlanReads ==
  ASSUME PortsDiffer, scenario \in Scenarios, NEW t \in Tools, IsPerfquery(t), Opt(t).reset # "only",
         ~Opt(t).detail, NEW q, NEW A \in Seq(Named), NEW B \in Seq(Named), Plan(t, q, A, B)
  PROVE  ReadsOnce(q) /\ ToRead(q) = LoopSet(t)
<1>1. PICK n \in {0, 1} :
        /\ q \in Seq(Ops) /\ Len(q) = n + Len(A) + Len(B)
        /\ n = 1 => q[1] = Op("ports", 0)
        /\ \A i \in 1..Len(A) : q[n + i] = Op("read", A[i])
        /\ \A i \in 1..Len(B) : q[n + Len(A) + i] = Op("reset", B[i])
  BY DEF Plan, Planned
<1>2. n \in Nat /\ Len(A) \in Nat /\ Len(B) \in Nat /\ A = Loop(t) /\ Once(A)
  BY DEF Plan
<1>3. ASSUME NEW i \in 1..Len(q), q[i].op = "read"
      PROVE  \E j \in 1..Len(A) : i = n + j /\ q[i] = Op("read", A[j])
  <2>1. i <= n + Len(A) + Len(B) /\ i \in Nat /\ i >= 1
    BY <1>1, <1>2
  <2>2. ~(i <= n)
    <3>1. SUFFICES ASSUME i <= n PROVE FALSE
      OBVIOUS
    <3>2. n = 1 /\ i = 1
      BY <1>2, <2>1, <3>1
    <3> QED BY <1>1, <1>3, <3>2, OpIs
  <2>3. ~(i > n + Len(A))
    <3>1. SUFFICES ASSUME i > n + Len(A) PROVE FALSE
      OBVIOUS
    <3> DEFINE m == i - n - Len(A)
    <3>2. m \in 1..Len(B) /\ i = n + Len(A) + m
      BY <1>2, <2>1, <3>1
    <3> HIDE DEF m
    <3>3. q[n + Len(A) + m] = Op("reset", B[m])
      BY <1>1, <3>2
    <3> QED BY <1>3, <3>2, <3>3, OpIs
  <2> DEFINE m == i - n
  <2>4. m \in 1..Len(A) /\ i = n + m
    BY <1>2, <2>1, <2>2, <2>3
  <2> HIDE DEF m
  <2>5. q[n + m] = Op("read", A[m])
    BY <1>1, <2>4
  <2> QED BY <2>4, <2>5
<1>4. ReadsOnce(q)
  <2>1. ASSUME NEW i \in 1..Len(q), NEW j \in 1..Len(q), q[i].op = "read", q[i] = q[j]
        PROVE  i = j
    <3>1. PICK a \in 1..Len(A) : i = n + a /\ q[i] = Op("read", A[a])
      BY <1>3, <2>1
    <3>2. PICK b \in 1..Len(A) : j = n + b /\ q[j] = Op("read", A[b])
      BY <1>3, <2>1
    <3>3. A[a] = A[b]
      BY <2>1, <3>1, <3>2, OpIs
    <3> QED BY <1>2, <3>1, <3>2, <3>3 DEF Once
  <2> QED BY <2>1 DEF ReadsOnce
<1>5. LoopSet(t) \subseteq Named /\ LoopSet(t) = {A[j] : j \in 1..Len(A)}
  BY <1>2, LoopSetIs
<1>6. ASSUME NEW p \in Named
      PROVE  (\E i \in 1..Len(q) : q[i] = Op("read", p)) <=> (\E j \in 1..Len(A) : p = A[j])
  <2>1. ASSUME NEW i \in 1..Len(q), q[i] = Op("read", p) PROVE \E j \in 1..Len(A) : p = A[j]
    <3>1. PICK j \in 1..Len(A) : q[i] = Op("read", A[j])
      BY <1>3, <2>1, OpIs
    <3> QED BY <2>1, <3>1, OpIs
  <2>2. ASSUME NEW j \in 1..Len(A), p = A[j] PROVE \E i \in 1..Len(q) : q[i] = Op("read", p)
    <3>1. n + j \in 1..Len(q)
      BY <1>1, <1>2
    <3> QED BY <1>1, <2>2, <3>1
  <2> QED BY <2>1, <2>2
<1>7. ToRead(q) = {p \in Named : \E j \in 1..Len(A) : p = A[j]}
  BY <1>6 DEF ToRead
<1>8. {p \in Named : \E j \in 1..Len(A) : p = A[j]} = {A[j] : j \in 1..Len(A)}
  BY <1>5
<1> QED BY <1>4, <1>5, <1>7, <1>8

\* The sum in the next state.
LEMMA SumToolNext ==
  ASSUME UNCHANGED <<scenario, allSelect>>, NEW t,
         Adds(t)' =>
           IF todo'[t] = <<Op("caps", 0)>> THEN sum'[t] = Zero
           ELSE ReadsOnce(todo'[t]) /\ ToRead(todo'[t]) \subseteq LoopSet(t)
                /\ AddedUp(seen'[t], sum'[t], LoopSet(t) \ ToRead(todo'[t]))
  PROVE  SumTool(t)'
<1>1. LoopSet(t)' = LoopSet(t)
  BY DEF LoopSet, Loop, Looping, Emulates, InfoPort, Opt
<1>2. ReadsOnce(todo[t])' = ReadsOnce(todo'[t]) /\ ToRead(todo[t])' = ToRead(todo'[t])
  BY DEF ReadsOnce, ToRead
<1>3. AddedUp(seen'[t], sum'[t], LoopSet(t) \ ToRead(todo'[t])) =>
        AddedUp(seen[t], sum[t], LoopSet(t) \ ToRead(todo[t]))'
  <2> DEFINE S == LoopSet(t) \ ToRead(todo[t])
  <2>1. S' = LoopSet(t) \ ToRead(todo'[t])
    BY <1>1, <1>2
  <2>2. \A k \in Kinds : SumOver(seen[t], S, k)' = SumOver(seen'[t], S', k)
    BY DEF SumOver, FoldSet, MapThenFoldSet
  <2>3. AddedUp(seen'[t], sum'[t], S') => AddedUp(seen[t], sum[t], S)'
    <3> HIDE DEF S
    <3> QED BY <2>2 DEF AddedUp, Capped
  <2>4. AddedUp(seen'[t], sum'[t], LoopSet(t) \ ToRead(todo'[t])) => AddedUp(seen'[t], sum'[t], S')
    <3> HIDE DEF S
    <3> QED BY <2>1
  <2> QED BY <2>3, <2>4
<1> QED BY <1>1, <1>2, <1>3 DEF SumTool

\* What t adds depends on these variables only.
LEMMA SumStays ==
  ASSUME UNCHANGED <<scenario, allSelect>>, NEW t,
         todo'[t] = todo[t], seen'[t] = seen[t], sum'[t] = sum[t], SumTool(t),
         Adds(t)' => Adds(t)
  PROVE  SumTool(t)'
BY SumToolNext DEF SumTool

\* One port more is added up.
LEMMA AddsOne ==
  ASSUME NEW S, IsFiniteSet(S), NEW z, z \notin S, NEW k, NEW f, NEW g,
         \A p \in S : f[p][k] \in Nat /\ g[p][k] = f[p][k], g[z][k] \in 0..Cap,
         NEW s, s = Capped(SumOver(f, S, k))
  PROVE  Capped(s + g[z][k]) = Capped(SumOver(g, S \cup {z}, k))
<1>1. Cap \in Nat
  BY PerfCountersAssumption
<1>2. SumOver(g, S, k) = SumOver(f, S, k)
  BY SumSame
<1>3. \A p \in S \cup {z} : g[p][k] \in Nat
  BY <1>1
<1>4. SumOver(g, S, k) \in Nat /\ SumOver(g, S \cup {z}, k) = SumOver(g, S, k) + g[z][k]
  <2> DEFINE A == S \cup {z}
  <2>1. IsFiniteSet(A) /\ A \in SUBSET A /\ S \in SUBSET A /\ z \in A /\ A \ {z} = S
    BY FS_AddElement
  <2>2. \A p \in A : g[p][k] \in Nat
    BY <1>3
  <2> HIDE DEF A
  <2>3. SumOver(g, A, k) = SumOver(g, A \ {z}, k) + g[z][k]
    BY <2>1, <2>2, SumWithout
  <2>4. SumOver(g, S, k) \in Nat
    BY <2>1, <2>2, SumIsNat
  <2> QED BY <2>1, <2>3, <2>4 DEF A
<1> DEFINE a == SumOver(f, S, k)
           v == g[z][k]
<1>5. a \in Nat /\ v \in Nat /\ s = Capped(a) /\ SumOver(g, S \cup {z}, k) = a + v
  BY <1>2, <1>3, <1>4
<1> HIDE DEF a, v
<1>6. Capped(s + v) = Capped(a + v)
  BY <1>1, <1>5 DEF Capped
<1> QED BY <1>5, <1>6 DEF v

LEMMA TailIsNotCaps ==
  ASSUME NEW q \in Seq(Ops), q # <<>>, NoCaps(q)
  PROVE  Tail(q) # <<Op("caps", 0)>> /\ q # <<Op("caps", 0)>>
<1> DEFINE b == Tail(q)
           c == <<Op("caps", 0)>>
<1>1. /\ Len(q) \in Nat \ {0} /\ Len(b) = Len(q) - 1
      /\ \A i \in 1..Len(b) : b[i] = q[i + 1]
  BY TailIs
<1>2. Len(c) = 1 /\ c[1].op = "caps"
  BY OpIs
<1> HIDE DEF b, c
<1>3. b # c
  <2>1. SUFFICES ASSUME b = c PROVE FALSE
    OBVIOUS
  <2>0. Len(b) = 1
    BY <1>2, <2>1
  <2>2. 1 \in 1..Len(b) /\ 1 + 1 \in 1..Len(q)
    <3> DEFINE m == Len(b)
               n == Len(q)
    <3>1. m = n - 1 /\ n \in Nat /\ m = 1
      BY <1>1, <2>0
    <3> HIDE DEF m, n
    <3>2. 1 \in 1..m /\ 1 + 1 \in 1..n
      BY <3>1
    <3> QED BY <3>2 DEF m, n
  <2>3. q[1 + 1].op = "caps"
    BY <1>1, <1>2, <2>1, <2>2
  <2> QED BY <2>2, <2>3 DEF NoCaps
<1>4. q # c
  <2>1. 1 \in 1..Len(q)
    BY <1>1
  <2> QED BY <1>2, <2>1 DEF NoCaps
<1> QED BY <1>3, <1>4 DEF b, c

LEMMA AddedUpNothing ==
  ASSUME NEW f
  PROVE  AddedUp(f, Zero, {})
<1>1. \A k : SumOver(f, {}, k) = 0
  <2>1. IsFiniteSet({})
    BY FS_EmptySet
  <2> QED BY <2>1, SumStep
<1>2. Capped(0) = 0
  BY PerfCountersAssumption DEF Capped
<1> QED BY <1>1, <1>2 DEF AddedUp, Zero

\* t's own steps.
LEMMA SumToolStep ==
  ASSUME PortsDiffer, CountersInv, CountersInv', NEW t \in Tools, SumTool(t), Step(t)
  PROVE  SumTool(t)'
<1>1. CountersTypeOK /\ CountersTypeOK' /\ todo[t] \in Seq(Ops)
      /\ OrderlyTool(Opt(t), phase[t], todo[t], sends[t]) /\ scenario \in Scenarios
  BY DEF CountersInv, CountersTypeOK, Orderly
<1>2. UNCHANGED <<scenario, allSelect>>
  BY StepIs DEF Plans, Stops, Drops, Read, Reset, Finish, Again, agent
<1>3. Aggregates(t)' = Aggregates(t) /\ Opt(t)' = Opt(t)
  BY <1>2 DEF Emulates, InfoPort, Opt, Aggregates, IsPerfquery
<1>4. phase[t] # "exit" => (Adds(t)' => Adds(t))
  BY <1>3 DEF Adds
<1>5. Adds(t) => IsPerfquery(t) /\ Opt(t).all /\ ~Opt(t).detail /\ Opt(t).reset # "only"
  BY DEF Adds, Aggregates
<1> DEFINE L == LoopSet(t)
           c == <<Op("caps", 0)>>
<1>6. IsPerfquery(t) => L \subseteq Named /\ IsFiniteSet(L)
  BY <1>1, LoopSetIs
<1>7. CASE Plans(t)
  <2>1. UNCHANGED <<phase, sum, seen>> /\ todo[t] = c /\ phase[t] # "exit"
    BY <1>7 DEF Plans, agent
  <2>2. PICK q : todo' = [todo EXCEPT ![t] = q] /\ (IsPerfquery(t) => q = PerfqueryPlan(t))
    BY <1>7 DEF Plans
  <2>3. todo'[t] = q
    BY <1>1, <2>2 DEF CountersTypeOK
  <2>4. SUFFICES ASSUME Adds(t), Adds(t)' PROVE SumTool(t)'
    BY <1>2, <1>4, <2>1, SumToolNext
  <2>5. sum'[t] = Zero
    BY <2>1, <2>4 DEF SumTool
  <2>6. PICK A \in Seq(Named), B \in Seq(Named) : Plan(t, q, A, B)
    BY <1>1, <1>5, <2>2, <2>4, PerfqueryPlanIs
  <2>7. ReadsOnce(q) /\ ToRead(q) = L
    BY <1>1, <1>5, <2>4, <2>6, PlanReads
  <2>8. L \ L = {} /\ AddedUp(seen'[t], sum'[t], {})
    BY <2>5, AddedUpNothing
  <2> QED BY <1>2, <2>3, <2>5, <2>7, <2>8, SumToolNext
<1>8. CASE Stops(t)
  <2>1. phase'[t] = "exit"
    BY <1>1, <1>8 DEF Stops, CountersTypeOK
  <2>2. ~Adds(t)'
    BY <2>1 DEF Adds
  <2> QED BY <1>2, <2>2, SumToolNext
<1>9. CASE Drops(t)
  <2>1. UNCHANGED <<phase, sum, seen>> /\ phase[t] # "exit"
    BY <1>9 DEF Drops, agent
  <2>2. todo'[t] = Tail(todo[t]) /\ todo[t] # <<>>
    BY <1>1, <1>9 DEF Drops, CountersTypeOK
  <2>3. SUFFICES ASSUME Adds(t) PROVE SumTool(t)'
    BY <1>2, <1>4, <2>1, SumToolNext
  <2>4. todo[t][1].op # "read"
    BY <1>5, <1>9, <2>3 DEF Drops
  <2>5. NoCaps(todo[t])
    BY <1>1, <1>9, OpIs DEF Drops, OrderlyTool
  <2>6. todo[t] # c /\ todo'[t] # c
    BY <1>1, <2>2, <2>5, TailIsNotCaps
  <2>7. ReadsOnce(todo[t]) /\ ToRead(todo[t]) \subseteq L /\ AddedUp(seen[t], sum[t], L \ ToRead(todo[t]))
    BY <2>3, <2>6 DEF SumTool
  <2>8. ReadsOnce(todo'[t]) /\ ToRead(todo'[t]) = ToRead(todo[t])
    BY <1>1, <2>2, <2>4, <2>7, TailReads
  <2>9. AddedUp(seen'[t], sum'[t], L \ ToRead(todo'[t]))
    BY <2>1, <2>7, <2>8
  <2> QED BY <1>2, <2>6, <2>7, <2>8, <2>9, SumToolNext
<1>10. CASE Read(t)
  <2>1. UNCHANGED phase /\ phase[t] = "run"
    BY <1>10 DEF Read, Doing
  <2>2. SUFFICES ASSUME Adds(t) PROVE SumTool(t)'
    BY <1>2, <1>4, <2>1, SumToolNext
  <2>3. /\ todo[t] # <<>> /\ todo[t][1].op = "read" /\ todo[t][1].port \in Named /\ NoCaps(todo[t])
        /\ todo'[t] = Tail(todo[t])
    <3>1. PICK q : AfterRead(t, q) /\ todo' = [todo EXCEPT ![t] = q]
      BY <1>10, ReadIs
    <3>2. q = Tail(todo[t])
      BY <1>5, <2>2, <3>1 DEF AfterRead
    <3>3. todo'[t] = q
      BY <1>1, <3>1 DEF CountersTypeOK
    <3> QED BY <1>10, <3>2, <3>3, ReadIs
  <2>4. todo[t] # c /\ todo'[t] # c
    BY <1>1, <2>3, TailIsNotCaps
  <2>5. ReadsOnce(todo[t]) /\ ToRead(todo[t]) \subseteq L /\ AddedUp(seen[t], sum[t], L \ ToRead(todo[t]))
    BY <2>2, <2>4 DEF SumTool
  <2> DEFINE z == todo[t][1].port
             S == L \ ToRead(todo[t])
  <2>6. todo[t][1] = Op("read", z)
    <3>1. 1 \in 1..Len(todo[t])
      BY <1>1, <2>3, TailIs
    <3>2. todo[t][1] \in Ops
      BY <1>1, <3>1
    <3> QED BY <2>3, <3>2, OpIs DEF Ops, Op
  <2>7. ReadsOnce(todo'[t]) /\ ToRead(todo'[t]) = ToRead(todo[t]) \ {z} /\ z \in ToRead(todo[t])
    <3> HIDE DEF z
    <3>1. z \in Named
      BY <2>3 DEF z
    <3> QED BY <1>1, <2>3, <2>5, <2>6, <3>1, TailReads
  <2>8. L \ ToRead(todo'[t]) = S \cup {z} /\ z \notin S /\ z \in Named /\ IsFiniteSet(S)
    <3>1. IsFiniteSet(S)
      BY <1>5, <1>6, <2>2, FS_Subset
    <3> QED BY <2>3, <2>5, <2>7, <3>1
  <2> DEFINE f == seen[t]
             g == seen'[t]
             val == Value(z)
  <2>9. /\ g[z] = val /\ \A p \in S : g[p] = f[p]
        /\ \A k \in Kinds : sum'[t][k] = Aggregate(k, sum[t][k], val[k])
    <3>1. Reads(t) = Kinds
      BY <1>5, <2>2 DEF Reads
    <3>2. val \in [Kinds -> 0..Cap]
      BY <1>1, <2>3, ValueIs
    <3>3. /\ seen' = [seen EXCEPT ![t][z] = [k \in Kinds |-> val[k]]]
          /\ sum' = [sum EXCEPT ![t] = [k \in Kinds |-> Aggregate(k, @[k], val[k])]]
      BY <1>10, <2>2, <3>1 DEF Read, Head1, Adds
    <3> HIDE DEF val, z, S
    <3>4. [k \in Kinds |-> val[k]] = val
      BY <3>2
    <3>5. S \subseteq Named /\ z \in Named /\ z \notin S
      BY <1>5, <1>6, <2>2, <2>8 DEF S
    <3>6. seen \in [Tools -> [Named -> [Kinds -> (0..Cap) \cup {Unread}]]] /\ sum \in [Tools -> [Kinds -> 0..Cap]]
      BY <1>1 DEF CountersTypeOK
    <3>7. sum'[t] = [k \in Kinds |-> Aggregate(k, sum[t][k], val[k])]
      BY <3>3, <3>6
    <3>8. g = [f EXCEPT ![z] = val]
      BY <3>3, <3>4, <3>6
    <3>9. f \in [Named -> [Kinds -> (0..Cap) \cup {Unread}]]
      BY <3>6
    <3> HIDE DEF f, g
    <3>10. g[z] = val /\ \A p \in S : g[p] = f[p]
      BY <3>5, <3>8, <3>9
    <3> QED BY <3>7, <3>10
  <2>10. val \in [Kinds -> 0..Cap]
    BY <1>1, <2>3, ValueIs
  <2>11. ASSUME NEW k \in Kinds
         PROVE  sum'[t][k] = Capped(SumOver(g, S \cup {z}, k))
    <3>1. sum[t][k] \in 0..Cap /\ val[k] \in 0..Cap
      BY <1>1, <2>10 DEF CountersTypeOK
    <3>2. sum'[t][k] = Capped(sum[t][k] + val[k])
      BY <2>9, <3>1, AggregateIs
    <3>3. sum[t][k] = Capped(SumOver(f, S, k))
      BY <2>5 DEF AddedUp
    <3>4. \A p \in S : f[p][k] \in Nat /\ g[p][k] = f[p][k]
      BY <2>5, <2>9 DEF AddedUp
    <3>5. g[z][k] = val[k]
      BY <2>9
    <3>6. z \notin S /\ IsFiniteSet(S)
      BY <2>8
    <3> HIDE DEF f, g, S, z, val
    <3>7. g[z][k] \in 0..Cap
      BY <3>1, <3>5
    <3>8. Capped(sum[t][k] + g[z][k]) = Capped(SumOver(g, S \cup {z}, k))
      BY <3>3, <3>4, <3>6, <3>7, AddsOne
    <3> QED BY <3>2, <3>5, <3>8
  <2>12. AddedUp(g, sum'[t], S \cup {z})
    <3>1. Cap \in Nat
      BY PerfCountersAssumption
    <3>2. \A p \in S \cup {z}, k \in Kinds : g[p][k] \in Nat
      <4> TAKE p \in S \cup {z}, k \in Kinds
      <4>1. val[k] \in Nat
        BY <2>10, <3>1
      <4> HIDE DEF val
      <4> QED BY <2>5, <2>9, <4>1 DEF AddedUp
    <3> HIDE DEF f, g, S, z, val
    <3> QED BY <2>11, <3>2 DEF AddedUp
  <2>13. AddedUp(seen'[t], sum'[t], L \ ToRead(todo'[t]))
    BY <2>8, <2>12
  <2> QED BY <1>2, <2>4, <2>5, <2>7, <2>13, SumToolNext
<1>11. CASE Reset(t)
  <2>1. UNCHANGED <<todo, phase, seen, sum>> /\ phase[t] # "exit"
    BY <1>11 DEF Reset, Doing
  <2> QED BY <1>2, <1>4, <2>1, SumStays
<1>12. CASE Finish(t)
  <2>1. UNCHANGED <<todo, seen, sum>> /\ phase[t] # "exit"
    BY <1>12 DEF Finish
  <2> QED BY <1>2, <1>4, <2>1, SumStays
<1>13. CASE Again(t)
  <2>1. todo'[t] = c /\ sum'[t] = Zero
    BY <1>1, <1>13 DEF Again, CountersTypeOK
  <2> QED BY <1>2, <2>1, SumToolNext
<1> QED BY <1>7, <1>8, <1>9, <1>10, <1>11, <1>12, <1>13, StepIs

LEMMA SumInvStep ==
  ASSUME PortsDiffer, CountersInv, CountersInv', SumInv, [CountersNext]_countervars
  PROVE  SumInv'
<1>1. CASE UNCHANGED countervars
  <2>1. UNCHANGED <<scenario, allSelect, todo, phase, seen, sum>>
    BY <1>1 DEF countervars, agent
  <2>2. ASSUME NEW t \in Tools PROVE SumTool(t)'
    <3>1. SumTool(t)
      BY DEF SumInv
    <3>2. Adds(t)' => Adds(t)
      BY <2>1 DEF Adds, Emulates, InfoPort, Opt, Aggregates, IsPerfquery
    <3> QED BY <2>1, <3>1, <3>2, SumStays
  <2> QED BY <2>1, <2>2, ScenarioStays DEF SumInv
<1>2. CASE \E q \in Ports, l \in Kinds : Event(q, l)
  <2>1. UNCHANGED <<scenario, allSelect, todo, phase, seen, sum>>
    BY <1>2 DEF Event
  <2>2. ASSUME NEW t \in Tools PROVE SumTool(t)'
    <3>1. SumTool(t)
      BY DEF SumInv
    <3>2. Adds(t)' => Adds(t)
      BY <2>1 DEF Adds, Emulates, InfoPort, Opt, Aggregates, IsPerfquery
    <3> QED BY <2>1, <3>1, <3>2, SumStays
  <2> QED BY <2>1, <2>2, ScenarioStays DEF SumInv
<1>3. CASE \E t \in Tools : Step(t)
  <2>1. PICK t \in Tools : Step(t)
    BY <1>3
  <2>2. UNCHANGED <<scenario, allSelect>>
    BY <2>1, StepIs DEF Plans, Stops, Drops, Read, Reset, Finish, Again, agent
  <2>3. ASSUME NEW u \in Tools PROVE SumTool(u)'
    <3>1. SumTool(u)
      BY DEF SumInv
    <3>2. CASE u = t
      BY <2>1, <3>1, <3>2, SumToolStep
    <3>3. CASE u # t
      <4>1. todo'[u] = todo[u] /\ seen'[u] = seen[u] /\ sum'[u] = sum[u] /\ phase'[u] = phase[u]
        BY <2>1, <3>3, OthersStay
      <4>2. Adds(u)' => Adds(u)
        BY <2>2, <4>1 DEF Adds, Emulates, InfoPort, Opt, Aggregates, IsPerfquery
      <4> QED BY <2>2, <3>1, <4>1, <4>2, SumStays
    <3> QED BY <3>2, <3>3
  <2> QED BY <2>2, <2>3, ScenarioStays DEF SumInv
<1> QED BY <1>1, <1>2, <1>3 DEF CountersNext

LEMMA SumInvInit ==
  ASSUME CountersInit
  PROVE  SumInv
<1>1. ASSUME NEW t \in Tools PROVE SumTool(t)
  <2>1. todo[t] = <<Op("caps", 0)>> /\ sum[t] = Zero
    BY DEF CountersInit
  <2> QED BY <2>1 DEF SumTool
<1> QED BY <1>1 DEF SumInv

\* What is left when a tool has ended: nothing to read, and nothing to be asked for.
LEMMA NothingIsLeft ==
  /\ <<>> # <<Op("caps", 0)>> /\ ToRead(<<>>) = {}
  /\ \A p : ~Ahead(<<>>, p)
<1>1. Len(<<Op("caps", 0)>>) = 1 /\ Len(<<>>) = 0
  OBVIOUS
<1>2. 1..0 = {}
  OBVIOUS
<1> QED BY <1>1, <1>2 DEF ToRead, Ahead

LEMMA ReportedAtTheEnd ==
  ASSUME CountersInv, ReportInv, SumInv
  PROVE  EveryPortIsReported
<1>1. SUFFICES ASSUME NEW t \in Tools, phase[t] = "done"
      PROVE  /\ /\ ~IsPerfquery(t) /\ ~Opt(t).countersOnly /\ failures[t] = 0
                /\ \A u \in Tools \ {t} : IsPerfquery(u) /\ Opt(u).reset = "no"
                => \A p \in Ports : Exceeds(first[t][p]) => p \in bad[t]
             /\ Aggregates(t) /\ Opt(t).reset # "only" =>
                  \A k \in Kinds : sum[t][k] = Capped(SumOver(seen[t], LoopSet(t), k))
  BY DEF EveryPortIsReported, LoopSet
<1>2. todo[t] = <<>>
  BY <1>1 DEF CountersInv, Orderly, OrderlyTool
<1>3. ReportTool(t) /\ SumTool(t)
  BY DEF ReportInv, SumInv
<1>4. Reports(t) /\ failures[t] = 0 => \A p \in Ports : Exceeds(first[t][p]) => p \in bad[t]
  BY <1>2, <1>3, NothingIsLeft DEF ReportTool
<1>5. Adds(t) => \A k \in Kinds : sum[t][k] = Capped(SumOver(seen[t], LoopSet(t), k))
  <2>1. LoopSet(t) \ {} = LoopSet(t)
    OBVIOUS
  <2>2. Adds(t) => AddedUp(seen[t], sum[t], LoopSet(t))
    BY <1>2, <1>3, <2>1, NothingIsLeft DEF SumTool
  <2> QED BY <2>2 DEF AddedUp
<1> QED BY <1>1, <1>4, <1>5 DEF Reports, Adds

\* ibqueryerrors reports every port that was beyond the threshold when it came to the
\* node, in whatever way it looks at the ports, as long as its queries are answered and
\* nobody else resets; and the sum that perfquery -a prints is that of what it read, of
\* every port it loops over, capped, if no port is named twice.
THEOREM PortsAreReported ==
  ASSUME PortsDiffer
  PROVE  CountersSpec => []EveryPortIsReported
<1>1. CountersInit => ReportInv /\ SumInv
  BY ReportInvInit, SumInvInit
<1>2. CountersInv /\ CountersInv' /\ ReportInv /\ SumInv /\ [CountersNext]_countervars => ReportInv' /\ SumInv'
  BY PortsDiffer, ReportInvStep, SumInvStep
<1>3. CountersInv /\ ReportInv /\ SumInv => EveryPortIsReported
  BY ReportedAtTheEnd
<1> QED BY <1>1, <1>2, <1>3, CountersTyped, PTL DEF CountersSpec
=============================================================================
