--------------------------- MODULE FabricProofs ---------------------------
(***************************************************************************)
(* Proofs about what follows the cables of a fabric hop by hop: Discovery, *)
(* for every fabric, every set of scans and every number of SMPs on the    *)
(* wire, with any number of failures, and, in the second half, ibtracert's *)
(* unicast trace, for every fabric and all forwarding tables.              *)
(*                                                                         *)
(* What the callbacks rely on is carried by the SMPs that are outstanding: *)
(* Sound says which ports must have been seen before an SMP may exist.     *)
(* It only grows with info, so SMPs that wait stay sound while others are  *)
(* answered, in any order.  Routed says in the same way where their paths  *)
(* lead, from which every link is a cable, and Known and Pending that what *)
(* is not found yet will be, from which the fabric is whole.               *)
(***************************************************************************)
EXTENDS Discovery, Ibtracert, SequenceTheorems, FiniteSetTheorems, FunctionTheorems,
        WellFoundedInduction, TLAPS

\* The SMPs that may be outstanding once PortInfo of the ports of seen has
\* been received.
Sound(seen) ==
  {smp \in Smps :
     /\ smp.attr # "NodeInfo" => smp.port \in Ports
     /\ smp.attr = "NodeInfo" => smp.port = NoPort \/ smp.port \in seen
     /\ smp.attr = "ExtPortInfo" => smp.port \in seen
     /\ smp.attr = "PortInfo" /\ smp.port[1] \in Switches /\ smp.port[2] # 0
          => <<smp.port[1], 0>> \in seen}

Typing ==
  /\ scan \in Scans
  /\ queue \in Seq(Sound(info))
  /\ wire \subseteq Sound(info) /\ IsFiniteSet(wire)
  /\ todo \in Seq(Sound(info))
  /\ info \subseteq Ports
  /\ DOMAIN baseLid = Ports
  /\ remote \in [Ports -> Ports \cup {NoPort}]

\* The LID of a switch was entered with its port 0, before any other port.
LidsEntered ==
  \A e \in info : e[1] \in Switches =>
    baseLid[<<e[1], 0>>] = 0 \/ baseLid[<<e[1], 0>>] \in DOMAIN lid2guid

\* Port 0 of a switch comes first.
PortZeroFirst == \A e \in info : e[1] \in Switches => <<e[1], 0>> \in info

LidInv == SwitchPortsShareLid /\ LidsEntered /\ PortZeroFirst /\ LidFindsItsPort

IInv == Typing /\ LinkSymmetric /\ LidInv

-----------------------------------------------------------------------------
LEMMA PortParts ==
  ASSUME NEW e \in Ports
  PROVE  /\ e = <<e[1], e[2]>>
         /\ e[1] \in Nodes
         /\ e[2] \in 0..NumPorts[e[1]]
         /\ e[2] \in Nat
         /\ NumPorts[e[1]] \in Nat
<1>1. PICK n \in Nodes : e \in {<<n, p>> : p \in (IF n \in Switches THEN 0 ELSE 1)..NumPorts[n]}
  BY DEF Ports
<1>2. PICK p \in (IF n \in Switches THEN 0 ELSE 1)..NumPorts[n] : e = <<n, p>>
  BY <1>1
<1>3. NumPorts[n] \in Nat
  BY FabricAssumption, DiscoveryAssumption
<1>4. p \in 0..NumPorts[n] /\ p \in Nat
  BY <1>2, <1>3
<1> QED BY <1>2, <1>3, <1>4

LEMMA SwitchPorts ==
  ASSUME NEW n \in Switches, NEW p \in 0..NumPorts[n]
  PROVE  <<n, p>> \in Ports
<1>1. n \in Nodes
  BY FabricAssumption, DiscoveryAssumption
<1> QED BY <1>1 DEF Ports

-----------------------------------------------------------------------------
\* The SMPs a prefix of a queue takes to the wire are finitely many.
LEMMA TakenFinite ==
  ASSUME NEW q, NEW n \in Nat
  PROVE  IsFiniteSet({q[i] : i \in 1..n})
<1> DEFINE T == {q[i] : i \in 1..n}
           f == [i \in 1..n |-> q[i]]
<1>1. f \in Surjection(1..n, T)
  BY DEF Surjection
<1>2. IsFiniteSet(1..n)
  BY FS_Interval
<1> QED BY <1>1, <1>2, FS_Surjection

LEMMA RoomBounds ==
  ASSUME NEW S, NEW q \in Seq(S), NEW w, IsFiniteSet(w)
  PROVE  Room(q, w) \in 0..Len(q)
<1> DEFINE c == Cardinality(w)
           l == Len(q)
<1>1. c \in Nat /\ l \in Nat /\ MaxSmps \in Nat
  BY FS_CardinalityType, LenProperties, MaxSmpsAssumption
<1>2. Room(q, w) = IF MaxSmps - c < 0 THEN 0
                   ELSE IF MaxSmps - c < l THEN MaxSmps - c ELSE l
  BY DEF Room
<1> HIDE DEF c
<1> QED BY <1>1, <1>2

\* Whatever holds of the SMPs of q and w holds of the queue and the wire after
\* process_smp_queue, when it sent or dropped the first n of q.
LEMMA RefillKeeps ==
  ASSUME NEW S, NEW q \in Seq(S), NEW w \in SUBSET S, IsFiniteSet(w),
         SendAll(q, w) \/ \E n \in 1..Room(q, w) : SendFails(q, w, n)
  PROVE  queue' \in Seq(S) /\ wire' \subseteq S /\ IsFiniteSet(wire')
<1>1. Len(q) \in Nat /\ Room(q, w) \in 0..Len(q)
  BY LenProperties, RoomBounds
<1>2. ASSUME NEW n \in 0..Len(q), NEW m \in 0..n,
             queue' = SubSeq(q, n + 1, Len(q)), wire' = w \cup {q[i] : i \in 1..m}
      PROVE  queue' \in Seq(S) /\ wire' \subseteq S /\ IsFiniteSet(wire')
  <2>1. \A i \in 1..Len(q) : q[i] \in S
    BY ElementOfSeq
  <2>2. n + 1 \in Int /\ Len(q) \in Int /\ n + 1..Len(q) \subseteq 1..Len(q)
    BY <1>1
  <2>3. queue' \in Seq(S)
    BY <1>2, <2>1, <2>2, SubSeqProperties
  <2>4. 1..m \subseteq 1..Len(q) /\ m \in Nat
    BY <1>1
  <2>5. IsFiniteSet({q[i] : i \in 1..m})
    BY <2>4, TakenFinite
  <2>6. IsFiniteSet(wire')
    BY <1>2, <2>5, FS_Union
  <2> QED BY <1>2, <2>1, <2>3, <2>4, <2>6
<1>3. CASE SendAll(q, w)
  <2> DEFINE n == Room(q, w)
  <2>1. /\ queue' = SubSeq(q, n + 1, Len(q))
        /\ wire' = w \cup {q[i] : i \in 1..n}
    BY <1>3 DEF SendAll
  <2>2. n \in 0..Len(q) /\ n \in 0..n
    BY <1>1
  <2> HIDE DEF n
  <2> QED BY <1>2, <2>1, <2>2
<1>4. CASE \E n \in 1..Room(q, w) : SendFails(q, w, n)
  <2>1. PICK n \in 1..Room(q, w) : SendFails(q, w, n)
    BY <1>4
  <2>2. n \in 0..Len(q) /\ n - 1 \in 0..n
    BY <1>1
  <2> QED BY <1>2, <2>1, <2>2 DEF SendFails
<1> QED BY <1>3, <1>4

-----------------------------------------------------------------------------
\* An SMP that may wait still may when more ports have been seen.
LEMMA SoundGrows ==
  ASSUME NEW A, NEW B, A \subseteq B
  PROVE  Sound(A) \subseteq Sound(B) /\ Seq(Sound(A)) \subseteq Seq(Sound(B))
<1>1. Sound(A) \subseteq Sound(B)
  BY DEF Sound
<1> QED BY <1>1, SeqMonotonic

LEMMA SoundParts ==
  ASSUME NEW seen, NEW smp \in Sound(seen)
  PROVE  smp.path \in Seq(Nat) /\ (smp.attr # "NodeInfo" => smp.port \in Ports)
  BY DEF Sound, Smps

\* What recv_node_info asks for may be asked for.
LEMMA NodeQueriesSound ==
  ASSUME NEW seen, NEW route \in Seq(Nat), NEW at \in Ports, NEW new \in BOOLEAN
  PROVE  NodeQueries(route, at, new) \in Seq(Sound(seen))
<1>1. at = <<at[1], at[2]>> /\ at[1] \in Nodes /\ NumPorts[at[1]] \in Nat
  BY PortParts
<1>2. Smp("NodeDesc", route, at) \in Sound(seen)
  BY DEF Smp, Sound, Smps
<1>3. at[1] \in Switches => /\ Smp("SwitchInfo", route, at) \in Sound(seen)
                            /\ PortInfo(route, <<at[1], 0>>) \in Sound(seen)
  <2> SUFFICES ASSUME at[1] \in Switches
               PROVE  /\ Smp("SwitchInfo", route, at) \in Sound(seen)
                      /\ PortInfo(route, <<at[1], 0>>) \in Sound(seen)
    OBVIOUS
  <2>1. <<at[1], 0>> \in Ports
    BY <1>1, SwitchPorts
  <2> QED BY <2>1 DEF Smp, PortInfo, Sound, Smps
<1>4. at[1] \notin Switches => PortInfo(route, at) \in Sound(seen)
  BY DEF Smp, PortInfo, Sound, Smps
<1> DEFINE d == IF new THEN <<Smp("NodeDesc", route, at)>> ELSE <<>>
           w == IF new /\ at[1] \in Switches
                THEN <<Smp("SwitchInfo", route, at), PortInfo(route, <<at[1], 0>>)>>
                ELSE <<>>
           c == IF at[1] \notin Switches THEN <<PortInfo(route, at)>> ELSE <<>>
<1>5. d \in Seq(Sound(seen))
  BY <1>2
<1>6. w \in Seq(Sound(seen))
  BY <1>3
<1>7. c \in Seq(Sound(seen))
  BY <1>4
<1>8. NodeQueries(route, at, new) = (d \o w) \o c
  BY DEF NodeQueries
<1> HIDE DEF d, w, c
<1>9. d \o w \in Seq(Sound(seen))
  BY <1>5, <1>6, ConcatProperties
<1> QED BY <1>7, <1>8, <1>9, ConcatProperties

\* recv_port0_info asks for ports that exist, and port 0 has been seen.
LEMMA PortQueriesSound ==
  ASSUME NEW seen, NEW route \in Seq(Nat), NEW n \in Switches, <<n, 0>> \in seen
  PROVE  PortQueries(route, n) \in Seq(Sound(seen))
<1>1. NumPorts[n] \in Nat
  BY FabricAssumption, DiscoveryAssumption
<1>2. \A p \in 1..NumPorts[n] : PortInfo(route, <<n, p>>) \in Sound(seen)
  <2> SUFFICES ASSUME NEW p \in 1..NumPorts[n]
               PROVE  PortInfo(route, <<n, p>>) \in Sound(seen)
    OBVIOUS
  <2>1. <<n, p>> \in Ports
    BY <1>1, SwitchPorts
  <2> QED BY <2>1 DEF PortInfo, Smp, Sound, Smps
<1>3. PortQueries(route, n) \in [1..NumPorts[n] -> Sound(seen)]
  BY <1>2 DEF PortQueries
<1> QED BY <1>1, <1>3, SeqDef

\* Going on sends NodeInfo through a port that has been seen.
LEMMA GoOnSound ==
  ASSUME NEW seen, NEW route \in Seq(Nat), NEW port \in Ports, port \in seen, NEW ingress
  PROVE  GoOn(port[1], port[2], route, ingress).smps \in Seq(Sound(seen))
<1>1. port = <<port[1], port[2]>> /\ port[2] \in Nat
  BY PortParts
<1>2. ASSUME NEW p2 \in Seq(Nat)
      PROVE  <<Onward(port[1], port[2], p2)>> \in Seq(Sound(seen))
  <2>1. Onward(port[1], port[2], p2) \in Sound(seen)
    BY <1>1, <1>2 DEF Onward, NodeInfo, Smp, Sound, Smps
  <2> QED BY <2>1
<1>3. Append(route, port[2]) \in Seq(Nat)
  BY <1>1, AppendProperties
<1>4. SubSeq(route, 1, Len(route) - 1) \in Seq(Nat)
  <2>1. Len(route) \in Nat
    BY LenProperties
  <2>2. \A i \in 1..Len(route) - 1 : route[i] \in Nat
    BY <2>1, ElementOfSeq
  <2> QED BY <2>1, <2>2, SubSeqProperties
<1>5. <<>> \in Seq(Sound(seen))
  OBVIOUS
<1> DEFINE on == GoOn(port[1], port[2], route, ingress)
<1>6. \/ on.smps = <<>>
      \/ on.smps = <<Onward(port[1], port[2], SubSeq(route, 1, Len(route) - 1))>>
      \/ on.smps = <<Onward(port[1], port[2], Append(route, port[2]))>>
  BY DEF GoOn
<1> QED BY <1>2, <1>3, <1>4, <1>5, <1>6

-----------------------------------------------------------------------------
\* link_ports keeps the pointers of all ports symmetric: nobody still points at
\* a port that was linked to another.
LEMMA LinkPortsSymmetric ==
  ASSUME NEW r \in [Ports -> Ports \cup {NoPort}], NEW a \in Ports, NEW b \in Ports,
         \A e \in Ports : r[e] # NoPort => r[r[e]] = e
  PROVE  /\ LinkPorts(r, a, b) \in [Ports -> Ports \cup {NoPort}]
         /\ \A e \in Ports : LinkPorts(r, a, b)[e] # NoPort
              => LinkPorts(r, a, b)[LinkPorts(r, a, b)[e]] = e
<1> DEFINE l == LinkPorts(r, a, b)
<1>1. l = [e \in Ports |-> IF e = a THEN b
                           ELSE IF e = b THEN a
                           ELSE IF e = r[a] \/ e = r[b] THEN NoPort
                           ELSE r[e]]
  BY DEF LinkPorts
<1>2. l \in [Ports -> Ports \cup {NoPort}]
  BY <1>1
<1>3. ASSUME NEW e \in Ports, l[e] # NoPort PROVE l[l[e]] = e
  <2>1. CASE e = a \/ e = b
    BY <1>1, <2>1
  <2>2. CASE e # a /\ e # b
    <3>1. e # r[a] /\ e # r[b] /\ l[e] = r[e] /\ r[e] \in Ports /\ r[e] # NoPort
      BY <1>1, <1>3, <2>2
    <3>2. r[r[e]] = e
      BY <3>1
    <3>3. r[e] # a /\ r[e] # b
      BY <3>1, <3>2
    <3>4. r[e] # r[a] /\ r[e] # r[b]
      BY <2>2, <3>1, <3>2
    <3> QED BY <1>1, <3>1, <3>2, <3>3, <3>4
  <2> QED BY <2>1, <2>2
<1> QED BY <1>2, <1>3

LEMMA InitIInv == Init => IInv
<1> SUFFICES ASSUME Init PROVE IInv
  OBVIOUS
<1>1. Typing
  <2>1. IsFiniteSet({})
    BY FS_EmptySet
  <2> QED BY <2>1 DEF Init, Typing
<1>2. LinkSymmetric
  BY DEF Init, LinkSymmetric
<1>3. LidInv
  BY DEF Init, LidInv, SwitchPortsShareLid, LidsEntered, PortZeroFirst, LidFindsItsPort
<1> QED BY <1>1, <1>2, <1>3 DEF IInv

\* What an answered SMP and the SMPs still waiting are when one arrives.
LEMMA ReceivesTypes ==
  ASSUME Typing, NEW smp \in wire, Receives(smp)
  PROVE  /\ smp \in Sound(info)
         /\ queue' \in Seq(Sound(info))
         /\ wire' \subseteq Sound(info)
         /\ IsFiniteSet(wire')
<1>1. IsFiniteSet(wire \ {smp})
  BY FS_RemoveElement DEF Typing
<1>2. wire \ {smp} \in SUBSET Sound(info)
  BY DEF Typing
<1> QED BY <1>1, <1>2, RefillKeeps DEF Typing, Receives

\* An answer to MLNX ExtPortInfo, good or bad.
LEMMA ExtPortInfoTypes ==
  ASSUME IInv, NEW smp \in wire, ExtPortInfoDone(smp)
  PROVE  IInv'
<1>1. Typing /\ Receives(smp) /\ smp.attr = "ExtPortInfo"
  BY DEF IInv, ExtPortInfoDone
<1>2. /\ smp \in Sound(info)
      /\ queue' \in Seq(Sound(info))
      /\ wire' \subseteq Sound(info)
      /\ IsFiniteSet(wire')
  BY <1>1, ReceivesTypes
<1>3. smp.path \in Seq(Nat) /\ smp.port \in Ports /\ smp.port \in info
  BY <1>1, <1>2, SoundParts DEF Sound
<1>4. todo' \in Seq(Sound(info))
  <2>1. todo' = GoOn(smp.port[1], smp.port[2], smp.path, Arrival(smp.path)[2]).smps
    BY DEF ExtPortInfoDone
  <2> QED BY <1>3, <2>1, GoOnSound
<1>5. UNCHANGED <<scan, info, baseLid, lid2guid, remote>>
  BY DEF ExtPortInfoDone
<1>6. Typing'
  BY <1>1, <1>2, <1>4, <1>5 DEF Typing
<1>7. LinkSymmetric' /\ LidInv'
  BY <1>5 DEF IInv, LinkSymmetric, LidInv, SwitchPortsShareLid, LidsEntered,
              PortZeroFirst, LidFindsItsPort
<1> QED BY <1>6, <1>7 DEF IInv

LEMMA NodeInfoTypes ==
  ASSUME IInv, NEW smp \in wire, RecvNodeInfo(smp)
  PROVE  IInv'
<1> DEFINE at == Arrival(smp.path)
           new == at[1] \notin DOMAIN nodes
<1>1. Typing /\ Receives(smp) /\ smp.attr = "NodeInfo" /\ at \in Ports
  BY DEF IInv, RecvNodeInfo, Answered
<1>2. /\ smp \in Sound(info)
      /\ queue' \in Seq(Sound(info))
      /\ wire' \subseteq Sound(info)
      /\ IsFiniteSet(wire')
  BY <1>1, ReceivesTypes
<1>3. smp.path \in Seq(Nat) /\ (smp.port = NoPort \/ smp.port \in info)
  BY <1>1, <1>2, SoundParts DEF Sound
<1>4. todo' = NodeQueries(smp.path, at, new)
  BY DEF RecvNodeInfo
<1>5. \/ smp.port = NoPort /\ remote' = remote
      \/ smp.port # NoPort /\ remote' = LinkPorts(remote, at, smp.port)
  BY DEF RecvNodeInfo
<1>6. UNCHANGED <<scan, info, baseLid, lid2guid>>
  BY DEF RecvNodeInfo
<1>7. new \in BOOLEAN
  OBVIOUS
<1> HIDE DEF at, new
<1>8. todo' \in Seq(Sound(info))
  BY <1>1, <1>3, <1>4, <1>7, NodeQueriesSound
<1>9. remote' \in [Ports -> Ports \cup {NoPort}] /\ LinkSymmetric'
  <2>1. CASE remote' = remote
    BY <1>1, <2>1 DEF IInv, Typing, LinkSymmetric
  <2>2. CASE smp.port # NoPort /\ remote' = LinkPorts(remote, at, smp.port)
    <3>1. smp.port \in Ports
      BY <1>1, <1>3, <2>2 DEF Typing
    <3>2. remote \in [Ports -> Ports \cup {NoPort}]
      BY <1>1 DEF Typing
    <3>3. \A e \in Ports : remote[e] # NoPort => remote[remote[e]] = e
      BY DEF IInv, LinkSymmetric
    <3> QED BY <1>1, <2>2, <3>1, <3>2, <3>3, LinkPortsSymmetric DEF LinkSymmetric
  <2> QED BY <1>5, <2>1, <2>2
<1>10. Typing'
  BY <1>1, <1>2, <1>6, <1>8, <1>9 DEF Typing
<1>11. LidInv'
  BY <1>6 DEF IInv, LidInv, SwitchPortsShareLid, LidsEntered, PortZeroFirst, LidFindsItsPort
<1> QED BY <1>9, <1>10, <1>11 DEF IInv

\* PortInfo enters the LID of a port of its own, and under a switch's LID only
\* port 0.
LEMMA PortInfoLids ==
  ASSUME LidInv, info \subseteq Ports, DOMAIN baseLid = Ports, NEW port \in Ports,
         port[1] \in Switches /\ port[2] # 0 => <<port[1], 0>> \in info,
         info' = info \cup {port},
         baseLid' = [baseLid EXCEPT ![port] = PortLid(port)],
         lid2guid' = EnterLid(lid2guid, PortLid(port), port)
  PROVE  LidInv'
<1> DEFINE lid == PortLid(port)
           zero == <<port[1], 0>>
<1>1. port = <<port[1], port[2]>> /\ \A e \in Ports : e = <<e[1], e[2]>>
  BY PortParts
<1>2. \A e \in info : e[1] \in Switches =>
        /\ baseLid[e] = LidOf[<<e[1], 0>>]
        /\ <<e[1], 0>> \in info
        /\ baseLid[<<e[1], 0>>] = 0 \/ baseLid[<<e[1], 0>>] \in DOMAIN lid2guid
  BY DEF LidInv, SwitchPortsShareLid, LidsEntered, PortZeroFirst
<1>3. port[1] \in Switches => lid = LidOf[zero]
  <2>1. CASE port[1] \in Switches /\ port[2] # 0
    <3>1. zero \in info /\ zero[1] = port[1]
      BY <2>1
    <3>2. baseLid[zero] = LidOf[zero]
      BY <1>2, <2>1, <3>1
    <3> QED BY <2>1, <3>2 DEF PortLid
  <2>2. CASE port[1] \in Switches /\ port[2] = 0
    BY <1>1, <2>2 DEF PortLid
  <2> QED BY <2>1, <2>2
<1>4. port[1] \in Switches /\ port[2] # 0 => lid = 0 \/ lid \in DOMAIN lid2guid
  <2> SUFFICES ASSUME port[1] \in Switches, port[2] # 0
               PROVE  lid = 0 \/ lid \in DOMAIN lid2guid
    OBVIOUS
  <2>1. zero \in info /\ zero[1] = port[1] /\ zero[2] = 0
    OBVIOUS
  <2>2. baseLid[zero] = 0 \/ baseLid[zero] \in DOMAIN lid2guid
    BY <1>2, <2>1
  <2> QED BY <2>2 DEF PortLid
<1>5. port[1] \notin Switches \/ port[2] = 0 => lid = LidOf[port]
  BY DEF PortLid
<1> HIDE DEF lid
<1>6. /\ baseLid'[port] = lid
      /\ \A e \in Ports : e # port => baseLid'[e] = baseLid[e]
  BY DEF lid
<1>7. /\ DOMAIN lid2guid \subseteq DOMAIN lid2guid'
      /\ lid = 0 \/ lid \in DOMAIN lid2guid'
      /\ \A l \in DOMAIN lid2guid' :
           \/ l \in DOMAIN lid2guid /\ lid2guid'[l] = lid2guid[l]
           \/ l = lid /\ lid # 0 /\ lid \notin DOMAIN lid2guid /\ lid2guid'[l] = port
  BY DEF lid, EnterLid
<1>8. PortZeroFirst'
  <2> SUFFICES ASSUME NEW e \in info', e[1] \in Switches PROVE <<e[1], 0>> \in info'
    BY DEF PortZeroFirst
  <2>1. CASE e \in info
    BY <1>2, <2>1
  <2>2. CASE e = port
    BY <1>1, <2>2
  <2> QED BY <2>1, <2>2
<1>9. SwitchPortsShareLid'
  <2> SUFFICES ASSUME NEW e \in info', e[1] \in Switches
               PROVE  baseLid'[e] = LidOf[<<e[1], 0>>]
    BY DEF SwitchPortsShareLid
  <2>1. CASE e = port
    BY <1>3, <1>6, <2>1
  <2>2. CASE e # port
    BY <1>2, <1>6, <2>2
  <2> QED BY <2>1, <2>2
<1>10. LidsEntered'
  <2> SUFFICES ASSUME NEW e \in info', e[1] \in Switches
               PROVE  baseLid'[<<e[1], 0>>] = 0 \/ baseLid'[<<e[1], 0>>] \in DOMAIN lid2guid'
    BY DEF LidsEntered
  <2>1. CASE <<e[1], 0>> = port
    BY <1>6, <1>7, <2>1
  <2>2. CASE <<e[1], 0>> # port
    <3>1. <<e[1], 0>> \in info
      BY <1>1, <1>2, <2>2
    <3>2. baseLid[<<e[1], 0>>] = 0 \/ baseLid[<<e[1], 0>>] \in DOMAIN lid2guid
      BY <1>2, <3>1
    <3> QED BY <1>6, <1>7, <2>2, <3>1, <3>2
  <2> QED BY <2>1, <2>2
<1>11. LidFindsItsPort'
  <2> SUFFICES ASSUME NEW l \in DOMAIN lid2guid' PROVE LidOf[lid2guid'[l]] = l
    BY DEF LidFindsItsPort
  <2>1. CASE l \in DOMAIN lid2guid /\ lid2guid'[l] = lid2guid[l]
    BY <2>1 DEF LidInv, LidFindsItsPort
  <2>2. CASE l = lid /\ lid # 0 /\ lid \notin DOMAIN lid2guid /\ lid2guid'[l] = port
    BY <1>4, <1>5, <2>2
  <2> QED BY <1>7, <2>1, <2>2
<1> QED BY <1>8, <1>9, <1>10, <1>11 DEF LidInv

LEMMA PortInfoTypes ==
  ASSUME IInv, NEW smp \in wire, RecvPortInfo(smp)
  PROVE  IInv'
<1> DEFINE port == smp.port
           ingress == Arrival(smp.path)[2]
           on == IF port \in EpiPorts
                 THEN [smps |-> <<ExtPortInfo(smp.path, port)>>, hops |-> maxhops]
                 ELSE GoOn(port[1], port[2], smp.path, ingress)
           more == IF port[2] = 0 THEN PortQueries(smp.path, port[1]) ELSE <<>>
<1>1. Typing /\ Receives(smp) /\ smp.attr = "PortInfo"
  BY DEF IInv, RecvPortInfo, Answered
<1>2. /\ smp \in Sound(info)
      /\ queue' \in Seq(Sound(info))
      /\ wire' \subseteq Sound(info)
      /\ IsFiniteSet(wire')
  BY <1>1, ReceivesTypes
<1>3. /\ smp.path \in Seq(Nat)
      /\ port \in Ports
      /\ port[1] \in Switches /\ port[2] # 0 => <<port[1], 0>> \in info
  BY <1>1, <1>2, SoundParts DEF Sound
<1>4. /\ info' = info \cup {port}
      /\ baseLid' = [baseLid EXCEPT ![port] = PortLid(port)]
      /\ lid2guid' = EnterLid(lid2guid, PortLid(port), port)
      /\ todo' = on.smps \o more
      /\ UNCHANGED <<scan, remote>>
  BY DEF RecvPortInfo
<1>5. port = <<port[1], port[2]>> /\ port \in info' /\ info \subseteq info'
  BY <1>3, <1>4, PortParts
<1>6. on.smps \in Seq(Sound(info'))
  <2>1. CASE port \in EpiPorts
    <3>1. ExtPortInfo(smp.path, port) \in Sound(info')
      BY <1>3, <1>5 DEF ExtPortInfo, Smp, Sound, Smps
    <3> QED BY <2>1, <3>1
  <2>2. CASE port \notin EpiPorts
    <3> HIDE DEF port, ingress
    <3>1. GoOn(port[1], port[2], smp.path, ingress).smps \in Seq(Sound(info'))
      BY <1>3, <1>5, GoOnSound
    <3> QED BY <2>2, <3>1
  <2> QED BY <2>1, <2>2
<1>7. more \in Seq(Sound(info'))
  <2>1. CASE port[2] = 0
    <3>1. port[1] \in Switches
      <4>1. PICK n \in Nodes :
              port \in {<<n, p>> : p \in (IF n \in Switches THEN 0 ELSE 1)..NumPorts[n]}
        BY <1>3 DEF Ports
      <4> QED BY <2>1, <4>1
    <3>2. <<port[1], 0>> \in info'
      BY <1>5, <2>1
    <3> QED BY <1>3, <2>1, <3>1, <3>2, PortQueriesSound
  <2>2. CASE port[2] # 0
    BY <2>2
  <2> QED BY <2>1, <2>2
<1>8. /\ queue' \in Seq(Sound(info'))
      /\ wire' \subseteq Sound(info')
  BY <1>2, <1>5, SoundGrows
<1> HIDE DEF port, on, more
<1>9. todo' \in Seq(Sound(info'))
  BY <1>4, <1>6, <1>7, ConcatProperties
<1>10. info \subseteq Ports /\ DOMAIN baseLid = Ports
  BY <1>1 DEF Typing
<1>11. Typing'
  BY <1>1, <1>2, <1>3, <1>4, <1>8, <1>9, <1>10 DEF Typing
<1>12. LinkSymmetric'
  BY <1>4 DEF IInv, LinkSymmetric
<1>13. LidInv'
  BY <1>3, <1>4, <1>10, PortInfoLids DEF IInv
<1> QED BY <1>11, <1>12, <1>13 DEF IInv

\* Steps that only move SMPs.
LEMMA OnlySmpsMove ==
  ASSUME IInv, UNCHANGED <<scan, info, baseLid, lid2guid, remote>>,
         queue' \in Seq(Sound(info)), wire' \subseteq Sound(info), IsFiniteSet(wire'),
         todo' \in Seq(Sound(info))
  PROVE  IInv'
<1>1. Typing'
  BY DEF IInv, Typing
<1>2. LinkSymmetric' /\ LidInv'
  BY DEF IInv, LinkSymmetric, LidInv, SwitchPortsShareLid, LidsEntered,
         PortZeroFirst, LidFindsItsPort
<1> QED BY <1>1, <1>2 DEF IInv

LEMMA NextIInv == IInv /\ [Next]_vars => IInv'
<1> SUFFICES ASSUME IInv, [Next]_vars PROVE IInv'
  OBVIOUS
<1>0. /\ scan \in Scans
      /\ queue \in Seq(Sound(info))
      /\ wire \in SUBSET Sound(info) /\ IsFiniteSet(wire)
      /\ todo \in Seq(Sound(info))
  BY DEF IInv, Typing
<1>1. <<NodeInfo(scan.path, NoPort)>> \in Seq(Sound(info))
  <2>1. scan.path \in Seq(Nat)
    BY <1>0, FabricAssumption, DiscoveryAssumption
  <2>2. NodeInfo(scan.path, NoPort) \in Sound(info)
    BY <2>1 DEF NodeInfo, Smp, Sound, Smps
  <2> QED BY <2>2
<1>2. ASSUME todo # <<>>
      PROVE  Enqueue(queue, Head(todo)) \in Seq(Sound(info)) /\ Tail(todo) \in Seq(Sound(info))
  <2>1. Head(todo) \in Sound(info) /\ Tail(todo) \in Seq(Sound(info))
    BY <1>0, <1>2, HeadTailProperties
  <2> QED BY <1>0, <2>1, AppendProperties DEF Enqueue
<1>3. CASE Start
  <2>1. queue' \in Seq(Sound(info)) /\ wire' \subseteq Sound(info) /\ IsFiniteSet(wire')
    BY <1>0, <1>1, <1>3, RefillKeeps DEF Start
  <2> QED BY <1>0, <1>3, <2>1, OnlySmpsMove DEF Start, learnt
<1>4. CASE StartFails
  <2>1. queue' = SubSeq(<<NodeInfo(scan.path, NoPort)>>, 2, 1) /\ wire' = wire
    BY <1>4 DEF StartFails, SendFails
  <2>2. queue' = <<>>
    BY <2>1, SubSeqEmpty
  <2> QED BY <1>0, <1>4, <2>1, <2>2, OnlySmpsMove DEF StartFails
<1>5. CASE IssueNext
  <2>1. queue' \in Seq(Sound(info)) /\ wire' \subseteq Sound(info) /\ IsFiniteSet(wire')
    BY <1>0, <1>2, <1>5, RefillKeeps DEF IssueNext
  <2> QED BY <1>2, <1>5, <2>1, OnlySmpsMove DEF IssueNext, learnt
<1>6. CASE IssueNextFails
  <2>1. queue' \in Seq(Sound(info)) /\ wire' \subseteq Sound(info) /\ IsFiniteSet(wire')
    BY <1>0, <1>2, <1>6, RefillKeeps DEF IssueNextFails
  <2> QED BY <1>2, <1>6, <2>1, OnlySmpsMove DEF IssueNextFails, learnt
<1>7. ASSUME NEW smp \in wire, RecvNodeInfo(smp) PROVE IInv'
  BY <1>7, NodeInfoTypes
<1>8. ASSUME NEW smp \in wire, RecvDescription(smp) PROVE IInv'
  <2>1. Receives(smp)
    BY <1>8 DEF RecvDescription, Answered
  <2>2. queue' \in Seq(Sound(info)) /\ wire' \subseteq Sound(info) /\ IsFiniteSet(wire')
    BY <2>1, ReceivesTypes DEF IInv
  <2> QED BY <1>0, <1>8, <2>2, OnlySmpsMove DEF RecvDescription, learnt
<1>9. ASSUME NEW smp \in wire, RecvPortInfo(smp) PROVE IInv'
  BY <1>9, PortInfoTypes
<1>10. ASSUME NEW smp \in wire, RecvExtPortInfo(smp) PROVE IInv'
  BY <1>10, ExtPortInfoTypes DEF RecvExtPortInfo
<1>11. ASSUME NEW smp \in wire, RecvBadStatus(smp) PROVE IInv'
  <2>1. CASE ExtPortInfoDone(smp)
    BY <2>1, ExtPortInfoTypes
  <2>2. CASE Receives(smp) /\ UNCHANGED <<todo, learnt, result>>
    <3>1. queue' \in Seq(Sound(info)) /\ wire' \subseteq Sound(info) /\ IsFiniteSet(wire')
      BY <2>2, ReceivesTypes DEF IInv
    <3> QED BY <1>0, <2>2, <3>1, OnlySmpsMove DEF learnt
  <2> QED BY <1>11, <2>1, <2>2 DEF RecvBadStatus
<1>12. ASSUME NEW smp \in wire, RefillFails(smp) PROVE IInv'
  <2>1. wire \ {smp} \in SUBSET Sound(info) /\ IsFiniteSet(wire \ {smp})
    BY <1>0, FS_RemoveElement
  <2>2. queue' \in Seq(Sound(info)) /\ wire' \subseteq Sound(info) /\ IsFiniteSet(wire')
    BY <1>0, <1>12, <2>1, RefillKeeps DEF RefillFails
  <2> QED BY <1>0, <1>12, <2>2, OnlySmpsMove DEF RefillFails, learnt
<1>13. CASE RecvFails
  BY <1>0, <1>13, OnlySmpsMove DEF RecvFails, learnt
<1>14. CASE Finish
  BY <1>0, <1>14, OnlySmpsMove DEF Finish
<1>15. CASE UNCHANGED vars
  BY <1>0, <1>15, OnlySmpsMove DEF vars
<1> QED
  BY <1>3, <1>4, <1>5, <1>6, <1>7, <1>8, <1>9, <1>10, <1>11, <1>12, <1>13, <1>14, <1>15
     DEF Next, Recv

THEOREM Invariant == Spec => []IInv
  BY InitIInv, NextIInv, PTL DEF Spec

-----------------------------------------------------------------------------
\* Two ports are each other's remoteport throughout a scan, whatever the fabric,
\* the order of the answers and the failures: link_ports keeps the links of all
\* ports symmetric.
THEOREM LinksAreSymmetric == Spec => []LinkSymmetric
<1>1. IInv => LinkSymmetric
  BY DEF IInv
<1> QED BY Invariant, <1>1, PTL

\* A switch port is listed under the LID of its switch, because recv_node_info
\* asks for port 0 alone and recv_port0_info for the others.
THEOREM SwitchLidsAreShared == Spec => []SwitchPortsShareLid
<1>1. IInv => SwitchPortsShareLid
  BY DEF IInv, LidInv
<1> QED BY Invariant, <1>1, PTL

\* ibnd_find_port_lid finds the port that has the LID: add_to_portlid_hash keeps
\* the first port entered.
THEOREM LidsFindTheirPorts == Spec => []LidFindsItsPort
<1>1. IInv => LidFindsItsPort
  BY DEF IInv, LidInv
<1> QED BY Invariant, <1>1, PTL

\* recv_node_info never finds the port it was sent through missing.
THEOREM ViaPortsExist == Spec => []ViaPortExists
<1>1. IInv => ViaPortExists
  <2> SUFFICES ASSUME IInv, NEW smp \in Outstanding
               PROVE  smp \in Sound(info)
    BY DEF ViaPortExists, Sound
  <2>1. /\ queue \in Seq(Sound(info))
        /\ wire \subseteq Sound(info)
        /\ todo \in Seq(Sound(info))
    BY DEF IInv, Typing
  <2>2. \A i \in 1..Len(queue) : queue[i] \in Sound(info)
    BY <2>1, ElementOfSeq
  <2>3. \A i \in 1..Len(todo) : todo[i] \in Sound(info)
    BY <2>1, ElementOfSeq
  <2> QED BY <2>1, <2>2, <2>3 DEF Outstanding, Queued
<1> QED BY Invariant, <1>1, PTL

-----------------------------------------------------------------------------
(***************************************************************************)
(* Where SMPs arrive.  ArrivalFrom follows a path hop by hop; that a longer *)
(* path goes on where the shorter one arrived is shown by looking at the    *)
(* first hop at which the two would differ.                                 *)
(***************************************************************************)

\* A set of numbers has a least one.
LEMMA LeastNat ==
  ASSUME NEW T, T \subseteq Nat, T # {}
  PROVE \E m \in T : \A n \in T : m <= n
<1> DEFINE F == {0..n : n \in T}
<1>1. F \subseteq FiniteSubsetsOf(Nat) /\ F # {}
  <2>1. ASSUME NEW n \in T PROVE IsFiniteSet(0..n) /\ 0..n \subseteq Nat
    BY FS_Interval
  <2> QED BY <2>1 DEF FiniteSubsetsOf
<1>2. \E x \in F : \A y \in F : ~(<<y, x>> \in StrictSubsetOrdering(Nat))
  <2> HIDE DEF F
  <2> QED BY <1>1, FS_StrictSubsetOrderingWellFounded, WFMin
<1>3. PICK m \in T : \A n \in T : ~(<<0..n, 0..m>> \in StrictSubsetOrdering(Nat))
  BY <1>2
<1>4. ASSUME NEW n \in T PROVE m <= n
  <2>1. SUFFICES ASSUME n < m PROVE FALSE
    OBVIOUS
  <2>2. 0..n \subseteq 0..m /\ 0..n # 0..m /\ 0..n \in SUBSET Nat /\ 0..m \in SUBSET Nat
    <3>1. m \in 0..m /\ m \notin 0..n BY <2>1
    <3> QED BY <2>1, <3>1
  <2>3. <<0..n, 0..m>> \in StrictSubsetOrdering(Nat)
    BY <2>2 DEF StrictSubsetOrdering
  <2> QED BY <2>3, <1>3
<1> QED BY <1>4

\* The ports an SMP is at on its way: f[i] after i hops.
IsRoute(f, base, route) ==
  f = [i \in 0..Len(route) |-> IF i = 0 THEN base ELSE Hop(f[i - 1], route[i], i = 1)]

LEMMA RouteExists ==
  ASSUME NEW base, NEW route \in Seq(Nat)
  PROVE  \E f : IsRoute(f, base, route)
<1> DEFINE Upto(f, k) == f = [i \in 0..k |-> IF i = 0 THEN base ELSE Hop(f[i - 1], route[i], i = 1)]
           T == {k \in 0..Len(route) : ~\E f : Upto(f, k)}
<1>1. Len(route) \in Nat
  BY LenProperties
<1>2. CASE T = {}
  <2>1. Len(route) \in 0..Len(route)
    BY <1>1
  <2>2. \E f : Upto(f, Len(route))
    BY <1>2, <2>1
  <2> QED BY <2>2 DEF IsRoute
<1>3. CASE T # {}
  <2>1. T \subseteq Nat
    BY <1>1
  <2>2. PICK k \in T : \A n \in T : k <= n
    BY <1>3, <2>1, LeastNat
  <2>3. k \in 0..Len(route) /\ ~\E f : Upto(f, k)
    BY <2>2
  <2>4. k # 0
    <3>1. 0..0 = {0}
      OBVIOUS
    <3>2. Upto([i \in {0} |-> base], 0)
      BY <3>1
    <3> QED BY <2>3, <3>2
  <2>5. k - 1 \in 0..Len(route) /\ k - 1 \notin T
    <3>1. k - 1 \in 0..Len(route) /\ ~(k <= k - 1)
      BY <1>1, <2>3, <2>4
    <3> HIDE DEF T
    <3> QED BY <2>2, <3>1
  <2>6. PICK f : Upto(f, k - 1)
    BY <2>5
  <2> DEFINE g == [i \in 0..k |-> IF i = k THEN Hop(f[k - 1], route[k], k = 1) ELSE f[i]]
  <2>7. Upto(g, k)
    <3> SUFFICES ASSUME NEW i \in 0..k
                 PROVE  g[i] = IF i = 0 THEN base ELSE Hop(g[i - 1], route[i], i = 1)
      OBVIOUS
    <3>1. k \in Nat /\ i \in Nat
      BY <1>1, <2>3
    <3>2. CASE i = k
      BY <2>4, <3>1, <3>2
    <3>3. CASE i # k
      <4>1. i \in 0..(k - 1) /\ g[i] = f[i]
        BY <3>1, <3>3
      <4>2. f[i] = IF i = 0 THEN base ELSE Hop(f[i - 1], route[i], i = 1)
        BY <2>6, <4>1
      <4>3. i # 0 => i - 1 \in 0..k /\ i - 1 # k
        BY <3>1
      <4> QED BY <4>1, <4>2, <4>3
    <3> QED BY <3>2, <3>3
  <2> QED BY <2>3, <2>7
<1> QED BY <1>2, <1>3

LEMMA ArrivalIs ==
  ASSUME NEW base, NEW route \in Seq(Nat)
  PROVE  \E f : IsRoute(f, base, route) /\ ArrivalFrom(base, route) = f[Len(route)]
<1> DEFINE F == CHOOSE f : IsRoute(f, base, route)
<1>1. IsRoute(F, base, route)
  BY RouteExists
<1>2. ArrivalFrom(base, route) = F[Len(route)]
  BY DEF ArrivalFrom, IsRoute
<1> QED BY <1>1, <1>2

\* Two paths have the first n hops in common.
Agree(p1, p2, n) == n <= Len(p1) /\ n <= Len(p2) /\ \A i \in 1..n : p1[i] = p2[i]

LEMMA RoutesAgree ==
  ASSUME NEW base, NEW p1 \in Seq(Nat), NEW p2 \in Seq(Nat), NEW f, NEW g,
         IsRoute(f, base, p1), IsRoute(g, base, p2),
         NEW n \in Nat, Agree(p1, p2, n)
  PROVE  f[n] = g[n]
<1> DEFINE T == {i \in 0..n : f[i] # g[i]}
<1>0. Len(p1) \in Nat /\ Len(p2) \in Nat
  BY LenProperties
<1>1. \A i \in 0..n : /\ f[i] = IF i = 0 THEN base ELSE Hop(f[i - 1], p1[i], i = 1)
                      /\ g[i] = IF i = 0 THEN base ELSE Hop(g[i - 1], p2[i], i = 1)
  <2> TAKE i \in 0..n
  <2>1. i \in 0..Len(p1) /\ i \in 0..Len(p2)
    BY <1>0 DEF Agree
  <2> QED BY <2>1 DEF IsRoute
<1>2. CASE T # {}
  <2>1. PICK i \in T : \A j \in T : i <= j
    <3>1. T \subseteq Nat
      OBVIOUS
    <3> HIDE DEF T
    <3> QED BY <1>2, <3>1, LeastNat
  <2>2. i \in 0..n /\ f[i] # g[i]
    BY <2>1
  <2>3. i # 0
    BY <1>1, <2>2
  <2>4. i - 1 \in 0..n /\ i - 1 \notin T
    BY <2>1, <2>2, <2>3
  <2>5. f[i - 1] = g[i - 1] /\ p1[i] = p2[i]
    BY <2>2, <2>3, <2>4 DEF Agree
  <2> QED BY <1>1, <2>2, <2>3, <2>5
<1>3. CASE T = {}
  <2>1. n \in 0..n
    OBVIOUS
  <2> QED BY <1>3, <2>1
<1> QED BY <1>2, <1>3

\* One more hop.
LEMMA ArrivalAppend ==
  ASSUME NEW base, NEW route \in Seq(Nat), NEW p \in Nat
  PROVE  ArrivalFrom(base, Append(route, p)) = Hop(ArrivalFrom(base, route), p, route = <<>>)
<1> DEFINE q == Append(route, p)
           n == Len(route)
<1>1. q \in Seq(Nat) /\ Len(q) = n + 1 /\ n \in Nat /\ q[n + 1] = p /\ \A i \in 1..n : q[i] = route[i]
  BY AppendProperties, LenProperties
<1>2. PICK f : IsRoute(f, base, route) /\ ArrivalFrom(base, route) = f[n]
  BY ArrivalIs
<1>3. PICK g : IsRoute(g, base, q) /\ ArrivalFrom(base, q) = g[n + 1]
  BY <1>1, ArrivalIs
<1>4. route = <<>> <=> n = 0
  BY EmptySeq
<1> HIDE DEF q, n
<1>5. g[n + 1] = Hop(g[n], p, n = 0)
  <2>1. n + 1 \in 0..Len(q) /\ (n + 1) - 1 = n /\ n + 1 # 0 /\ ((n + 1 = 1) = (n = 0))
    BY <1>1
  <2> QED BY <1>1, <1>3, <2>1 DEF IsRoute
<1>6. f[n] = g[n]
  <2>1. Agree(route, q, n)
    BY <1>1 DEF n, Agree
  <2> QED BY <1>1, <1>2, <1>3, <2>1, RoutesAgree
<1> QED BY <1>2, <1>3, <1>4, <1>5, <1>6 DEF q

LEMMA ArrivalEmpty ==
  ASSUME NEW base
  PROVE  ArrivalFrom(base, <<>>) = base
<1>0. <<>> \in Seq(Nat)
  OBVIOUS
<1>1. PICK f : IsRoute(f, base, <<>>) /\ ArrivalFrom(base, <<>>) = f[Len(<<>>)]
  BY <1>0, ArrivalIs
<1>2. Len(<<>>) = 0 /\ 0 \in 0..0
  OBVIOUS
<1> QED BY <1>1, <1>2 DEF IsRoute

-----------------------------------------------------------------------------
(***************************************************************************)
(* Links.  An SMP that is outstanding runs along a path that leads to what *)
(* it asks about, and NodeInfo over the cable of the port in its callback  *)
(* data (Routed).  At a CA the scan goes on only from the start: that it   *)
(* does not come back to the start, and take an SMP away from it once more,*)
(* rests on the path under which the switch next to it was found.          *)
(***************************************************************************)

\* The scan starts at this very CA, or at one reached by its LID.
StartsAtCa(s) == s.path = <<>> /\ s.base[1] \notin Switches

RemoteCa(s) == s.path # <<>> /\ ArrivalFrom(s.base, s.path)[1] \notin Switches

\* Among the nodes found is the one next to that CA.
Beyond(s, met) == s.base \in DOMAIN Cable /\ Cable[s.base][1] \in met

\* The CA is met at the start only, and the switch next to it is asked about
\* along the path that enters it by the cable from the CA.
Outward(s, smp) ==
  /\ smp.attr = "NodeInfo" /\ ArrivalFrom(s.base, smp.path) = s.base => smp.path = <<>>
  /\ smp.attr # "NodeInfo" /\ smp.port = s.base => smp.path = <<>>
  /\ smp.attr # "NodeInfo" /\ smp.port[1] \in Switches /\ Beyond(s, {smp.port[1]})
       => ArrivalFrom(s.base, smp.path) = Cable[s.base]

\* All that is outstanding until the node next to the CA is found.
AtHome(s, smp) ==
  IF smp.attr = "NodeInfo"
  THEN \/ smp.path = <<>>
       \/ s.base \in DOMAIN Cable /\ ArrivalFrom(s.base, smp.path) = Cable[s.base]
  ELSE smp.path = <<>> /\ smp.port = s.base

Routed(s, beyond) ==
  {smp \in Smps :
     /\ smp.attr # "NodeInfo" => /\ ArrivalFrom(s.base, smp.path) \in Ports
                                 /\ ArrivalFrom(s.base, smp.path)[1] = smp.port[1]
                                 /\ smp.port \in Ports
     /\ smp.attr = "NodeInfo" /\ smp.port = NoPort => smp.path = s.path
     /\ smp.attr = "NodeInfo" /\ smp.port # NoPort =>
          smp.port \in DOMAIN Cable /\ ArrivalFrom(s.base, smp.path) = Cable[smp.port]
     /\ StartsAtCa(s) => Outward(s, smp) /\ (beyond \/ AtHome(s, smp))}

RouteInv ==
  ~RemoteCa(scan) =>
    /\ queue \in Seq(Routed(scan, Beyond(scan, DOMAIN nodes)))
    /\ wire \subseteq Routed(scan, Beyond(scan, DOMAIN nodes))
    /\ todo \in Seq(Routed(scan, Beyond(scan, DOMAIN nodes)))
    /\ from \in {NoPort, ArrivalFrom(scan.base, scan.path)}
    /\ LinksAreCables

LEMMA CableEnds ==
  ASSUME NEW e \in DOMAIN Cable
  PROVE  /\ Cable[e] \in DOMAIN Cable /\ Cable[Cable[e]] = e /\ Cable[e] # e
         /\ e[1] \in Nodes
BY FabricAssumption

LEMMA HopOver ==
  ASSUME NEW at \in Ports, NEW p \in Nat, NEW first \in BOOLEAN,
         first \/ at[1] \in Switches, <<at[1], p>> \in DOMAIN Cable
  PROVE  Hop(at, p, first) = Cable[<<at[1], p>>]
<1>1. at # NoPort
  BY PortParts, FabricAssumption DEF NoPort
<1> QED BY <1>1 DEF Hop

LEMMA RoutedGrows ==
  ASSUME NEW s, NEW a \in BOOLEAN, NEW b \in BOOLEAN, a => b
  PROVE  Routed(s, a) \subseteq Routed(s, b) /\ Seq(Routed(s, a)) \subseteq Seq(Routed(s, b))
<1>1. Routed(s, a) \subseteq Routed(s, b)
  BY DEF Routed
<1> QED BY <1>1, SeqMonotonic

\* A CA sends the scan on only if it started there, and never back.
LEMMA LeavesCa ==
  ASSUME ~RemoteCa(scan), from \in {NoPort, ArrivalFrom(scan.base, scan.path)},
         NEW b, NEW smp \in Routed(scan, b), smp.attr # "NodeInfo",
         NEW ingress, LeadsOn(smp.port[1], smp.port[2], ingress)
  PROVE  /\ smp.port[1] \notin Switches =>
              /\ StartsAtCa(scan) /\ smp.port = scan.base /\ smp.path = <<>>
              /\ ArrivalFrom(scan.base, smp.path) = scan.base
         /\ ~Retracts(smp.port[1], smp.path)
<1> DEFINE n == smp.port[1]
           p == smp.port[2]
           route == smp.path
           base == scan.base
<1>1. /\ smp.port \in Ports
      /\ StartsAtCa(scan) => Outward(scan, smp)
  BY DEF Routed
<1>2. smp.port = <<n, p>>
  BY <1>1, PortParts
<1>3. p # 0 /\ (n \in Switches \/ <<n, p>> = from)
  BY DEF LeadsOn
<1>4. ASSUME n \notin Switches
      PROVE  StartsAtCa(scan) /\ smp.port = base /\ route = <<>> /\ ArrivalFrom(base, route) = base
  <2>1. <<n, p>> = from /\ from # NoPort
    BY <1>3, <1>4 DEF NoPort
  <2>2. from = ArrivalFrom(base, scan.path) /\ from[1] = n
    BY <2>1
  <2>3. scan.path = <<>>
    BY <1>4, <2>2 DEF RemoteCa
  <2>4. from = base
    BY <2>2, <2>3, ArrivalEmpty
  <2>5. StartsAtCa(scan) /\ smp.port = base
    BY <1>2, <1>4, <2>1, <2>2, <2>3, <2>4 DEF StartsAtCa
  <2>6. route = <<>>
    BY <1>1, <2>5 DEF Outward
  <2> QED BY <2>5, <2>6, ArrivalEmpty
<1>5. ~Retracts(n, route)
  <2>1. CASE n \in Switches
    BY <2>1 DEF Retracts
  <2>2. CASE n \notin Switches
    BY <1>4, <2>2 DEF Retracts
  <2> QED BY <2>1, <2>2
<1> QED BY <1>4, <1>5

\* Going on sends NodeInfo over the cable of the port asked about.
LEMMA GoOnRouted ==
  ASSUME ~RemoteCa(scan), scan \in Scans, from \in {NoPort, ArrivalFrom(scan.base, scan.path)},
         NEW b \in BOOLEAN, NEW smp \in Routed(scan, b), smp.attr # "NodeInfo"
  PROVE  GoOn(smp.port[1], smp.port[2], smp.path, Arrival(smp.path)[2]).smps
           \in Seq(Routed(scan, b))
<1> DEFINE n == smp.port[1]
           p == smp.port[2]
           route == smp.path
           at == ArrivalFrom(scan.base, route)
           base == scan.base
           S == Routed(scan, b)
           onward == Onward(n, p, Append(route, p))
<1>0. Arrival(route) = at
  BY DEF Arrival
<1>1. /\ smp \in Smps /\ route \in Seq(Nat) /\ smp.port \in Ports
      /\ at \in Ports /\ at[1] = n
      /\ StartsAtCa(scan) => Outward(scan, smp) /\ (b \/ AtHome(scan, smp))
  BY DEF Routed, Smps
<1>2. smp.port = <<n, p>> /\ p \in Nat /\ at = <<at[1], at[2]>>
  BY <1>1, PortParts
<1>3. SUFFICES ASSUME LeadsOn(n, p, at[2]), ~HopsExhausted
               PROVE  GoOn(n, p, route, at[2]).smps \in Seq(S)
  <2>1. <<>> \in Seq(S)
    OBVIOUS
  <2> QED BY <1>0, <1>3, <2>1 DEF GoOn
<1>4. <<n, p>> \in DOMAIN Cable /\ p # 0 /\ ((n \in Switches /\ p # at[2]) \/ <<n, p>> = from)
  BY <1>3 DEF LeadsOn
<1>5. n \notin Switches => StartsAtCa(scan) /\ smp.port = base /\ route = <<>> /\ at = base
  BY <1>3, LeavesCa
<1>6. ~Retracts(n, route)
  BY <1>3, LeavesCa
<1>7. GoOn(n, p, route, at[2]).smps \in {<<>>, <<onward>>}
  BY <1>3, <1>6 DEF GoOn
<1>8. ArrivalFrom(base, Append(route, p)) = Cable[<<n, p>>]
  <2>1. ArrivalFrom(base, Append(route, p)) = Hop(at, p, route = <<>>)
    BY <1>1, <1>2, ArrivalAppend
  <2> QED BY <1>1, <1>2, <1>4, <1>5, <2>1, HopOver
<1>9. onward \in S
  <2>1. /\ onward.attr = "NodeInfo" /\ onward.port = <<n, p>> /\ onward.path = Append(route, p)
        /\ onward \in Smps
    BY <1>1, <1>2, AppendProperties DEF Onward, NodeInfo, Smp, Smps
  <2>2. <<n, p>> # NoPort
    BY <1>4 DEF NoPort
  <2>3. ASSUME StartsAtCa(scan)
        PROVE  Cable[<<n, p>>] # base /\ (b \/ (base \in DOMAIN Cable /\ <<n, p>> = base))
    <3>1. CASE n \notin Switches
      BY <1>2, <1>4, <1>5, <3>1, CableEnds
    <3>2. CASE n \in Switches
      <4>1. from \in {NoPort, base}
        BY <2>3, ArrivalEmpty DEF StartsAtCa
      <4>2. <<n, p>> # from
        <5>1. base[1] # n
          BY <2>3, <3>2 DEF StartsAtCa
        <5> QED BY <2>2, <4>1, <5>1
      <4>3. p # at[2]
        BY <1>4, <4>2
      <4>4. ASSUME Cable[<<n, p>>] = base PROVE FALSE
        <5>1. base \in DOMAIN Cable /\ Cable[base] = <<n, p>>
          BY <1>4, <4>4, CableEnds
        <5>2. Beyond(scan, {smp.port[1]})
          BY <5>1 DEF Beyond
        <5>3. at = Cable[base]
          BY <1>1, <2>3, <3>2, <5>2 DEF Outward
        <5> QED BY <4>3, <5>1, <5>3
      <4>5. b
        <5>1. smp.port # base
          BY <2>3, <3>2 DEF StartsAtCa
        <5> QED BY <1>1, <2>3, <5>1 DEF AtHome
      <4> QED BY <4>4, <4>5
    <3> QED BY <3>1, <3>2
  <2> HIDE DEF onward, n, p, route
  <2>4. StartsAtCa(scan) => Outward(scan, onward)
    BY <1>8, <2>1, <2>3 DEF Outward
  <2>5. StartsAtCa(scan) => b \/ AtHome(scan, onward)
    BY <1>8, <2>1, <2>3 DEF AtHome
  <2> QED BY <1>4, <1>8, <2>1, <2>2, <2>4, <2>5 DEF Routed
<1>10. <<onward>> \in Seq(S) /\ <<>> \in Seq(S)
  BY <1>9
<1> QED BY <1>7, <1>10

\* What recv_node_info asks for runs along the path of its answer.
LEMMA NodeQueriesRouted ==
  ASSUME NEW s, NEW met, NEW smp \in Routed(s, Beyond(s, met)), smp.attr = "NodeInfo",
         NEW at \in Ports, at = ArrivalFrom(s.base, smp.path)
  PROVE  NodeQueries(smp.path, at, at[1] \notin met)
           \in Seq(Routed(s, Beyond(s, met \cup {at[1]})))
<1> DEFINE route == smp.path
           new == at[1] \notin met
           S == Routed(s, Beyond(s, met \cup {at[1]}))
<1>1. /\ route \in Seq(Nat)
      /\ StartsAtCa(s) => Outward(s, smp) /\ (Beyond(s, met) \/ AtHome(s, smp))
  BY DEF Routed, Smps
<1>2. at = <<at[1], at[2]>> /\ at[1] \in Nodes
  BY PortParts
<1>3. ASSUME NEW attr \in {"NodeDesc", "SwitchInfo", "PortInfo"}, NEW port \in Ports,
             port[1] = at[1], port = at \/ at[1] \in Switches, new \/ at[1] \notin Switches
      PROVE  Smp(attr, route, port) \in S
  <2> DEFINE q == Smp(attr, route, port)
  <2>1. q \in Smps /\ q.attr # "NodeInfo" /\ q.path = route /\ q.port = port
    BY <1>1, <1>3 DEF Smp, Smps
  <2>2. ASSUME StartsAtCa(s)
        PROVE  Outward(s, q) /\ (Beyond(s, met \cup {at[1]}) \/ AtHome(s, q))
    <3>1. s.base[1] \notin Switches
      BY <2>2 DEF StartsAtCa
    <3>2. port = s.base => at = s.base /\ route = <<>>
      BY <1>1, <1>3, <2>2, <3>1 DEF Outward
    <3>3. ASSUME route = <<>> PROVE at = s.base
      BY <3>3, ArrivalEmpty
    <3>4. ASSUME ~Beyond(s, met)
          PROVE  at = s.base \/ (s.base \in DOMAIN Cable /\ at = Cable[s.base])
      BY <1>1, <2>2, <3>3, <3>4 DEF AtHome
    <3>5. ASSUME port[1] \in Switches, Beyond(s, {port[1]})
          PROVE  at = Cable[s.base]
      <4>1. ~Beyond(s, met)
        BY <1>3, <3>5 DEF Beyond
      <4> QED BY <1>3, <3>1, <3>4, <3>5, <4>1
    <3> HIDE DEF q
    <3>6. Outward(s, q)
      BY <2>1, <3>2, <3>5 DEF Outward
    <3>7. ASSUME ~Beyond(s, met \cup {at[1]}) PROVE AtHome(s, q)
      <4>1. ~Beyond(s, met)
        BY <3>7 DEF Beyond
      <4>2. at = s.base
        BY <3>4, <3>7, <4>1 DEF Beyond
      <4>3. route = <<>>
        BY <1>1, <2>2, <4>2 DEF Outward
      <4>4. port = s.base
        BY <1>3, <3>1, <4>2
      <4> QED BY <2>1, <4>3, <4>4 DEF AtHome
    <3> QED BY <3>6, <3>7
  <2>3. ArrivalFrom(s.base, q.path) = at
    BY <2>1
  <2> HIDE DEF q
  <2>4. q \in Routed(s, Beyond(s, met \cup {at[1]}))
    BY <1>3, <2>1, <2>2, <2>3 DEF Routed
  <2> QED BY <2>4 DEF q
<1>4. at[1] \in Switches => <<at[1], 0>> \in Ports
  <2>1. NumPorts[at[1]] \in Nat
    BY PortParts
  <2> QED BY <2>1, SwitchPorts
<1> DEFINE d == IF new THEN <<Smp("NodeDesc", route, at)>> ELSE <<>>
           w == IF new /\ at[1] \in Switches
                THEN <<Smp("SwitchInfo", route, at), PortInfo(route, <<at[1], 0>>)>>
                ELSE <<>>
           c == IF at[1] \notin Switches THEN <<PortInfo(route, at)>> ELSE <<>>
<1> HIDE DEF S
<1>5. d \in Seq(S)
  <2>1. new => Smp("NodeDesc", route, at) \in S
    BY <1>3
  <2> QED BY <2>1
<1>6. w \in Seq(S)
  <2> SUFFICES ASSUME new, at[1] \in Switches PROVE w \in Seq(S)
    OBVIOUS
  <2>1. Smp("SwitchInfo", route, at) \in S
    BY <1>3
  <2>2. <<at[1], 0>>[1] = at[1]
    OBVIOUS
  <2>3. Smp("PortInfo", route, <<at[1], 0>>) \in S
    BY <1>3, <1>4, <2>2
  <2> QED BY <2>1, <2>3 DEF PortInfo
<1>7. c \in Seq(S)
  <2>1. at[1] \notin Switches => Smp("PortInfo", route, at) \in S
    BY <1>3
  <2> QED BY <2>1 DEF PortInfo
<1>8. NodeQueries(route, at, new) = (d \o w) \o c
  BY DEF NodeQueries
<1> HIDE DEF d, w, c
<1>9. d \o w \in Seq(S)
  BY <1>5, <1>6, ConcatProperties
<1> QED BY <1>7, <1>8, <1>9, ConcatProperties DEF S

\* Another question about a node along the same path.
LEMMA SameRoute ==
  ASSUME NEW s, NEW b, NEW smp \in Routed(s, b), smp.attr # "NodeInfo",
         NEW attr \in {"PortInfo", "ExtPortInfo"}, NEW port \in Ports,
         port = smp.port \/ (port[1] = smp.port[1] /\ port[1] \in Switches)
  PROVE  Smp(attr, smp.path, port) \in Routed(s, b)
<1> DEFINE q == Smp(attr, smp.path, port)
<1>1. q \in Smps /\ q.attr # "NodeInfo" /\ q.path = smp.path /\ q.port = port
  BY DEF Routed, Smp, Smps
<1> HIDE DEF q
<1>2. ASSUME StartsAtCa(s)
      PROVE  Outward(s, q) /\ (b \/ AtHome(s, q))
  <2>1. Outward(s, smp) /\ (b \/ AtHome(s, smp)) /\ s.base[1] \notin Switches
    BY <1>2 DEF Routed, StartsAtCa
  <2>2. Outward(s, q)
    BY <1>1, <2>1 DEF Outward
  <2>3. AtHome(s, smp) => AtHome(s, q)
    BY <1>1, <2>1 DEF AtHome
  <2> QED BY <2>1, <2>2, <2>3
<1>3. q \in Routed(s, b)
  BY <1>1, <1>2 DEF Routed
<1> QED BY <1>3 DEF q

LEMMA PortQueriesRouted ==
  ASSUME NEW s, NEW b, NEW smp \in Routed(s, b), smp.attr # "NodeInfo", smp.port[1] \in Switches
  PROVE  PortQueries(smp.path, smp.port[1]) \in Seq(Routed(s, b))
<1> DEFINE n == smp.port[1]
<1>1. NumPorts[n] \in Nat
  BY FabricAssumption
<1>2. ASSUME NEW p \in 1..NumPorts[n]
      PROVE  PortInfo(smp.path, <<n, p>>) \in Routed(s, b)
  <2>1. <<n, p>> \in Ports /\ <<n, p>>[1] = n
    BY <1>1, SwitchPorts
  <2> QED BY <2>1, SameRoute DEF PortInfo
<1> HIDE DEF n
<1>3. PortQueries(smp.path, n) \in [1..NumPorts[n] -> Routed(s, b)]
  BY <1>2 DEF PortQueries
<1> QED BY <1>1, <1>3, SeqDef DEF n

\* link_ports links the two ends of a cable.
LEMMA LinkPortsCables ==
  ASSUME NEW r \in [Ports -> Ports \cup {NoPort}], NEW b \in DOMAIN Cable,
         \A e \in Ports : r[e] # NoPort => e \in DOMAIN Cable /\ Cable[e] = r[e]
  PROVE  \A e \in Ports : LinkPorts(r, Cable[b], b)[e] # NoPort
           => e \in DOMAIN Cable /\ Cable[e] = LinkPorts(r, Cable[b], b)[e]
<1>1. Cable[b] \in DOMAIN Cable /\ Cable[Cable[b]] = b
  BY CableEnds
<1> QED BY <1>1 DEF LinkPorts

\* What an answered SMP and the SMPs still waiting are when one arrives.
LEMMA ReceivesRouted ==
  ASSUME NEW S, queue \in Seq(S), wire \subseteq S, IsFiniteSet(wire),
         NEW smp \in wire, Receives(smp)
  PROVE  smp \in S /\ queue' \in Seq(S) /\ wire' \subseteq S
<1>1. IsFiniteSet(wire \ {smp}) /\ wire \ {smp} \in SUBSET S
  BY FS_RemoveElement
<1> QED BY <1>1, RefillKeeps DEF Receives

\* Steps that only move SMPs, or ask more, all of it along good paths.
LEMMA OnlyRoutedMove ==
  ASSUME RouteInv, UNCHANGED <<scan, nodes, remote, from>>,
         ~RemoteCa(scan) =>
           /\ queue' \in Seq(Routed(scan, Beyond(scan, DOMAIN nodes)))
           /\ wire' \subseteq Routed(scan, Beyond(scan, DOMAIN nodes))
           /\ todo' \in Seq(Routed(scan, Beyond(scan, DOMAIN nodes)))
  PROVE  RouteInv'
BY DEF RouteInv, LinksAreCables

LEMMA InitRouted == Init => RouteInv
<1> SUFFICES ASSUME Init, ~RemoteCa(scan) PROVE RouteInv
  BY DEF RouteInv
<1>1. LinksAreCables
  BY DEF Init, LinksAreCables
<1> QED BY <1>1 DEF Init, RouteInv

LEMMA NodeInfoRouted ==
  ASSUME IInv, RouteInv, NEW smp \in wire, RecvNodeInfo(smp), ~RemoteCa(scan)
  PROVE  RouteInv'
<1> DEFINE at == ArrivalFrom(scan.base, smp.path)
           met == DOMAIN nodes
           S == Routed(scan, Beyond(scan, met))
           T == Routed(scan, Beyond(scan, met \cup {at[1]}))
<1>1. /\ Typing /\ scan' = scan /\ Receives(smp) /\ smp.attr = "NodeInfo" /\ at \in Ports
      /\ queue \in Seq(S) /\ wire \subseteq S /\ IsFiniteSet(wire)
      /\ from \in {NoPort, ArrivalFrom(scan.base, scan.path)} /\ LinksAreCables
  BY DEF IInv, Typing, RouteInv, RecvNodeInfo, Answered, Arrival
<1>2. smp \in S /\ queue' \in Seq(S) /\ wire' \subseteq S
  <2> HIDE DEF S
  <2> QED BY <1>1, ReceivesRouted
<1>3. DOMAIN nodes' = met \cup {at[1]}
  BY DEF RecvNodeInfo, Arrival
<1>4. S \subseteq T /\ Seq(S) \subseteq Seq(T)
  <2>1. Beyond(scan, met) => Beyond(scan, met \cup {at[1]})
    BY DEF Beyond
  <2>2. Beyond(scan, met) \in BOOLEAN /\ Beyond(scan, met \cup {at[1]}) \in BOOLEAN
    BY DEF Beyond
  <2> QED BY <2>1, <2>2, RoutedGrows
<1>5. todo' = NodeQueries(smp.path, at, at[1] \notin met)
  BY DEF RecvNodeInfo, Arrival
<1>6. todo' \in Seq(T)
  BY <1>1, <1>2, <1>5, NodeQueriesRouted
<1>7. /\ smp.port = NoPort => smp.path = scan.path
      /\ smp.port # NoPort => smp.port \in DOMAIN Cable /\ at = Cable[smp.port]
  BY <1>1, <1>2 DEF Routed
<1>8. from' \in {NoPort, ArrivalFrom(scan.base, scan.path)} /\ LinksAreCables'
  <2>1. CASE smp.port = NoPort
    <3>1. from' = at /\ remote' = remote
      BY <2>1 DEF RecvNodeInfo, Arrival
    <3> QED BY <1>1, <1>7, <2>1, <3>1 DEF LinksAreCables
  <2>2. CASE smp.port # NoPort
    <3>1. from' = from /\ remote' = LinkPorts(remote, at, smp.port)
      BY <2>2 DEF RecvNodeInfo, Arrival
    <3>2. remote \in [Ports -> Ports \cup {NoPort}]
      BY <1>1 DEF Typing
    <3> HIDE DEF at
    <3> QED BY <1>1, <1>7, <2>2, <3>1, <3>2, LinkPortsCables DEF LinksAreCables
  <2> QED BY <2>1, <2>2
<1> HIDE DEF at, S, T
<1>9. /\ queue' \in Seq(T) /\ wire' \subseteq T
  BY <1>2, <1>4
<1> QED BY <1>1, <1>3, <1>6, <1>8, <1>9 DEF RouteInv, T, met

LEMMA PortInfoRouted ==
  ASSUME IInv, RouteInv, NEW smp \in wire, RecvPortInfo(smp) \/ ExtPortInfoDone(smp)
  PROVE  RouteInv'
<1> DEFINE b == Beyond(scan, DOMAIN nodes)
           S == Routed(scan, b)
           port == smp.port
           on == IF port \in EpiPorts /\ smp.attr = "PortInfo"
                 THEN <<ExtPortInfo(smp.path, port)>>
                 ELSE GoOn(port[1], port[2], smp.path, Arrival(smp.path)[2]).smps
           more == IF port[2] = 0 /\ smp.attr = "PortInfo"
                   THEN PortQueries(smp.path, port[1]) ELSE <<>>
<1>1. /\ Receives(smp) /\ UNCHANGED <<scan, nodes, remote, from>>
      /\ smp.attr = "PortInfo" \/ smp.attr = "ExtPortInfo"
  BY DEF RecvPortInfo, ExtPortInfoDone, Answered
<1>2. todo' = on \o more \/ (todo' = on /\ more = <<>>)
  <2>1. CASE RecvPortInfo(smp)
    BY <2>1 DEF RecvPortInfo, Answered
  <2>2. CASE ExtPortInfoDone(smp)
    BY <2>2 DEF ExtPortInfoDone
  <2> QED BY <2>1, <2>2
<1> SUFFICES ASSUME ~RemoteCa(scan)
             PROVE  /\ queue' \in Seq(S) /\ wire' \subseteq S
                    /\ todo' \in Seq(S)
  <2> HIDE DEF on, more
  <2> QED BY <1>1, OnlyRoutedMove
<1>3. /\ scan \in Scans /\ IsFiniteSet(wire) /\ queue \in Seq(S) /\ wire \subseteq S
      /\ from \in {NoPort, ArrivalFrom(scan.base, scan.path)} /\ b \in BOOLEAN
  BY DEF IInv, Typing, RouteInv, Beyond
<1>4. smp \in S /\ queue' \in Seq(S) /\ wire' \subseteq S
  <2> HIDE DEF S, on, more
  <2> QED BY <1>1, <1>3, ReceivesRouted
<1>5. port \in Ports
  BY <1>1, <1>4 DEF Routed
<1>6. on \in Seq(S)
  <2>1. CASE port \in EpiPorts /\ smp.attr = "PortInfo"
    <3>1. ExtPortInfo(smp.path, port) \in S
      BY <1>4, <1>5, <2>1, SameRoute DEF ExtPortInfo
    <3> QED BY <2>1, <3>1
  <2>2. CASE ~(port \in EpiPorts /\ smp.attr = "PortInfo")
    <3> HIDE DEF b
    <3>1. GoOn(port[1], port[2], smp.path, Arrival(smp.path)[2]).smps \in Seq(S)
      BY <1>1, <1>3, <1>4, GoOnRouted
    <3> QED BY <2>2, <3>1
  <2> QED BY <2>1, <2>2
<1>7. more \in Seq(S)
  <2>1. CASE port[2] = 0 /\ smp.attr = "PortInfo"
    <3>1. port[1] \in Switches
      <4>1. PICK n \in Nodes :
              port \in {<<n, p>> : p \in (IF n \in Switches THEN 0 ELSE 1)..NumPorts[n]}
        BY <1>5 DEF Ports
      <4> QED BY <2>1, <4>1
    <3>2. PortQueries(smp.path, port[1]) \in Seq(S)
      BY <1>1, <1>4, <3>1, PortQueriesRouted
    <3> QED BY <2>1, <3>2
  <2>2. CASE ~(port[2] = 0 /\ smp.attr = "PortInfo")
    <3>1. <<>> \in Seq(S)
      OBVIOUS
    <3>2. more = <<>>
      BY <2>2
    <3> QED BY <3>1, <3>2
  <2> QED BY <2>1, <2>2
<1> HIDE DEF on, more, S
<1>8. todo' \in Seq(S)
  BY <1>2, <1>6, <1>7, ConcatProperties
<1> QED BY <1>4, <1>8

LEMMA NextRouted == IInv /\ RouteInv /\ [Next]_vars => RouteInv'
<1> SUFFICES ASSUME IInv, RouteInv, [Next]_vars PROVE RouteInv'
  OBVIOUS
<1> DEFINE S == Routed(scan, Beyond(scan, DOMAIN nodes))
<1>0. /\ scan \in Scans /\ IsFiniteSet(wire)
      /\ ~RemoteCa(scan) =>
           queue \in Seq(S) /\ wire \subseteq S /\ wire \in SUBSET S /\ todo \in Seq(S)
  BY DEF IInv, Typing, RouteInv
<1>1. <<NodeInfo(scan.path, NoPort)>> \in Seq(S)
  <2> DEFINE q == NodeInfo(scan.path, NoPort)
  <2>1. scan.path \in Seq(Nat)
    BY <1>0, DiscoveryAssumption
  <2>2. q \in Smps /\ q.attr = "NodeInfo" /\ q.port = NoPort /\ q.path = scan.path
    BY <2>1 DEF NodeInfo, Smp, Smps
  <2> HIDE DEF q
  <2>3. StartsAtCa(scan) => Outward(scan, q) /\ AtHome(scan, q)
    BY <2>2 DEF StartsAtCa, Outward, AtHome
  <2>4. q \in S
    BY <2>2, <2>3 DEF Routed
  <2> QED BY <2>4 DEF q
<1> HIDE DEF S
<1>2. ASSUME todo # <<>>, ~RemoteCa(scan)
      PROVE  Enqueue(queue, Head(todo)) \in Seq(S) /\ Tail(todo) \in Seq(S)
  <2>1. Head(todo) \in S /\ Tail(todo) \in Seq(S)
    BY <1>0, <1>2, HeadTailProperties
  <2> QED BY <1>0, <1>2, <2>1, AppendProperties DEF Enqueue
<1>3. ASSUME UNCHANGED <<scan, nodes, remote, from>>,
             ~RemoteCa(scan) =>
               queue' \in Seq(S) /\ wire' \subseteq S /\ todo' \in Seq(S)
      PROVE  RouteInv'
  BY <1>3, OnlyRoutedMove DEF S
<1>4. CASE Start
  <2>1. ~RemoteCa(scan) => queue' \in Seq(S) /\ wire' \subseteq S
    BY <1>0, <1>1, <1>4, RefillKeeps DEF Start
  <2> QED BY <1>0, <1>3, <1>4, <2>1 DEF Start, learnt
<1>5. CASE StartFails
  <2>1. queue' = SubSeq(<<NodeInfo(scan.path, NoPort)>>, 2, 1) /\ wire' = wire
    BY <1>5 DEF StartFails, SendFails
  <2>2. queue' = <<>>
    BY <2>1, SubSeqEmpty
  <2> QED BY <1>0, <1>3, <1>5, <2>1, <2>2 DEF StartFails
<1>6. CASE IssueNext
  <2>1. ~RemoteCa(scan) => queue' \in Seq(S) /\ wire' \subseteq S
    BY <1>0, <1>2, <1>6, RefillKeeps DEF IssueNext
  <2> QED BY <1>2, <1>3, <1>6, <2>1 DEF IssueNext, learnt
<1>7. CASE IssueNextFails
  <2>1. ~RemoteCa(scan) => queue' \in Seq(S) /\ wire' \subseteq S
    BY <1>0, <1>2, <1>7, RefillKeeps DEF IssueNextFails
  <2> QED BY <1>2, <1>3, <1>7, <2>1 DEF IssueNextFails, learnt
<1>8. ASSUME NEW smp \in wire, Receives(smp), UNCHANGED <<todo, scan, nodes, remote, from>>
      PROVE  RouteInv'
  <2>1. ~RemoteCa(scan) => queue' \in Seq(S) /\ wire' \subseteq S
    BY <1>0, <1>8, ReceivesRouted
  <2> QED BY <1>0, <1>3, <1>8, <2>1
<1>9. ASSUME NEW smp \in wire, Recv(smp) PROVE RouteInv'
  <2>1. CASE RecvNodeInfo(smp)
    <3>1. CASE ~RemoteCa(scan)
      BY <2>1, <3>1, NodeInfoRouted
    <3>2. CASE RemoteCa(scan)
      BY <2>1, <3>2 DEF RouteInv, RecvNodeInfo
    <3> QED BY <3>1, <3>2
  <2>2. CASE RecvDescription(smp)
    BY <1>8, <2>2 DEF RecvDescription, Answered, learnt
  <2>3. CASE RecvPortInfo(smp)
    BY <2>3, PortInfoRouted
  <2>4. CASE RecvExtPortInfo(smp)
    BY <2>4, PortInfoRouted DEF RecvExtPortInfo
  <2>5. CASE RecvBadStatus(smp)
    <3>1. CASE ExtPortInfoDone(smp)
      BY <3>1, PortInfoRouted
    <3>2. CASE Receives(smp) /\ UNCHANGED <<todo, learnt, result>>
      BY <1>8, <3>2 DEF learnt
    <3> QED BY <2>5, <3>1, <3>2 DEF RecvBadStatus
  <2>6. CASE RefillFails(smp)
    <3>1. IsFiniteSet(wire \ {smp}) /\ (~RemoteCa(scan) => wire \ {smp} \in SUBSET S)
      BY <1>0, FS_RemoveElement
    <3>2. ~RemoteCa(scan) => queue' \in Seq(S) /\ wire' \subseteq S
      BY <1>0, <2>6, <3>1, RefillKeeps DEF RefillFails
    <3> QED BY <1>0, <1>3, <2>6, <3>2 DEF RefillFails, learnt
  <2> QED BY <1>9, <2>1, <2>2, <2>3, <2>4, <2>5, <2>6 DEF Recv
<1>10. CASE RecvFails
  BY <1>0, <1>3, <1>10 DEF RecvFails, learnt
<1>11. CASE Finish
  BY <1>0, <1>3, <1>11 DEF Finish
<1>12. CASE UNCHANGED vars
  BY <1>0, <1>3, <1>12 DEF vars
<1> QED
  BY <1>4, <1>5, <1>6, <1>7, <1>9, <1>10, <1>11, <1>12 DEF Next

\* Unless the scan starts at a CA reached by a path, every link of the fabric object is
\* a cable, whatever the fabric, its loops and parallel cables, the order of the
\* answers and the failures: recv_node_info links the port that NodeInfo was sent
\* through with the one it arrived at (ibnetdisc.c, recv_port_info, query_node_info
\* and link_ports).
THEOREM LinksAreRight == Spec => []RightLinks
<1>1. RouteInv => RightLinks
  BY DEF RouteInv, RightLinks, StartsAtRemoteCa, RemoteCa, Arrival
<1>2. Spec => []RouteInv
  BY InitRouted, NextRouted, Invariant, PTL DEF Spec
<1> QED BY <1>1, <1>2, PTL

-----------------------------------------------------------------------------
(***************************************************************************)
(* What can be reached.  Reachable is a recursive function of the number   *)
(* of cables; it is the smallest set of nodes that holds the start and     *)
(* that no cable a scan follows leads out of.                              *)
(***************************************************************************)
StartOf(s) == ArrivalFrom(s.base, s.path)

\* The nodes one cable further on.
Further(s, ns) ==
  ns \cup {Cable[e][1] : e \in {x \in DOMAIN Cable :
                                  x[1] \in ns /\ (x[1] \in Switches \/ x = StartOf(s))}}

\* No cable that a scan follows leads out of X.
Closed(s, X) ==
  \A e \in DOMAIN Cable :
    e[1] \in X /\ (e[1] \in Switches \/ e = StartOf(s)) => Cable[e][1] \in X

IsRings(f, s, k) ==
  f = [i \in 0..k |-> IF i = 0 THEN {StartOf(s)[1]} ELSE Further(s, f[i - 1])]

LEMMA RingsExist ==
  ASSUME NEW s, NEW k \in Nat
  PROVE  \E f : IsRings(f, s, k)
<1> DEFINE T == {j \in Nat : ~\E f : IsRings(f, s, j)}
<1>1. CASE T = {}
  BY <1>1
<1>2. CASE T # {}
  <2>1. PICK j \in T : \A n \in T : j <= n
    <3>1. T \subseteq Nat
      OBVIOUS
    <3> HIDE DEF T
    <3> QED BY <1>2, <3>1, LeastNat
  <2>2. j \in Nat /\ ~\E f : IsRings(f, s, j)
    BY <2>1
  <2>3. j # 0
    <3>1. 0..0 = {0}
      OBVIOUS
    <3>2. IsRings([i \in {0} |-> {StartOf(s)[1]}], s, 0)
      BY <3>1 DEF IsRings
    <3> QED BY <2>2, <3>2
  <2>4. j - 1 \in Nat /\ j - 1 \notin T
    <3>1. j - 1 \in Nat /\ ~(j <= j - 1)
      BY <2>2, <2>3
    <3> HIDE DEF T
    <3> QED BY <2>1, <3>1
  <2>5. PICK f : IsRings(f, s, j - 1)
    BY <2>4
  <2> DEFINE g == [i \in 0..j |-> IF i = j THEN Further(s, f[j - 1]) ELSE f[i]]
  <2>6. IsRings(g, s, j)
    <3> SUFFICES ASSUME NEW i \in 0..j
                 PROVE  g[i] = IF i = 0 THEN {StartOf(s)[1]} ELSE Further(s, g[i - 1])
      BY DEF IsRings
    <3>1. i \in Nat /\ (i # 0 => i - 1 \in 0..j /\ i - 1 # j)
      BY <2>2
    <3>2. CASE i = j
      <4>1. g[i] = Further(s, f[i - 1])
        BY <3>2
      <4>2. g[i - 1] = f[i - 1]
        BY <2>3, <3>1, <3>2
      <4> QED BY <2>3, <3>2, <4>1, <4>2
    <3>3. CASE i # j
      <4>1. i \in 0..(j - 1) /\ g[i] = f[i]
        BY <2>2, <3>1, <3>3
      <4>2. f[i] = IF i = 0 THEN {StartOf(s)[1]} ELSE Further(s, f[i - 1])
        BY <2>5, <4>1 DEF IsRings
      <4>3. i # 0 => g[i - 1] = f[i - 1]
        BY <3>1
      <4> QED BY <4>1, <4>2, <4>3
    <3> QED BY <3>2, <3>3
  <2> QED BY <2>2, <2>6
<1> QED BY <1>1, <1>2

LEMMA RingOf ==
  ASSUME NEW k \in Nat
  PROVE  \E f : IsRings(f, scan, k) /\ Within(k) = f[k]
<1> DEFINE F == CHOOSE f : IsRings(f, scan, k)
<1>1. IsRings(F, scan, k)
  BY RingsExist
<1>2. Within(k) = F[k]
  BY DEF Within, IsRings, Further, StartOf, Arrival
<1> QED BY <1>1, <1>2

\* A node of a closed set that holds the start leads nowhere else.
LEMMA RingsStayIn ==
  ASSUME NEW s, NEW k \in Nat, NEW f, IsRings(f, s, k), NEW X, StartOf(s)[1] \in X, Closed(s, X)
  PROVE  f[k] \subseteq X
<1> DEFINE T == {i \in 0..k : ~(f[i] \subseteq X)}
<1>1. CASE T = {}
  <2>1. k \in 0..k
    OBVIOUS
  <2> QED BY <1>1, <2>1
<1>2. CASE T # {}
  <2>1. PICK i \in T : \A n \in T : i <= n
    <3>1. T \subseteq Nat
      OBVIOUS
    <3> HIDE DEF T
    <3> QED BY <1>2, <3>1, LeastNat
  <2>2. i \in 0..k /\ ~(f[i] \subseteq X)
    BY <2>1
  <2>3. f[i] = IF i = 0 THEN {StartOf(s)[1]} ELSE Further(s, f[i - 1])
    BY <2>2 DEF IsRings
  <2>4. i # 0 /\ f[i] = Further(s, f[i - 1])
    BY <2>2, <2>3
  <2>5. i - 1 \in 0..k /\ ~(i <= i - 1)
    BY <2>2, <2>4
  <2>6. i - 1 \notin T
    <3> HIDE DEF T
    <3> QED BY <2>1, <2>5
  <2>7. f[i - 1] \subseteq X
    BY <2>5, <2>6
  <2>8. Further(s, f[i - 1]) \subseteq X
    BY <2>7 DEF Further, Closed
  <2> QED BY <2>2, <2>4, <2>8
<1> QED BY <1>1, <1>2

LEMMA RingsAreNodes ==
  ASSUME NEW s, StartOf(s) \in Ports, NEW k \in Nat, NEW f, IsRings(f, s, k), NEW i \in 0..k
  PROVE  f[i] \subseteq Nodes
<1>1. StartOf(s)[1] \in Nodes
  BY PortParts
<1>2. Closed(s, Nodes)
  BY CableEnds DEF Closed
<1>3. IsRings([j \in 0..i |-> f[j]], s, i)
  <2>1. \A j \in 0..i : j \in 0..k /\ (j # 0 => j - 1 \in 0..i)
    OBVIOUS
  <2> QED BY <2>1 DEF IsRings
<1> DEFINE g == [j \in 0..i |-> f[j]]
<1>4. i \in Nat /\ g[i] = f[i]
  OBVIOUS
<1> HIDE DEF g
<1>5. g[i] \subseteq Nodes
  BY <1>1, <1>2, <1>3, <1>4, RingsStayIn DEF g
<1> QED BY <1>4, <1>5

\* Rings that stop growing are closed, and they stop before there are more of them
\* than nodes.
LEMMA LastRingIsClosed ==
  ASSUME NEW s, StartOf(s) \in Ports, IsFiniteSet(Nodes), NEW f,
         IsRings(f, s, Cardinality(Nodes))
  PROVE  /\ StartOf(s)[1] \in f[Cardinality(Nodes)]
         /\ Closed(s, f[Cardinality(Nodes)])
<1> DEFINE k == Cardinality(Nodes)
           Still(i) == Further(s, f[i]) = f[i]
<1>1. k \in Nat
  BY FS_CardinalityType
<1> HIDE DEF k
<1>2. IsRings(f, s, k)
  BY DEF k
<1>3. f[0] = {StartOf(s)[1]} /\ \A i \in 0..k : i # k => f[i + 1] = Further(s, f[i])
  <2>1. 0 \in 0..k /\ \A i \in 0..k : i # k => i + 1 \in 0..k /\ i + 1 # 0 /\ (i + 1) - 1 = i
    BY <1>1
  <2> QED BY <1>2, <2>1 DEF IsRings
<1>4. \A i \in 0..k : f[i] \subseteq Nodes
  BY <1>1, <1>2, RingsAreNodes
<1>5. \A i \in 0..k : f[i] \subseteq Further(s, f[i])
  BY DEF Further
<1>6. \A i \in 0..k : StartOf(s)[1] \in f[i]
  <2> DEFINE T == {i \in 0..k : StartOf(s)[1] \notin f[i]}
  <2>1. CASE T # {}
    <3>1. PICK i \in T : \A n \in T : i <= n
      <4>1. T \subseteq Nat
        BY <1>1
      <4> HIDE DEF T
      <4> QED BY <2>1, <4>1, LeastNat
    <3>2. i \in 0..k /\ StartOf(s)[1] \notin f[i] /\ i # 0
      BY <1>3, <3>1
    <3>3. i - 1 \in 0..k /\ ~(i <= i - 1) /\ i - 1 # k /\ (i - 1) + 1 = i
      BY <1>1, <3>2
    <3>4. i - 1 \notin T
      <4> HIDE DEF T
      <4> QED BY <3>1, <3>3
    <3>5. StartOf(s)[1] \in f[i - 1] /\ f[i] = Further(s, f[i - 1])
      BY <1>3, <3>3, <3>4
    <3> QED BY <1>5, <3>2, <3>3, <3>5
  <2> QED BY <2>1
<1>7. Still(k)
  <2> SUFFICES ASSUME ~Still(k) PROVE FALSE
    OBVIOUS
  <2>1. ASSUME NEW i \in 0..k PROVE ~Still(i)
    <3> DEFINE T == {d \in 0..k : Still(k - d)}
    <3> SUFFICES ASSUME Still(i) PROVE FALSE
      OBVIOUS
    <3>1. k - i \in 0..k /\ k - (k - i) = i
      BY <1>1
    <3>2. T # {}
      BY <3>1
    <3>3. PICK d \in T : \A n \in T : d <= n
      <4>1. T \subseteq Nat
        BY <1>1
      <4> HIDE DEF T
      <4> QED BY <3>2, <4>1, LeastNat
    <3>4. d \in 0..k /\ Still(k - d)
      BY <3>3
    <3>5. d # 0
      <4>1. k - 0 = k
        BY <1>1
      <4> QED BY <3>4, <4>1
    <3>6. /\ d - 1 \in 0..k /\ ~(d <= d - 1)
          /\ k - d \in 0..k /\ k - d # k /\ (k - d) + 1 = k - (d - 1)
      BY <1>1, <3>4, <3>5
    <3>7. d - 1 \notin T
      <4> HIDE DEF T
      <4> QED BY <3>3, <3>6
    <3>8. f[k - (d - 1)] = f[k - d]
      BY <1>3, <3>4, <3>6
    <3>9. Still(k - (d - 1))
      BY <3>4, <3>8
    <3> QED BY <3>6, <3>7, <3>9
  <2>2. \A i \in 0..k : IsFiniteSet(f[i]) /\ Cardinality(f[i]) \in Nat
    BY <1>4, FS_Subset, FS_CardinalityType
  <2>3. ASSUME NEW i \in 0..k, i # k PROVE Cardinality(f[i]) < Cardinality(f[i + 1])
    <3>1. i + 1 \in 0..k
      BY <1>1, <2>3
    <3>2. f[i] \in SUBSET f[i + 1] /\ f[i] # f[i + 1]
      BY <1>3, <1>5, <2>1, <2>3
    <3>3. Cardinality(f[i]) <= Cardinality(f[i + 1]) /\ Cardinality(f[i + 1]) # Cardinality(f[i])
      BY <2>2, <3>1, <3>2, FS_Subset
    <3> QED BY <2>2, <3>1, <3>3
  <2> DEFINE T == {i \in 0..k : ~(Cardinality(f[i]) > i)}
  <2>4. CASE T = {}
    <3>1. k \in 0..k
      BY <1>1
    <3>2. Cardinality(f[k]) > k
      BY <2>4, <3>1
    <3>3. Cardinality(f[k]) <= Cardinality(Nodes)
      BY <1>4, <3>1, FS_Subset
    <3> QED BY <1>1, <2>2, <3>1, <3>2, <3>3 DEF k
  <2>5. CASE T # {}
    <3>1. PICK i \in T : \A n \in T : i <= n
      <4>1. T \subseteq Nat
        BY <1>1
      <4> HIDE DEF T
      <4> QED BY <2>5, <4>1, LeastNat
    <3>2. i \in 0..k /\ ~(Cardinality(f[i]) > i)
      BY <3>1
    <3>3. i # 0
      <4>1. Cardinality(f[0]) = 1
        BY <1>3, FS_Singleton
      <4> QED BY <3>2, <4>1
    <3>4. i - 1 \in 0..k /\ ~(i <= i - 1) /\ i - 1 # k /\ (i - 1) + 1 = i
      BY <1>1, <3>2, <3>3
    <3>5. i - 1 \notin T
      <4> HIDE DEF T
      <4> QED BY <3>1, <3>4
    <3>6. Cardinality(f[i - 1]) > i - 1
      BY <3>4, <3>5
    <3>7. Cardinality(f[i - 1]) < Cardinality(f[i])
      BY <2>3, <3>4
    <3> QED BY <2>2, <3>2, <3>4, <3>6, <3>7
  <2> QED BY <2>4, <2>5
<1>8. k \in 0..k
  BY <1>1
<1>9. Closed(s, f[k])
  <2> SUFFICES ASSUME NEW e \in DOMAIN Cable, e[1] \in f[k], e[1] \in Switches \/ e = StartOf(s)
               PROVE  Cable[e][1] \in f[k]
    BY DEF Closed
  <2>1. Cable[e][1] \in Further(s, f[k])
    BY DEF Further
  <2> QED BY <1>7, <2>1
<1> QED BY <1>6, <1>8, <1>9 DEF k

\* What can be reached is the smallest closed set with the start in it.
LEMMA ReachableIs ==
  ASSUME IsFiniteSet(Nodes), StartOf(scan) \in Ports
  PROVE  /\ StartOf(scan)[1] \in Reachable
         /\ Closed(scan, Reachable)
         /\ \A X : StartOf(scan)[1] \in X /\ Closed(scan, X) => Reachable \subseteq X
<1>1. Cardinality(Nodes) \in Nat
  BY FS_CardinalityType
<1>2. PICK f : IsRings(f, scan, Cardinality(Nodes)) /\ Within(Cardinality(Nodes)) = f[Cardinality(Nodes)]
  BY <1>1, RingOf
<1>3. Reachable = f[Cardinality(Nodes)]
  BY <1>2 DEF Reachable
<1> QED BY <1>1, <1>2, <1>3, LastRingIsClosed, RingsStayIn

-----------------------------------------------------------------------------
(***************************************************************************)
(* Nothing is forgotten.  As long as nothing failed, whatever is not found *)
(* yet will be found from an SMP that is outstanding (Pending): each node  *)
(* that was found is asked about, each port of a switch after its port 0,  *)
(* and each cable of a port that was answered for is linked or NodeInfo is *)
(* on its way over it.  That paths do not grow too long rests on the       *)
(* number of nodes found so far (Known).                                   *)
(***************************************************************************)
\* What is known of an SMP that is outstanding once the nodes of found were found
\* and the links of r made.
Known(s, met, r) ==
  {smp \in Smps :
     /\ smp.port # NoPort => smp.port[1] \in met
     /\ smp.attr = "NodeInfo" /\ smp.port # NoPort
          => smp.port[1] \in Switches \/ smp.port = StartOf(s)
     /\ smp.attr = "NodeInfo" => Len(smp.path) <= Len(s.path) + Cardinality(met)
     /\ smp.attr # "NodeInfo" /\ smp.port[1] \in Switches =>
          /\ Len(smp.path) + 1 <= Len(s.path) + Cardinality(met)
          /\ ArrivalFrom(s.base, smp.path) # StartOf(s) =>
               /\ ArrivalFrom(s.base, smp.path) \in DOMAIN Cable
               /\ r[ArrivalFrom(s.base, smp.path)] = Cable[ArrivalFrom(s.base, smp.path)]}

\* PortInfo of e is outstanding; what sends the scan on from e is.
Asked(sent, e) == \E smp \in sent : smp.attr = "PortInfo" /\ smp.port = e
Followed(sent, e) == \E smp \in sent : smp.attr \in {"ExtPortInfo", "NodeInfo"} /\ smp.port = e

\* Whatever is not found yet will be found from the SMPs of out.
Pending(s, sent, met, seen, r) ==
  /\ StartOf(s)[1] \in met \/ NodeInfo(s.path, NoPort) \in sent
  /\ \A n \in met \cap Switches : <<n, 0>> \in seen \/ Asked(sent, <<n, 0>>)
  /\ \A n \in Switches : \A p \in 1..NumPorts[n] :
       <<n, 0>> \in seen => <<n, p>> \in seen \/ Asked(sent, <<n, p>>)
  /\ StartOf(s)[1] \in met \ Switches => StartOf(s) \in seen \/ Asked(sent, StartOf(s))
  /\ \A e \in seen \cap DOMAIN Cable :
       e[1] \in Switches \/ e = StartOf(s) => r[e] = Cable[e] \/ Followed(sent, e)

Reached ==
  /\ DOMAIN nodes \subseteq Nodes
  /\ DOMAIN nodes # {} => StartOf(scan)[1] \in DOMAIN nodes /\ from = StartOf(scan)
  /\ \A X : StartOf(scan)[1] \in X /\ Closed(scan, X) => DOMAIN nodes \subseteq X
  /\ \A e \in Ports : remote[e] # NoPort => remote[e][1] \in DOMAIN nodes

Idle == queue = <<>> /\ wire = {} /\ todo = <<>>

Flow ==
  /\ queue \in Seq(Known(scan, DOMAIN nodes, remote))
  /\ wire \subseteq Known(scan, DOMAIN nodes, remote)
  /\ todo \in Seq(Known(scan, DOMAIN nodes, remote))
  /\ wire = {} => queue = <<>>
  /\ result = "init" => Idle /\ DOMAIN nodes = {} /\ info = {}
  /\ result = "fabric" => Idle

Going ==
  /\ Reached
  /\ Flow
  /\ result # "init" => Pending(scan, Outstanding, DOMAIN nodes, info, remote)

WholeInv ==
  /\ faults \in Nat
  /\ faults = 0 /\ scan.hops = 0 /\ ~RemoteCa(scan) => Going

-----------------------------------------------------------------------------
Items(q) == {q[i] : i \in 1..Len(q)}

LEMMA RefillAll ==
  ASSUME NEW S, NEW q \in Seq(S), NEW w, IsFiniteSet(w), SendAll(q, w)
  PROVE  /\ Items(q) \cup w \subseteq Queued' \cup wire'
         /\ wire' = {} => queue' = <<>>
<1> DEFINE n == Room(q, w)
<1>1. n \in 0..Len(q) /\ Len(q) \in Nat
  BY RoomBounds, LenProperties
<1>2. wire' = w \cup {q[i] : i \in 1..n} /\ queue' = SubSeq(q, n + 1, Len(q))
  BY DEF SendAll
<1>3. w = {} /\ n = 0 => Len(q) = 0
  <2> SUFFICES ASSUME w = {}, n = 0 PROVE Len(q) = 0
    OBVIOUS
  <2>1. Cardinality(w) = 0
    BY FS_EmptySet
  <2>2. MaxSmps \in Nat /\ MaxSmps > 0
    BY MaxSmpsAssumption
  <2>3. n = IF MaxSmps - Cardinality(w) < 0 THEN 0
            ELSE IF MaxSmps - Cardinality(w) < Len(q) THEN MaxSmps - Cardinality(w) ELSE Len(q)
    BY DEF Room
  <2> HIDE DEF n
  <2> QED BY <1>1, <2>1, <2>2, <2>3
<1> HIDE DEF n
<1>4. /\ Len(queue') = Len(q) - n
      /\ \A i \in 1..Len(queue') : queue'[i] = q[n + i]
  <2>1. n + 1 \in 1..(Len(q) + 1) /\ Len(q) \in n..Len(q)
    BY <1>1
  <2>2. Len(queue') = Len(q) - n
    BY <1>1, <1>2
  <2>3. \A i \in 1..Len(queue') : queue'[i] = q[n + i]
    BY <1>1, <1>2, <2>2
  <2> QED BY <2>2, <2>3
<1>5. ASSUME NEW i \in 1..Len(q) PROVE q[i] \in Queued' \cup wire'
  <2>1. CASE i <= n
    <3>1. i \in 1..n
      BY <1>1, <2>1
    <3> QED BY <1>2, <3>1
  <2>2. CASE ~(i <= n)
    <3>1. i - n \in 1..Len(queue') /\ n + (i - n) = i
      BY <1>1, <1>4, <2>2
    <3>2. queue'[i - n] = q[i]
      BY <1>4, <3>1
    <3> QED BY <3>1, <3>2 DEF Queued
  <2> QED BY <2>1, <2>2
<1>6. wire' = {} => queue' = <<>>
  <2> SUFFICES ASSUME wire' = {} PROVE queue' = <<>>
    OBVIOUS
  <2>1. n = 0
    <3>1. n # 0 => 1 \in 1..n
      BY <1>1
    <3> QED BY <1>2, <3>1
  <2>2. w = {} /\ Len(q) = 0
    BY <1>2, <1>3, <2>1
  <2>3. q = <<>>
    BY <2>2, EmptySeq
  <2> QED BY <1>2, <2>1, <2>3, SubSeqEmpty
<1> QED BY <1>2, <1>5, <1>6 DEF Items

LEMMA ReceivesAll ==
  ASSUME NEW S, queue \in Seq(S), IsFiniteSet(wire), NEW smp \in wire, Receives(smp)
  PROVE  /\ todo = <<>> /\ result = "scanning"
         /\ Outstanding \ {smp} \subseteq Queued' \cup wire'
         /\ wire' = {} => queue' = <<>>
<1>1. SendAll(queue, wire \ {smp}) /\ todo = <<>> /\ result = "scanning"
  BY DEF Receives
<1>2. IsFiniteSet(wire \ {smp})
  BY FS_RemoveElement
<1>3. Items(queue) \cup (wire \ {smp}) \subseteq Queued' \cup wire'
      /\ (wire' = {} => queue' = <<>>)
  BY <1>1, <1>2, RefillAll
<1>4. {todo[i] : i \in 1..Len(todo)} = {}
  BY <1>1
<1> QED BY <1>1, <1>3, <1>4 DEF Outstanding, Queued, Items

LEMMA PendingMore ==
  ASSUME NEW s, NEW sent, NEW more, sent \subseteq more, NEW met, NEW seen, NEW r,
         Pending(s, sent, met, seen, r)
  PROVE  Pending(s, more, met, seen, r)
<1>1. \A e : Asked(sent, e) => Asked(more, e)
  BY DEF Asked
<1>2. \A e : Followed(sent, e) => Followed(more, e)
  BY DEF Followed
<1> QED BY <1>1, <1>2 DEF Pending

\* Links between the ends of cables are never taken away again.
Grows(r, r2) == \A e \in DOMAIN Cable : r[e] = Cable[e] => r2[e] = Cable[e]

LEMMA KnownGrows ==
  ASSUME NEW s, s \in Scans, NEW met, NEW more, met \subseteq more, IsFiniteSet(more),
         NEW r, NEW r2, Grows(r, r2)
  PROVE  /\ Known(s, met, r) \subseteq Known(s, more, r2)
         /\ Seq(Known(s, met, r)) \subseteq Seq(Known(s, more, r2))
<1>1. Cardinality(met) \in Nat /\ Cardinality(more) \in Nat /\ Cardinality(met) <= Cardinality(more)
  BY FS_Subset, FS_CardinalityType
<1>2. s.path \in Seq(Nat) /\ Len(s.path) \in Nat
  BY DiscoveryAssumption, LenProperties
<1>3. ASSUME NEW smp \in Known(s, met, r)
      PROVE  smp \in Known(s, more, r2)
  <2>1. smp.path \in Seq(Nat) /\ Len(smp.path) \in Nat
    BY LenProperties DEF Known, Smps
  <2>2. \A l \in Nat : (l <= Len(s.path) + Cardinality(met) => l <= Len(s.path) + Cardinality(more))
    BY <1>1, <1>2
  <2>3. Len(smp.path) + 1 \in Nat
    BY <2>1
  <2> QED BY <2>1, <2>2, <2>3 DEF Known, Grows
<1> QED BY <1>3, SeqMonotonic

\* Where the scan may go on it does.
LEMMA GoOnFollows ==
  ASSUME ~RemoteCa(scan), scan \in Scans, ScansCanGoOn, scan.hops = 0, from = StartOf(scan),
         NEW b \in BOOLEAN, NEW smp \in Routed(scan, b), smp.attr # "NodeInfo",
         NEW met \in SUBSET Nodes, NEW r, smp \in Known(scan, met, r)
  PROVE  LET on == GoOn(smp.port[1], smp.port[2], smp.path, Arrival(smp.path)[2]).smps
         IN  /\ on \in Seq(Known(scan, met, r))
             /\ smp.port \in DOMAIN Cable
                /\ (smp.port[1] \in Switches \/ smp.port = StartOf(scan))
                => r[smp.port] = Cable[smp.port] \/ Followed(Items(on), smp.port)
<1> DEFINE n == smp.port[1]
           p == smp.port[2]
           route == smp.path
           at == ArrivalFrom(scan.base, route)
           onward == Onward(n, p, Append(route, p))
           on == GoOn(n, p, route, at[2]).smps
           K == Known(scan, met, r)
<1>0. Arrival(route) = at
  BY DEF Arrival
<1>1. /\ smp \in Smps /\ route \in Seq(Nat) /\ Len(route) \in Nat
      /\ smp.port \in Ports /\ smp.port = <<n, p>> /\ p \in Nat
      /\ at \in Ports /\ at[1] = n /\ at = <<at[1], at[2]>>
  BY PortParts, LenProperties DEF Routed, Smps
<1>2. /\ IsFiniteSet(met) /\ Cardinality(met) \in Nat
      /\ Cardinality(met) <= Cardinality(Nodes) /\ Cardinality(Nodes) \in Nat
  BY FS_Subset, FS_CardinalityType DEF ScansCanGoOn
<1>3. /\ Len(scan.path) \in Nat /\ PathMax \in Nat
      /\ Len(scan.path) + Cardinality(Nodes) <= PathMax + 1
      /\ scan.lid => scan.base[1] \in Switches
  <2>1. scan.path \in Seq(Nat) /\ PathMax \in Nat
    BY DiscoveryAssumption
  <2>2. Len(scan.path) \in Nat
    BY <2>1, LenProperties
  <2>3. Len(scan.path) + Cardinality(Nodes) <= PathMax + 1
    BY DEF ScansCanGoOn
  <2>4. scan.lid => scan.base[1] \in Switches
    BY DEF ScansCanGoOn
  <2> QED BY <2>1, <2>2, <2>3, <2>4
<1>4. smp.port # NoPort
  BY <1>1, PortParts, FabricAssumption DEF NoPort
<1>5. n \in met
  BY <1>4 DEF Known
<1>6. n \in Switches =>
        /\ Len(route) + 1 <= Len(scan.path) + Cardinality(met)
        /\ at # StartOf(scan) => r[at] = Cable[at]
  BY DEF Known
<1>7. ~HopsExhausted
  BY DEF HopsExhausted
<1>8. CASE ~LeadsOn(n, p, at[2])
  <2>1. on = <<>> /\ on \in Seq(K)
    BY <1>8 DEF GoOn
  <2>2. ASSUME smp.port \in DOMAIN Cable, smp.port[1] \in Switches \/ smp.port = StartOf(scan)
        PROVE  r[smp.port] = Cable[smp.port]
    <3>1. p # 0
      BY <1>1, <2>2, FabricAssumption
    <3>2. n \in Switches /\ p = at[2] /\ smp.port # StartOf(scan)
      BY <1>1, <1>8, <2>2, <3>1 DEF LeadsOn
    <3> QED BY <1>1, <1>6, <3>2
  <2> QED BY <1>0, <2>1, <2>2
<1>9. CASE LeadsOn(n, p, at[2])
  <2>0. from \in {NoPort, ArrivalFrom(scan.base, scan.path)}
    BY DEF StartOf
  <2>1. /\ n \notin Switches => StartsAtCa(scan) /\ smp.port = scan.base /\ route = <<>>
        /\ ~Retracts(n, route)
    BY <1>9, <2>0, LeavesCa
  <2>2. n \notin Switches => smp.port = StartOf(scan) /\ ~scan.lid
    BY <1>3, <2>1, ArrivalEmpty DEF StartsAtCa, StartOf
  <2>3. Len(route) <= PathMax /\ Len(route) + 1 <= Len(scan.path) + Cardinality(met)
    <3>1. CASE n \in Switches
      BY <1>1, <1>2, <1>3, <1>6, <3>1
    <3>2. CASE n \notin Switches
      <4>1. Len(route) = 0
        BY <2>1, <3>2
      <4>2. Cardinality(met) >= 1
        BY <1>2, <1>5, FS_EmptySet
      <4> QED BY <1>2, <1>3, <4>1, <4>2
    <3> QED BY <3>1, <3>2
  <2>4. CanExtend(n, route)
    BY <2>2, <2>3 DEF CanExtend
  <2>5. on = <<onward>>
    BY <1>7, <1>9, <2>1, <2>4 DEF GoOn
  <2>6. /\ onward \in Smps /\ onward.attr = "NodeInfo" /\ onward.port = smp.port
        /\ onward.path = Append(route, p) /\ Len(onward.path) = Len(route) + 1
    BY <1>1, AppendProperties DEF Onward, NodeInfo, Smp, Smps
  <2> HIDE DEF onward
  <2>7. onward \in K
    BY <1>5, <2>2, <2>3, <2>6 DEF Known
  <2>8. Followed(Items(<<onward>>), smp.port)
    <3>1. Items(<<onward>>) = {onward}
      BY DEF Items
    <3> QED BY <2>6, <3>1 DEF Followed
  <2>9. on \in Seq(K)
    BY <2>5, <2>7
  <2> QED BY <1>0, <2>5, <2>8, <2>9
<1> QED BY <1>8, <1>9

-----------------------------------------------------------------------------
\* The assumptions of the scans that are to be complete, and what is known of them.
Covered ==
  /\ ~RemoteCa(scan) /\ scan.hops = 0 /\ scan \in Scans
  /\ ScansCanGoOn /\ IInv /\ RouteInv

LEMMA CoveredFacts ==
  ASSUME Covered
  PROVE  /\ IsFiniteSet(wire) /\ remote \in [Ports -> Ports \cup {NoPort}]
         /\ queue \in Seq(Routed(scan, Beyond(scan, DOMAIN nodes)))
         /\ wire \subseteq Routed(scan, Beyond(scan, DOMAIN nodes))
         /\ todo \in Seq(Routed(scan, Beyond(scan, DOMAIN nodes)))
         /\ wire \subseteq Sound(info)
         /\ info \subseteq Ports
         /\ IsFiniteSet(Nodes) /\ StartOf(scan) \in Ports
         /\ scan.path \in Seq(Nat)
         /\ Beyond(scan, DOMAIN nodes) \in BOOLEAN
<1>1. StartOf(scan) \in Ports /\ scan.path \in Seq(Nat)
  <2>1. scan \in Scans /\ ScansCanGoOn
    BY DEF Covered
  <2>2. StartOf(scan) \in Ports
    BY <2>1 DEF ScansCanGoOn, StartOf
  <2>3. scan.path \in Seq(Nat)
    BY <2>1, DiscoveryAssumption
  <2> QED BY <2>2, <2>3
<1>2. Beyond(scan, DOMAIN nodes) \in BOOLEAN
  BY DEF Beyond
<1> QED BY <1>1, <1>2 DEF Covered, ScansCanGoOn, IInv, Typing, RouteInv

\* Steps that only move SMPs.
LEMMA MovesGoOn ==
  ASSUME Covered, Going, result # "init", UNCHANGED learnt, result' = result,
         NEW gone, gone.attr \in {"NodeDesc", "SwitchInfo"},
         Outstanding \ {gone} \subseteq Outstanding',
         queue' \in Seq(Known(scan, DOMAIN nodes, remote)),
         wire' \subseteq Known(scan, DOMAIN nodes, remote),
         todo' \in Seq(Known(scan, DOMAIN nodes, remote)),
         wire' = {} => queue' = <<>>, result # "fabric"
  PROVE  Going'
<1>1. UNCHANGED <<scan, nodes, info, remote, from>>
  BY DEF learnt
<1>2. Pending(scan, Outstanding, DOMAIN nodes, info, remote)
  BY DEF Going
<1>3. NodeInfo(scan.path, NoPort) # gone
  BY DEF NodeInfo, Smp
<1>4. \A e : Asked(Outstanding, e) => Asked(Outstanding \ {gone}, e)
  BY DEF Asked
<1>5. \A e : Followed(Outstanding, e) => Followed(Outstanding \ {gone}, e)
  BY DEF Followed
<1>6. Pending(scan, Outstanding \ {gone}, DOMAIN nodes, info, remote)
  BY <1>2, <1>3, <1>4, <1>5 DEF Pending
<1>7. Pending(scan, Outstanding', DOMAIN nodes, info, remote)
  BY <1>6, PendingMore
<1>8. Reached'
  BY <1>1 DEF Going, Reached
<1>9. Flow'
  BY <1>1 DEF Going, Flow
<1> QED BY <1>1, <1>7, <1>8, <1>9 DEF Going

LEMMA ItemsOfConcat ==
  ASSUME NEW S, NEW a \in Seq(S), NEW b \in Seq(S)
  PROVE  Items(a) \cup Items(b) \subseteq Items(a \o b)
<1>1. /\ Len(a) \in Nat /\ Len(b) \in Nat /\ Len(a \o b) = Len(a) + Len(b)
      /\ \A i \in 1..(Len(a) + Len(b)) :
           (a \o b)[i] = IF i <= Len(a) THEN a[i] ELSE b[i - Len(a)]
  BY LenProperties, ConcatProperties
<1>2. ASSUME NEW i \in 1..Len(a) PROVE a[i] \in Items(a \o b)
  <2>1. i \in 1..Len(a \o b) /\ (a \o b)[i] = a[i]
    BY <1>1
  <2> QED BY <2>1 DEF Items
<1>3. ASSUME NEW i \in 1..Len(b) PROVE b[i] \in Items(a \o b)
  <2>1. /\ Len(a) + i \in 1..Len(a \o b) /\ ~(Len(a) + i <= Len(a))
        /\ (Len(a) + i) - Len(a) = i
    BY <1>1
  <2>2. (a \o b)[Len(a) + i] = b[i]
    BY <1>1, <2>1
  <2> QED BY <2>1, <2>2 DEF Items
<1> QED BY <1>2, <1>3 DEF Items

LEMMA ItemsOfAppend ==
  ASSUME NEW S, NEW a \in Seq(S), NEW x \in S
  PROVE  Items(a) \cup {x} \subseteq Items(Append(a, x))
<1>1. /\ Len(a) \in Nat /\ Len(Append(a, x)) = Len(a) + 1
      /\ \A i \in 1..Len(a) : Append(a, x)[i] = a[i]
      /\ Append(a, x)[Len(a) + 1] = x
  BY LenProperties, AppendProperties
<1>2. \A i \in 1..Len(a) : i \in 1..(Len(a) + 1)
  BY <1>1
<1>3. Len(a) + 1 \in 1..(Len(a) + 1)
  BY <1>1
<1> QED BY <1>1, <1>2, <1>3 DEF Items

LEMMA ItemsOfTail ==
  ASSUME NEW S, NEW a \in Seq(S), a # <<>>
  PROVE  Items(a) \subseteq {Head(a)} \cup Items(Tail(a))
<1>1. /\ Len(a) \in Nat /\ Len(Tail(a)) = Len(a) - 1 /\ Head(a) = a[1]
      /\ \A i \in 1..Len(Tail(a)) : Tail(a)[i] = a[i + 1]
  BY LenProperties, HeadTailProperties
<1>2. ASSUME NEW i \in 1..Len(a), i # 1 PROVE a[i] \in Items(Tail(a))
  <2>1. i - 1 \in 1..Len(Tail(a)) /\ (i - 1) + 1 = i
    BY <1>1, <1>2
  <2>2. Tail(a)[i - 1] = a[i]
    BY <1>1, <2>1
  <2> QED BY <2>1, <2>2 DEF Items
<1> QED BY <1>1, <1>2 DEF Items

LEMMA IssueGoesOn ==
  ASSUME Covered, Going, IssueNext
  PROVE  Going'
<1> DEFINE K == Known(scan, DOMAIN nodes, remote)
           q == Enqueue(queue, Head(todo))
<1>1. /\ queue \in Seq(K) /\ wire \subseteq K /\ todo \in Seq(K) /\ todo # <<>>
      /\ SendAll(q, wire) /\ todo' = Tail(todo) /\ UNCHANGED <<learnt, result>>
      /\ result # "init" /\ result # "fabric"
  BY DEF Going, Flow, Idle, IssueNext
<1>2. IsFiniteSet(wire)
  BY CoveredFacts
<1> HIDE DEF K
<1>3. Head(todo) \in K /\ Tail(todo) \in Seq(K)
  BY <1>1, HeadTailProperties
<1>4. q \in Seq(K)
  BY <1>1, <1>3, AppendProperties DEF Enqueue
<1>5. Items(queue) \cup {Head(todo)} \subseteq Items(q)
  BY <1>1, <1>3, ItemsOfAppend DEF Enqueue
<1> HIDE DEF q
<1>6. Items(q) \cup wire \subseteq Queued' \cup wire' /\ (wire' = {} => queue' = <<>>)
  BY <1>1, <1>2, <1>4, RefillAll
<1>7. Items(todo) \subseteq {Head(todo)} \cup Items(todo')
  BY <1>1, ItemsOfTail
<1>8. Outstanding \subseteq Outstanding'
  BY <1>5, <1>6, <1>7 DEF Outstanding, Queued, Items
<1>9. wire \in SUBSET K
  BY <1>1
<1>10. queue' \in Seq(K) /\ wire' \subseteq K
  BY <1>1, <1>2, <1>4, <1>9, RefillKeeps
<1> DEFINE gone == [attr |-> "NodeDesc"]
<1>11. gone.attr \in {"NodeDesc", "SwitchInfo"} /\ Outstanding \ {gone} \subseteq Outstanding'
  BY <1>8
<1> HIDE DEF gone
<1> QED BY <1>1, <1>3, <1>6, <1>10, <1>11, MovesGoOn DEF K

LEMMA DescriptionGoesOn ==
  ASSUME Covered, Going, NEW smp \in wire, RecvDescription(smp)
  PROVE  Going'
<1> DEFINE K == Known(scan, DOMAIN nodes, remote)
<1>1. /\ queue \in Seq(K) /\ wire \subseteq K /\ todo \in Seq(K)
      /\ Receives(smp) /\ smp.attr \in {"NodeDesc", "SwitchInfo"}
      /\ UNCHANGED <<todo, learnt, result>>
  BY DEF Going, Flow, RecvDescription, Answered
<1>2. IsFiniteSet(wire)
  BY CoveredFacts
<1> HIDE DEF K
<1>3. /\ todo = <<>> /\ result = "scanning"
      /\ Outstanding \ {smp} \subseteq Queued' \cup wire'
      /\ wire' = {} => queue' = <<>>
  BY <1>1, <1>2, ReceivesAll
<1>4. Outstanding \ {smp} \subseteq Outstanding'
  BY <1>3 DEF Outstanding
<1>5. queue' \in Seq(K) /\ wire' \subseteq K
  BY <1>1, <1>2, ReceivesRouted
<1> QED BY <1>1, <1>3, <1>4, <1>5, MovesGoOn DEF K

LEMMA CableIsPort ==
  ASSUME NEW e \in DOMAIN Cable
  PROVE  e \in Ports /\ e # NoPort /\ e = <<e[1], e[2]>> /\ e[2] \in 1..NumPorts[e[1]]
<1>1. e = <<e[1], e[2]>> /\ e[1] \in Nodes /\ e[2] \in 1..NumPorts[e[1]] /\ NumPorts[e[1]] \in Nat
  BY FabricAssumption
<1>2. e[2] \in (IF e[1] \in Switches THEN 0 ELSE 1)..NumPorts[e[1]]
  BY <1>1
<1>3. e \in {<<e[1], p>> : p \in (IF e[1] \in Switches THEN 0 ELSE 1)..NumPorts[e[1]]}
  BY <1>1, <1>2
<1>4. e # NoPort
  BY <1>1, FabricAssumption DEF NoPort
<1> QED BY <1>1, <1>3, <1>4 DEF Ports

LEMMA LinkPortsGrow ==
  ASSUME NEW r \in [Ports -> Ports \cup {NoPort}], NEW b \in DOMAIN Cable,
         \A e \in Ports : r[e] # NoPort => e \in DOMAIN Cable /\ Cable[e] = r[e]
  PROVE  /\ Grows(r, LinkPorts(r, Cable[b], b))
         /\ LinkPorts(r, Cable[b], b)[Cable[b]] = b
         /\ LinkPorts(r, Cable[b], b)[b] = Cable[b]
         /\ \A e \in Ports : LinkPorts(r, Cable[b], b)[e] \in {NoPort, b, Cable[b], r[e]}
<1>1. Cable[b] \in DOMAIN Cable /\ Cable[Cable[b]] = b /\ Cable[b] # b
  BY CableEnds
<1>2. b \in Ports /\ Cable[b] \in Ports
  BY <1>1, CableIsPort
<1>3. ASSUME NEW e \in DOMAIN Cable, r[e] = Cable[e]
      PROVE  LinkPorts(r, Cable[b], b)[e] = Cable[e]
  <2>1. e \in Ports /\ e # NoPort
    BY CableIsPort
  <2>2. e = r[b] => e = Cable[b]
    BY <1>2, <2>1
  <2>3. e = r[Cable[b]] => e = b
    BY <1>1, <1>2, <2>1
  <2> QED BY <1>1, <1>2, <1>3, <2>1, <2>2, <2>3 DEF LinkPorts
<1>4. \A e \in Ports : LinkPorts(r, Cable[b], b)[e] \in {NoPort, b, Cable[b], r[e]}
  BY <1>2 DEF LinkPorts
<1> QED BY <1>1, <1>2, <1>3, <1>4 DEF LinkPorts, Grows

\* What recv_node_info asks, of a node found for the first time or of a CA.
LEMMA NodeQueriesKnown ==
  ASSUME NEW s, s \in Scans, NEW met, IsFiniteSet(met), NEW route \in Seq(Nat), NEW at \in Ports,
         at = ArrivalFrom(s.base, route),
         Len(route) <= Len(s.path) + Cardinality(met), NEW r,
         at # StartOf(s) => at \in DOMAIN Cable /\ r[at] = Cable[at]
  PROVE  LET ask == NodeQueries(route, at, at[1] \notin met)
         IN  /\ ask \in Seq(Known(s, met \cup {at[1]}, r))
             /\ at[1] \in Switches \ met => Asked(Items(ask), <<at[1], 0>>)
             /\ at[1] \notin Switches => Asked(Items(ask), at)
<1> DEFINE new == at[1] \notin met
           K == Known(s, met \cup {at[1]}, r)
           d == IF new THEN <<Smp("NodeDesc", route, at)>> ELSE <<>>
           w == IF new /\ at[1] \in Switches
                THEN <<Smp("SwitchInfo", route, at), PortInfo(route, <<at[1], 0>>)>>
                ELSE <<>>
           c == IF at[1] \notin Switches THEN <<PortInfo(route, at)>> ELSE <<>>
<1>1. Cardinality(met) \in Nat /\ (new => Cardinality(met \cup {at[1]}) = Cardinality(met) + 1)
  BY FS_CardinalityType, FS_AddElement
<1>2. Len(route) \in Nat /\ Len(s.path) \in Nat
  BY DiscoveryAssumption, LenProperties
<1>3. at[1] \in Switches => <<at[1], 0>> \in Ports
  <2>1. NumPorts[at[1]] \in Nat
    BY PortParts
  <2> QED BY <2>1, SwitchPorts
<1>4. ASSUME NEW attr \in {"NodeDesc", "SwitchInfo", "PortInfo"}, NEW port \in Ports,
             port[1] = at[1], at[1] \in Switches => new
      PROVE  Smp(attr, route, port) \in K
  <2> DEFINE q == Smp(attr, route, port)
  <2>1. q \in Smps /\ q.attr # "NodeInfo" /\ q.path = route /\ q.port = port
    BY DEF Smp, Smps
  <2> HIDE DEF q
  <2>2. at[1] \in Switches => Len(route) + 1 <= Len(s.path) + Cardinality(met \cup {at[1]})
    BY <1>1, <1>2, <1>4
  <2>3. q \in K
    BY <1>4, <2>1, <2>2 DEF Known
  <2> QED BY <2>3 DEF q
<1>5. d \in Seq(K)
  <2>1. new => Smp("NodeDesc", route, at) \in K
    BY <1>4
  <2> HIDE DEF K
  <2> QED BY <2>1
<1>6. w \in Seq(K) /\ (new /\ at[1] \in Switches => Asked(Items(w), <<at[1], 0>>))
  <2>0. <<>> \in Seq(K)
    OBVIOUS
  <2> SUFFICES ASSUME new, at[1] \in Switches
               PROVE  w \in Seq(K) /\ Asked(Items(w), <<at[1], 0>>)
    BY <2>0
  <2>1. Smp("SwitchInfo", route, at) \in K
    BY <1>4
  <2>2. <<at[1], 0>>[1] = at[1]
    OBVIOUS
  <2>3. Smp("PortInfo", route, <<at[1], 0>>) \in K
    BY <1>3, <1>4, <2>2
  <2>4. w = <<Smp("SwitchInfo", route, at), PortInfo(route, <<at[1], 0>>)>> /\ w[2] = PortInfo(route, <<at[1], 0>>)
        /\ Len(w) = 2
    OBVIOUS
  <2>5. Asked(Items(w), <<at[1], 0>>)
    <3>1. 2 \in 1..Len(w)
      BY <2>4
    <3>2. PortInfo(route, <<at[1], 0>>) \in Items(w)
      BY <2>4, <3>1 DEF Items
    <3> QED BY <3>2 DEF Asked, PortInfo, Smp
  <2> HIDE DEF K
  <2> QED BY <2>1, <2>3, <2>4, <2>5 DEF PortInfo
<1>7. c \in Seq(K) /\ (at[1] \notin Switches => Asked(Items(c), at))
  <2>1. at[1] \notin Switches => Smp("PortInfo", route, at) \in K
    BY <1>4
  <2> HIDE DEF K
  <2>2. c \in Seq(K)
    BY <2>1 DEF PortInfo
  <2>3. at[1] \notin Switches => PortInfo(route, at) \in Items(c)
    BY DEF Items
  <2> HIDE DEF c
  <2> QED BY <2>2, <2>3 DEF Asked, PortInfo, Smp
<1>8. NodeQueries(route, at, new) = (d \o w) \o c
  BY DEF NodeQueries
<1> HIDE DEF d, w, c, K
<1>9. d \o w \in Seq(K) /\ Items(w) \subseteq Items(d \o w)
  BY <1>5, <1>6, ConcatProperties, ItemsOfConcat
<1>10. (d \o w) \o c \in Seq(K) /\ Items(d \o w) \cup Items(c) \subseteq Items((d \o w) \o c)
  BY <1>7, <1>9, ConcatProperties, ItemsOfConcat
<1> HIDE DEF new
<1>11. new /\ at[1] \in Switches => Asked(Items((d \o w) \o c), <<at[1], 0>>)
  BY <1>6, <1>9, <1>10 DEF Asked
<1>12. at[1] \notin Switches => Asked(Items((d \o w) \o c), at)
  BY <1>7, <1>10 DEF Asked
<1> QED BY <1>8, <1>10, <1>11, <1>12 DEF new, K

LEMMA NodeInfoGoesOn ==
  ASSUME Covered, Going, NEW smp \in wire, RecvNodeInfo(smp)
  PROVE  Going'
<1> DEFINE at == ArrivalFrom(scan.base, smp.path)
           met == DOMAIN nodes
           more == met \cup {at[1]}
           K == Known(scan, met, remote)
           L == Known(scan, more, remote')
           ask == NodeQueries(smp.path, at, at[1] \notin met)
<1>0. Arrival(smp.path) = at
  BY DEF Arrival
<1>1. /\ Receives(smp) /\ smp.attr = "NodeInfo" /\ at \in Ports
      /\ todo' = ask /\ UNCHANGED <<scan, info, faults, result>>
      /\ smp.port = NoPort => from' = at /\ remote' = remote
      /\ smp.port # NoPort => from' = from /\ remote' = LinkPorts(remote, at, smp.port)
  BY <1>0 DEF RecvNodeInfo, Answered
<1>2. DOMAIN nodes' = more
  BY <1>0 DEF RecvNodeInfo
<1>3. /\ queue \in Seq(K) /\ wire \subseteq K /\ IsFiniteSet(wire) /\ scan \in Scans
      /\ Reached /\ Pending(scan, Outstanding, met, info, remote)
      /\ IsFiniteSet(Nodes) /\ met \subseteq Nodes /\ IsFiniteSet(met) /\ IsFiniteSet(more)
  <2>1. IsFiniteSet(Nodes) /\ IsFiniteSet(wire) /\ scan \in Scans
    BY CoveredFacts DEF Covered
  <2>2. met \subseteq Nodes
    BY DEF Going, Reached
  <2>3. IsFiniteSet(met) /\ IsFiniteSet(more)
    BY <2>1, <2>2, FS_Subset, FS_AddElement
  <2>4. result # "init"
    BY <1>1 DEF Receives
  <2> QED BY <2>1, <2>2, <2>3, <2>4 DEF Going, Flow
<1>4. /\ todo = <<>> /\ result = "scanning"
      /\ Outstanding \ {smp} \subseteq Queued' \cup wire'
      /\ wire' = {} => queue' = <<>>
  BY <1>1, <1>3, ReceivesAll
<1>5. queue' \in Seq(K) /\ wire' \subseteq K
  <2> HIDE DEF K
  <2> QED BY <1>1, <1>3, ReceivesRouted
<1>6. /\ smp.port = NoPort => smp.path = scan.path
      /\ smp.port # NoPort => /\ smp.port \in DOMAIN Cable /\ at = Cable[smp.port]
                              /\ smp.port[1] \in met
                              /\ smp.port[1] \in Switches \/ smp.port = StartOf(scan)
      /\ smp.path \in Seq(Nat) /\ Len(smp.path) <= Len(scan.path) + Cardinality(met)
  BY <1>1, <1>3, CoveredFacts DEF Routed, Known, Smps
<1>7. /\ remote \in [Ports -> Ports \cup {NoPort}]
      /\ \A e \in Ports : remote[e] # NoPort => e \in DOMAIN Cable /\ Cable[e] = remote[e]
  BY CoveredFacts DEF Covered, RouteInv, LinksAreCables
<1>8. smp.port = NoPort => at = StartOf(scan)
  BY <1>6 DEF StartOf
<1>9. smp.port # NoPort =>
        /\ at \in DOMAIN Cable /\ remote'[at] = smp.port /\ Cable[at] = smp.port
        /\ remote'[smp.port] = at
        /\ \A e \in Ports : remote'[e] \in {NoPort, smp.port, at, remote[e]}
  <2> SUFFICES ASSUME smp.port # NoPort
               PROVE  /\ at \in DOMAIN Cable /\ remote'[at] = smp.port /\ Cable[at] = smp.port
                      /\ remote'[smp.port] = at
                      /\ \A e \in Ports : remote'[e] \in {NoPort, smp.port, at, remote[e]}
    OBVIOUS
  <2>1. smp.port \in DOMAIN Cable /\ at = Cable[smp.port]
        /\ remote' = LinkPorts(remote, Cable[smp.port], smp.port)
    BY <1>1, <1>6
  <2> HIDE DEF at
  <2> QED BY <1>7, <2>1, CableEnds, LinkPortsGrow
<1>10. Grows(remote, remote')
  <2>1. CASE smp.port = NoPort
    BY <1>1, <2>1 DEF Grows
  <2>2. CASE smp.port # NoPort
    <3>1. smp.port \in DOMAIN Cable /\ remote' = LinkPorts(remote, Cable[smp.port], smp.port)
      BY <1>1, <1>6, <2>2
    <3> QED BY <1>7, <3>1, LinkPortsGrow
  <2> QED BY <2>1, <2>2
<1>11. K \subseteq L /\ Seq(K) \subseteq Seq(L)
  BY <1>3, <1>10, KnownGrows
<1>12. /\ ask \in Seq(L)
       /\ at[1] \in Switches \ met => Asked(Items(ask), <<at[1], 0>>)
       /\ at[1] \notin Switches => Asked(Items(ask), at)
  <2>1. at # StartOf(scan) => at \in DOMAIN Cable /\ remote'[at] = Cable[at]
    BY <1>8, <1>9
  <2> QED BY <1>1, <1>3, <1>6, <2>1, NodeQueriesKnown
<1> HIDE DEF at, K, L, ask
<1>13. Items(ask) \subseteq Outstanding' /\ Outstanding \ {smp} \subseteq Outstanding'
  BY <1>1, <1>4 DEF Outstanding, Items
<1>14. StartOf(scan)[1] \in more /\ from' = StartOf(scan)
       /\ (StartOf(scan)[1] \notin met => smp.port = NoPort)
  BY <1>1, <1>3, <1>6, <1>8 DEF Reached
<1>15. Reached'
  <2>1. more \subseteq Nodes
    BY <1>1, <1>3, PortParts
  <2>2. ASSUME NEW X, StartOf(scan)[1] \in X, Closed(scan, X)
        PROVE  more \subseteq X
    <3>1. met \subseteq X
      BY <1>3, <2>2 DEF Reached
    <3>2. at[1] \in X
      <4>1. CASE smp.port = NoPort
        BY <1>8, <2>2, <4>1
      <4>2. CASE smp.port # NoPort
        BY <1>6, <2>2, <3>1, <4>2 DEF Closed
      <4> QED BY <4>1, <4>2
    <3> QED BY <3>1, <3>2
  <2>3. ASSUME NEW e \in Ports, remote'[e] # NoPort PROVE remote'[e][1] \in more
    <3>1. remote[e] # NoPort => remote[e][1] \in met
      BY <1>3 DEF Reached
    <3>2. CASE smp.port = NoPort
      BY <1>1, <2>3, <3>1, <3>2
    <3>3. CASE smp.port # NoPort
      BY <1>6, <1>9, <2>3, <3>1, <3>3
    <3> QED BY <3>2, <3>3
  <2> QED BY <1>1, <1>2, <1>14, <2>1, <2>2, <2>3 DEF Reached
<1>16. Flow'
  <2>1. queue' \in Seq(L) /\ wire' \subseteq L /\ todo' \in Seq(L)
    BY <1>1, <1>5, <1>11, <1>12
  <2>2. L = Known(scan, DOMAIN nodes, remote)'
    BY <1>1, <1>2 DEF L
  <2> QED BY <1>1, <1>4, <2>1, <2>2 DEF Flow
<1>17. Pending(scan, Outstanding', more, info, remote')
  <2>1. ASSUME NEW e, Asked(Outstanding, e) PROVE Asked(Outstanding', e)
    BY <1>1, <1>13, <2>1 DEF Asked
  <2>2. ASSUME NEW e, Asked(Items(ask), e) PROVE Asked(Outstanding', e)
    BY <1>13, <2>2 DEF Asked
  <2>3. \A n \in more \cap Switches : <<n, 0>> \in info \/ Asked(Outstanding', <<n, 0>>)
    <3> TAKE n \in more \cap Switches
    <3>1. CASE n \in met
      BY <1>3, <2>1, <3>1 DEF Pending
    <3>2. CASE n \notin met
      BY <1>12, <2>2, <3>2
    <3> QED BY <3>1, <3>2
  <2>4. \A n \in Switches : \A p \in 1..NumPorts[n] :
          <<n, 0>> \in info => <<n, p>> \in info \/ Asked(Outstanding', <<n, p>>)
    BY <1>3, <2>1 DEF Pending
  <2>5. StartOf(scan)[1] \in more \ Switches
          => StartOf(scan) \in info \/ Asked(Outstanding', StartOf(scan))
    <3>1. CASE StartOf(scan)[1] \in met
      BY <1>3, <2>1, <3>1 DEF Pending
    <3>2. CASE StartOf(scan)[1] \notin met
      BY <1>8, <1>12, <1>14, <2>2, <3>2
    <3> QED BY <3>1, <3>2
  <2>6. \A e \in info \cap DOMAIN Cable :
          e[1] \in Switches \/ e = StartOf(scan) => remote'[e] = Cable[e] \/ Followed(Outstanding', e)
    <3> SUFFICES ASSUME NEW e \in info \cap DOMAIN Cable, e[1] \in Switches \/ e = StartOf(scan)
                 PROVE  remote'[e] = Cable[e] \/ Followed(Outstanding', e)
      OBVIOUS
    <3>1. CASE remote[e] = Cable[e]
      BY <1>10, <3>1 DEF Grows
    <3>2. CASE Followed(Outstanding, e)
      <4>1. PICK q \in Outstanding : q.attr \in {"ExtPortInfo", "NodeInfo"} /\ q.port = e
        BY <3>2 DEF Followed
      <4>2. CASE q = smp
        <5>1. e # NoPort
          BY CableIsPort
        <5> QED BY <1>6, <1>9, <4>1, <4>2, <5>1
      <4>3. CASE q # smp
        BY <1>13, <4>1, <4>3 DEF Followed
      <4> QED BY <4>2, <4>3
    <3> QED BY <1>3, <3>1, <3>2 DEF Pending
  <2> QED BY <1>14, <2>3, <2>4, <2>5, <2>6 DEF Pending
<1> QED BY <1>1, <1>2, <1>15, <1>16, <1>17 DEF Going

LEMMA PortQueriesKnown ==
  ASSUME NEW s, NEW met, NEW r, NEW smp \in Known(s, met, r), smp.attr # "NodeInfo",
         smp.port \in Ports, smp.port[1] \in Switches
  PROVE  LET ask == PortQueries(smp.path, smp.port[1])
         IN  /\ ask \in Seq(Known(s, met, r))
             /\ \A p \in 1..NumPorts[smp.port[1]] : Asked(Items(ask), <<smp.port[1], p>>)
<1> DEFINE n == smp.port[1]
           ask == PortQueries(smp.path, n)
           K == Known(s, met, r)
<1>1. NumPorts[n] \in Nat
  BY FabricAssumption
<1>2. smp.port # NoPort
  BY PortParts, FabricAssumption DEF NoPort
<1>3. ASSUME NEW p \in 1..NumPorts[n]
      PROVE  /\ PortInfo(smp.path, <<n, p>>) \in K
             /\ PortInfo(smp.path, <<n, p>>).attr = "PortInfo"
             /\ PortInfo(smp.path, <<n, p>>).port = <<n, p>>
  <2> DEFINE q == PortInfo(smp.path, <<n, p>>)
  <2>1. <<n, p>> \in Ports /\ <<n, p>>[1] = n
    BY <1>1, SwitchPorts
  <2>2. q \in Smps /\ q.attr = "PortInfo" /\ q.path = smp.path /\ q.port = <<n, p>>
    BY <2>1 DEF PortInfo, Smp, Smps, Known
  <2> HIDE DEF q
  <2>3. q \in K
    BY <1>2, <2>1, <2>2 DEF Known
  <2> QED BY <2>2, <2>3 DEF q
<1> HIDE DEF n, K
<1>4. ask \in [1..NumPorts[n] -> K] /\ \A p \in 1..NumPorts[n] : ask[p] = PortInfo(smp.path, <<n, p>>)
  BY <1>3 DEF PortQueries
<1> HIDE DEF ask
<1>5. ask \in Seq(K) /\ Len(ask) = NumPorts[n]
  BY <1>1, <1>4, SeqDef, LenProperties
<1>6. \A p \in 1..NumPorts[n] : Asked(Items(ask), <<n, p>>)
  BY <1>3, <1>4, <1>5 DEF Asked, Items
<1> QED BY <1>5, <1>6 DEF n, K, ask

LEMMA PortInfoGoesOn ==
  ASSUME Covered, Going, NEW smp \in wire, RecvPortInfo(smp) \/ ExtPortInfoDone(smp)
  PROVE  Going'
<1> DEFINE b == Beyond(scan, DOMAIN nodes)
           met == DOMAIN nodes
           K == Known(scan, met, remote)
           port == smp.port
           go == GoOn(port[1], port[2], smp.path, Arrival(smp.path)[2]).smps
           epi == port \in EpiPorts /\ smp.attr = "PortInfo"
           zero == port[2] = 0 /\ smp.attr = "PortInfo"
           on == IF epi THEN <<ExtPortInfo(smp.path, port)>> ELSE go
           more == IF zero THEN PortQueries(smp.path, port[1]) ELSE <<>>
<1>1. /\ Receives(smp) /\ UNCHANGED <<scan, nodes, remote, from, result>>
      /\ smp.attr \in {"PortInfo", "ExtPortInfo"}
      /\ info' = IF smp.attr = "PortInfo" THEN info \cup {port} ELSE info
  BY DEF RecvPortInfo, ExtPortInfoDone, Answered
<1>2. todo' = on \o more \/ (todo' = on /\ more = <<>>)
  <2>1. CASE RecvPortInfo(smp)
    BY <2>1 DEF RecvPortInfo, Answered
  <2>2. CASE ExtPortInfoDone(smp)
    BY <2>2 DEF ExtPortInfoDone
  <2> QED BY <2>1, <2>2
<1>3. /\ queue \in Seq(K) /\ wire \subseteq K /\ IsFiniteSet(wire) /\ scan \in Scans
      /\ smp \in Routed(scan, b) /\ b \in BOOLEAN /\ Reached /\ result # "init"
      /\ Pending(scan, Outstanding, met, info, remote)
      /\ ~RemoteCa(scan) /\ ScansCanGoOn /\ scan.hops = 0
  <2>1. result # "init"
    BY <1>1 DEF Receives
  <2> QED BY <2>1, CoveredFacts DEF Going, Flow, Covered
<1> HIDE DEF b, K
<1>4. /\ todo = <<>> /\ result = "scanning"
      /\ Outstanding \ {smp} \subseteq Queued' \cup wire'
      /\ wire' = {} => queue' = <<>>
  BY <1>1, <1>3, ReceivesAll
<1>5. queue' \in Seq(K) /\ wire' \subseteq K /\ smp \in K
  BY <1>1, <1>3, ReceivesRouted
<1>6. port \in Ports /\ port # NoPort /\ port = <<port[1], port[2]>> /\ port[2] \in Nat
  BY <1>1, <1>3, PortParts, FabricAssumption DEF Routed, NoPort
<1>7. port[1] \in met /\ from = StartOf(scan) /\ StartOf(scan)[1] \in met /\ met \in SUBSET Nodes
  BY <1>3, <1>5, <1>6 DEF K, Known, Reached
<1>8. /\ go \in Seq(K)
      /\ port \in DOMAIN Cable /\ (port[1] \in Switches \/ port = StartOf(scan))
           => remote[port] = Cable[port] \/ Followed(Items(go), port)
  BY <1>1, <1>3, <1>5, <1>7, GoOnFollows DEF K
<1> HIDE DEF go
<1>9. /\ on \in Seq(K)
      /\ port \in DOMAIN Cable /\ (port[1] \in Switches \/ port = StartOf(scan))
           => remote[port] = Cable[port] \/ Followed(Items(on), port)
  <2>1. CASE epi
    <3> DEFINE q == ExtPortInfo(smp.path, port)
    <3>1. q \in Smps /\ q.attr = "ExtPortInfo" /\ q.path = smp.path /\ q.port = port
      BY <1>5, <1>6 DEF ExtPortInfo, Smp, Smps, K, Known
    <3> HIDE DEF q
    <3>2. q \in K
      BY <1>1, <1>5, <3>1 DEF K, Known
    <3>3. Followed(Items(<<q>>), port)
      BY <3>1 DEF Followed, Items
    <3>4. on = <<q>>
      BY <2>1 DEF q
    <3> HIDE DEF on
    <3> QED BY <3>2, <3>3, <3>4
  <2>2. CASE ~epi
    BY <1>8, <2>2
  <2> QED BY <2>1, <2>2
<1>10. /\ more \in Seq(K)
       /\ zero => \A p \in 1..NumPorts[port[1]] : Asked(Items(more), <<port[1], p>>)
  <2>1. CASE zero
    <3>1. port[1] \in Switches
      <4>1. PICK n \in Nodes :
              port \in {<<n, p>> : p \in (IF n \in Switches THEN 0 ELSE 1)..NumPorts[n]}
        BY <1>6 DEF Ports
      <4> QED BY <2>1, <4>1
    <3>2. more = PortQueries(smp.path, port[1])
      BY <2>1
    <3> QED BY <1>1, <1>5, <1>6, <3>1, <3>2, PortQueriesKnown DEF K
  <2>2. CASE ~zero
    <3>1. <<>> \in Seq(K)
      OBVIOUS
    <3> QED BY <2>2, <3>1
  <2> QED BY <2>1, <2>2
<1>11. zero <=> (port[2] = 0 /\ smp.attr = "PortInfo")
  OBVIOUS
<1> HIDE DEF on, more, zero
<1>12. todo' \in Seq(K) /\ Items(on) \cup Items(more) \subseteq Items(todo')
  <2>1. CASE todo' = on \o more
    BY <1>9, <1>10, <2>1, ConcatProperties, ItemsOfConcat
  <2>2. CASE todo' = on /\ more = <<>>
    BY <1>9, <2>2 DEF Items
  <2> QED BY <1>2, <2>1, <2>2
<1>13. /\ Items(on) \cup Items(more) \subseteq Outstanding'
       /\ Outstanding \ {smp} \subseteq Outstanding'
  BY <1>4, <1>12 DEF Outstanding, Items
<1>14. /\ \A e : Asked(Items(more), e) => Asked(Outstanding', e)
       /\ \A e : Followed(Items(on), e) => Followed(Outstanding', e)
  BY <1>13 DEF Asked, Followed
<1>15. ASSUME NEW e, e \in info \/ Asked(Outstanding, e)
       PROVE  e \in info' \/ Asked(Outstanding', e)
  <2>1. CASE e \in info
    BY <1>1, <2>1
  <2>2. CASE Asked(Outstanding, e)
    <3>1. PICK q \in Outstanding : q.attr = "PortInfo" /\ q.port = e
      BY <2>2 DEF Asked
    <3>2. CASE q = smp
      BY <1>1, <3>1, <3>2
    <3>3. CASE q # smp
      BY <1>13, <3>1, <3>3 DEF Asked
    <3> QED BY <3>2, <3>3
  <2> QED BY <1>15, <2>1, <2>2
<1> HIDE DEF port
<1>16. Pending(scan, Outstanding', met, info', remote)
  <2>1. \A n \in met \cap Switches : <<n, 0>> \in info' \/ Asked(Outstanding', <<n, 0>>)
    BY <1>3, <1>15 DEF Pending
  <2>2. \A n \in Switches : \A p \in 1..NumPorts[n] :
          <<n, 0>> \in info' => <<n, p>> \in info' \/ Asked(Outstanding', <<n, p>>)
    <3> SUFFICES ASSUME NEW n \in Switches, NEW p \in 1..NumPorts[n], <<n, 0>> \in info'
                 PROVE  <<n, p>> \in info' \/ Asked(Outstanding', <<n, p>>)
      OBVIOUS
    <3>1. CASE <<n, 0>> \in info
      BY <1>3, <1>15, <3>1 DEF Pending
    <3>2. CASE <<n, 0>> \notin info
      <4>1. smp.attr = "PortInfo" /\ <<n, 0>> = port
        BY <1>1, <3>2 DEF port
      <4>2. port[1] = n /\ port[2] = 0
        BY <4>1
      <4> QED BY <1>10, <1>11, <1>14, <4>1, <4>2
    <3> QED BY <3>1, <3>2
  <2>3. StartOf(scan)[1] \in met \ Switches
          => StartOf(scan) \in info' \/ Asked(Outstanding', StartOf(scan))
    BY <1>3, <1>15 DEF Pending
  <2>4. ASSUME NEW e \in info' \cap DOMAIN Cable, e[1] \in Switches \/ e = StartOf(scan)
        PROVE  remote[e] = Cable[e] \/ Followed(Outstanding', e)
    <3>1. CASE e = port
      BY <1>9, <1>14, <2>4, <3>1
    <3>2. CASE e # port
      <4>1. e \in info
        BY <1>1, <3>2 DEF port
      <4>2. remote[e] = Cable[e] \/ Followed(Outstanding, e)
        BY <1>3, <2>4, <4>1 DEF Pending
      <4>3. Followed(Outstanding, e) => Followed(Outstanding', e)
        BY <1>13, <3>2 DEF Followed, port
      <4> QED BY <4>2, <4>3
    <3> QED BY <3>1, <3>2
  <2> QED BY <1>7, <2>1, <2>2, <2>3, <2>4 DEF Pending
<1>17. Reached'
  BY <1>1, <1>3 DEF Reached
<1>18. Flow'
  BY <1>1, <1>4, <1>5, <1>12 DEF Flow, K
<1> QED BY <1>1, <1>16, <1>17, <1>18 DEF Going

LEMMA StartGoesOn ==
  ASSUME Covered, Going, Start
  PROVE  Going'
<1> DEFINE q == NodeInfo(scan.path, NoPort)
           K == Known(scan, DOMAIN nodes, remote)
<1>1. /\ Idle /\ DOMAIN nodes = {} /\ info = {} /\ Reached /\ scan \in Scans
      /\ SendAll(<<q>>, {}) /\ result' = "scanning" /\ todo' = <<>>
      /\ UNCHANGED <<scan, nodes, info, remote, from>>
  BY DEF Covered, Going, Flow, Idle, Start, learnt
<1>2. q \in Smps /\ q.attr = "NodeInfo" /\ q.port = NoPort /\ q.path = scan.path
  BY <1>1, CoveredFacts DEF NodeInfo, Smp, Smps
<1> HIDE DEF q
<1>3. q \in K
  <2>1. Len(scan.path) \in Nat /\ Cardinality(DOMAIN nodes) = 0
    BY <1>1, CoveredFacts, FS_EmptySet, LenProperties
  <2> QED BY <1>2, <2>1 DEF Known
<1> HIDE DEF K
<1>4. <<q>> \in Seq(K) /\ Items(<<q>>) = {q} /\ IsFiniteSet({})
  BY <1>3, FS_EmptySet DEF Items
<1>5. q \in Queued' \cup wire' /\ (wire' = {} => queue' = <<>>)
  BY <1>1, <1>4, RefillAll
<1>6. queue' \in Seq(K) /\ wire' \subseteq K
  <2>1. {} \in SUBSET K
    OBVIOUS
  <2> QED BY <1>1, <1>4, <2>1, RefillKeeps
<1>7. <<>> \in Seq(K)
  OBVIOUS
<1>8. q \in Outstanding'
  BY <1>5 DEF Outstanding
<1>9. Pending(scan, Outstanding', DOMAIN nodes, info, remote)
  BY <1>1, <1>8 DEF Pending, q
<1>10. Reached'
  BY <1>1 DEF Reached
<1>11. Flow'
  BY <1>1, <1>5, <1>6, <1>7 DEF Flow, K
<1> QED BY <1>1, <1>9, <1>10, <1>11 DEF Going

LEMMA FinishGoesOn ==
  ASSUME Covered, Going, Finish
  PROVE  Going'
<1>1. /\ Idle /\ result = "scanning" /\ result' = "fabric"
      /\ UNCHANGED <<scan, queue, wire, todo, nodes, info, remote, from>>
  BY DEF Going, Flow, Idle, Finish, FabricReturned
<1>2. Outstanding' = Outstanding
  BY <1>1 DEF Outstanding, Queued
<1> QED BY <1>1, <1>2 DEF Going, Reached, Flow, Idle

LEMMA InitGoes == Init => WholeInv
<1> SUFFICES ASSUME Init PROVE WholeInv
  OBVIOUS
<1>1. DOMAIN nodes = {} /\ info = {} /\ result = "init" /\ Idle /\ faults = 0
      /\ remote = [e \in Ports |-> NoPort]
  BY DEF Init, Idle
<1>2. Reached
  BY <1>1 DEF Reached
<1>3. Flow
  <2>1. \A S : <<>> \in Seq(S)
    OBVIOUS
  <2> QED BY <1>1, <2>1 DEF Flow, Idle
<1> QED BY <1>1, <1>2, <1>3 DEF WholeInv, Going

LEMMA NextGoesOn ==
  ScansCanGoOn /\ IInv /\ RouteInv /\ WholeInv /\ [Next]_vars => WholeInv'
<1> SUFFICES ASSUME ScansCanGoOn, IInv, RouteInv, WholeInv, [Next]_vars PROVE WholeInv'
  OBVIOUS
<1> DEFINE Cover == faults = 0 /\ scan.hops = 0 /\ ~RemoteCa(scan)
<1>1. faults \in Nat /\ (Cover => Covered /\ Going)
  BY DEF WholeInv, Covered, IInv, Typing
<1>2. ASSUME faults' = faults + 1 PROVE WholeInv'
  BY <1>1, <1>2 DEF WholeInv
<1>3. ASSUME UNCHANGED <<scan, faults>>, Cover => Going' PROVE WholeInv'
  BY <1>1, <1>3 DEF WholeInv
<1> HIDE DEF Cover
<1>4. CASE Start
  BY <1>1, <1>3, <1>4, StartGoesOn DEF Start, learnt
<1>5. CASE StartFails
  BY <1>2, <1>5 DEF StartFails
<1>6. CASE IssueNext
  BY <1>1, <1>3, <1>6, IssueGoesOn DEF IssueNext, learnt
<1>7. CASE IssueNextFails
  BY <1>2, <1>7 DEF IssueNextFails
<1>8. ASSUME NEW smp \in wire, Recv(smp) PROVE WholeInv'
  <2>1. CASE RecvNodeInfo(smp)
    <3>1. UNCHANGED <<scan, faults>>
      BY <2>1 DEF RecvNodeInfo
    <3> QED BY <1>1, <1>3, <2>1, <3>1, NodeInfoGoesOn
  <2>2. CASE RecvDescription(smp)
    <3>1. UNCHANGED <<scan, faults>>
      BY <2>2 DEF RecvDescription, learnt
    <3> QED BY <1>1, <1>3, <2>2, <3>1, DescriptionGoesOn
  <2>3. CASE RecvPortInfo(smp)
    <3>1. UNCHANGED <<scan, faults>>
      BY <2>3 DEF RecvPortInfo
    <3> QED BY <1>1, <1>3, <2>3, <3>1, PortInfoGoesOn
  <2>4. CASE RecvExtPortInfo(smp)
    <3>1. UNCHANGED <<scan, faults>> /\ ExtPortInfoDone(smp)
      BY <2>4 DEF RecvExtPortInfo, ExtPortInfoDone
    <3> QED BY <1>1, <1>3, <3>1, PortInfoGoesOn
  <2>5. CASE RecvBadStatus(smp)
    BY <1>2, <2>5 DEF RecvBadStatus
  <2>6. CASE RefillFails(smp)
    BY <1>2, <2>6 DEF RefillFails
  <2> QED BY <1>8, <2>1, <2>2, <2>3, <2>4, <2>5, <2>6 DEF Recv
<1>9. CASE RecvFails
  BY <1>2, <1>9 DEF RecvFails
<1>10. CASE Finish
  BY <1>1, <1>3, <1>10, FinishGoesOn DEF Finish
<1>11. CASE UNCHANGED vars
  <2>1. Going => Going'
    BY <1>11 DEF vars, Going, Reached, Flow, Idle, Outstanding, Queued
  <2> QED BY <1>1, <1>3, <1>11, <2>1 DEF vars
<1> QED BY <1>4, <1>5, <1>6, <1>7, <1>8, <1>9, <1>10, <1>11 DEF Next

\* When nothing is outstanding any more, every cable that the scan follows was linked,
\* so no cable leads out of the nodes found.
LEMMA NothingIsLeft ==
  ASSUME ScansCanGoOn, IInv, Going, result = "fabric"
  PROVE  /\ DOMAIN nodes = Reachable
         /\ \A e \in Ports : e[1] \in Reachable \cap Switches => e \in info
         /\ \A e \in DOMAIN Cable : e[1] \in Reachable \cap Switches => remote[e] = Cable[e]
<1> DEFINE met == DOMAIN nodes
<1>1. /\ Reached /\ Pending(scan, Outstanding, met, info, remote)
      /\ Outstanding = {} /\ StartOf(scan) \in Ports /\ IsFiniteSet(Nodes)
  <2>1. scan \in Scans
    BY DEF IInv, Typing
  <2>2. StartOf(scan) \in Ports /\ IsFiniteSet(Nodes)
    BY <2>1 DEF ScansCanGoOn, StartOf
  <2>3. Idle
    BY DEF Going, Flow
  <2>4. Outstanding = {}
    BY <2>3 DEF Idle, Outstanding, Queued
  <2> QED BY <2>2, <2>4 DEF Going
<1>2. \A e : ~Asked(Outstanding, e) /\ ~Followed(Outstanding, e)
  BY <1>1 DEF Asked, Followed
<1>3. /\ StartOf(scan)[1] \in met
      /\ StartOf(scan)[1] \notin Switches => StartOf(scan) \in info
  BY <1>1, <1>2 DEF Pending
<1>4. ASSUME NEW e \in Ports, e[1] \in met \cap Switches
      PROVE  e \in info
  <2>1. <<e[1], 0>> \in info
    BY <1>1, <1>2, <1>4 DEF Pending
  <2>2. e = <<e[1], e[2]>> /\ e[2] \in 0..NumPorts[e[1]] /\ NumPorts[e[1]] \in Nat
    BY PortParts
  <2>3. e[2] = 0 \/ e[2] \in 1..NumPorts[e[1]]
    BY <2>2
  <2> QED BY <1>1, <1>2, <1>4, <2>1, <2>2, <2>3 DEF Pending
<1>5. ASSUME NEW e \in DOMAIN Cable, e[1] \in met, e[1] \in Switches \/ e = StartOf(scan)
      PROVE  remote[e] = Cable[e]
  <2>1. e \in info
    BY <1>3, <1>4, <1>5, CableIsPort
  <2> QED BY <1>1, <1>2, <1>5, <2>1 DEF Pending
<1>6. Closed(scan, met)
  <2> SUFFICES ASSUME NEW e \in DOMAIN Cable, e[1] \in met, e[1] \in Switches \/ e = StartOf(scan)
               PROVE  Cable[e][1] \in met
    BY DEF Closed
  <2>1. remote[e] = Cable[e] /\ e \in Ports
    BY <1>5, CableIsPort
  <2>2. Cable[e] # NoPort
    BY CableEnds, CableIsPort
  <2> QED BY <1>1, <2>1, <2>2 DEF Reached
<1>7. Reachable \subseteq met
  BY <1>1, <1>3, <1>6, ReachableIs
<1>8. met \subseteq Reachable
  BY <1>1, ReachableIs DEF Reached
<1> QED BY <1>4, <1>5, <1>7, <1>8

\* A scan without failures and without max_hops, that does not start at a CA reached
\* by a path, returns every node that switches lead to, every port of every switch and
\* every cable of a switch, whatever the fabric, its loops and parallel cables, the
\* number of SMPs on the wire and the order of the answers: no callback of ibnetdisc.c
\* (recv_node_info, recv_port_info, recv_port0_info, recv_mlnx_ext_port_info and its
\* error path) forgets to ask for what it is the last to know of.
THEOREM WholeFabricIsFound ==
  ASSUME ScansCanGoOn
  PROVE  Spec => []WholeFabric
<1>1. IInv /\ WholeInv => WholeFabric
  <2> SUFFICES ASSUME IInv, WholeInv, result = "fabric", faults = 0, scan.hops = 0,
                      ~StartsAtRemoteCa
               PROVE  /\ DOMAIN nodes = Reachable
                      /\ \A e \in Ports : e[1] \in Reachable \cap Switches => e \in info
                      /\ \A e \in DOMAIN Cable : e[1] \in Reachable \cap Switches
                           => remote[e] = Cable[e]
    BY DEF WholeFabric
  <2>1. ~RemoteCa(scan)
    BY DEF StartsAtRemoteCa, RemoteCa, Arrival
  <2>2. Going
    BY <2>1 DEF WholeInv
  <2> QED BY <2>2, NothingIsLeft
<1>2. IInv /\ RouteInv /\ WholeInv /\ [Next]_vars => WholeInv'
  BY NextGoesOn
<1>3. Spec => []RouteInv
  BY InitRouted, NextRouted, Invariant, PTL DEF Spec
<1>4. Spec => []WholeInv
  BY <1>2, <1>3, InitGoes, Invariant, PTL DEF Spec
<1> QED BY <1>1, <1>4, Invariant, PTL

-----------------------------------------------------------------------------
(***************************************************************************)
(* ibtracert.  The way of a packet, step by step.                          *)
(***************************************************************************)
\* f is the recursive function of Way, for k hops.
IsWay(f, tables, src, dest, k) ==
  f = [i \in 0..k |-> IF i = 0 THEN src
                      ELSE IF f[i - 1] = NoPort THEN NoPort
                      ELSE Forward(tables, f[i - 1], dest, i = 1)]

\* There is such a function, for every number of hops.
LEMMA WayExists ==
  ASSUME NEW tables, NEW src, NEW dest, NEW n \in Nat
  PROVE  \E f : IsWay(f, tables, src, dest, n)
<1> DEFINE On(e, i) == IF e = NoPort THEN NoPort ELSE Forward(tables, e, dest, i = 1)
           T == {k \in 0..n : ~\E f : IsWay(f, tables, src, dest, k)}
<1>0. \A f, k : IsWay(f, tables, src, dest, k)
                  <=> f = [i \in 0..k |-> IF i = 0 THEN src ELSE On(f[i - 1], i)]
  BY DEF IsWay
<1> HIDE DEF On
<1>1. SUFFICES ASSUME T # {} PROVE FALSE
  <2>1. n \in 0..n
    OBVIOUS
  <2> QED BY <2>1
<1>2. PICK k \in T : \A m \in T : k <= m
  <2>1. T \subseteq Nat
    OBVIOUS
  <2> HIDE DEF T
  <2> QED BY <1>1, <2>1, LeastNat
<1>3. k \in 0..n /\ ~\E f : IsWay(f, tables, src, dest, k)
  BY <1>2
<1>4. k # 0
  <2>1. 0..0 = {0}
    OBVIOUS
  <2>2. IsWay([i \in {0} |-> src], tables, src, dest, 0)
    BY <2>1, <1>0
  <2> QED BY <1>3, <2>2
<1>5. k - 1 \in 0..n /\ k - 1 \notin T
  <2>1. k - 1 \in 0..n /\ ~(k <= k - 1)
    BY <1>3, <1>4
  <2> HIDE DEF T
  <2> QED BY <1>2, <2>1
<1>6. PICK f : IsWay(f, tables, src, dest, k - 1)
  BY <1>5
<1> DEFINE g == [i \in 0..k |-> IF i = k THEN On(f[k - 1], k) ELSE f[i]]
<1>7. g = [i \in 0..k |-> IF i = 0 THEN src ELSE On(g[i - 1], i)]
  <2> SUFFICES ASSUME NEW i \in 0..k
               PROVE  g[i] = IF i = 0 THEN src ELSE On(g[i - 1], i)
    OBVIOUS
  <2>1. k \in Nat /\ i \in Nat
    BY <1>3
  <2>2. CASE i = k
    BY <1>4, <2>1, <2>2
  <2>3. CASE i # k
    <3>1. i \in 0..(k - 1) /\ g[i] = f[i]
      BY <2>1, <2>3
    <3>2. f[i] = IF i = 0 THEN src ELSE On(f[i - 1], i)
      BY <1>0, <1>6, <3>1
    <3>3. i # 0 => i - 1 \in 0..k /\ i - 1 # k
      BY <2>1
    <3> QED BY <3>1, <3>2, <3>3
  <2> QED BY <2>2, <2>3
<1> HIDE DEF g
<1> QED BY <1>0, <1>3, <1>7

\* Way is its last value.
LEMMA WayIs ==
  ASSUME NEW tables, NEW src, NEW dest, NEW k \in Nat
  PROVE  \E f : IsWay(f, tables, src, dest, k) /\ Way(tables, src, dest, k) = f[k]
<1> DEFINE F == CHOOSE f : IsWay(f, tables, src, dest, k)
<1>1. IsWay(F, tables, src, dest, k)
  BY WayExists
<1>2. Way(tables, src, dest, k) = F[k]
  BY DEF Way, IsWay
<1> QED BY <1>1, <1>2

\* A way is the beginning of every longer one.
LEMMA WayGrows ==
  ASSUME NEW tables, NEW src, NEW dest, NEW k \in Nat, NEW n \in 0..k, NEW f, NEW g,
         IsWay(f, tables, src, dest, n), IsWay(g, tables, src, dest, k)
  PROVE  f[n] = g[n]
<1> DEFINE T == {i \in 0..n : f[i] # g[i]}
           On(e, i) == IF e = NoPort THEN NoPort ELSE Forward(tables, e, dest, i = 1)
<1>1. \A i \in 0..n : /\ f[i] = IF i = 0 THEN src ELSE On(f[i - 1], i)
                      /\ g[i] = IF i = 0 THEN src ELSE On(g[i - 1], i)
  <2> TAKE i \in 0..n
  <2>1. i \in 0..k
    OBVIOUS
  <2> QED BY <2>1 DEF IsWay
<1> HIDE DEF On
<1>2. SUFFICES ASSUME T # {} PROVE FALSE
  <2>1. n \in 0..n
    OBVIOUS
  <2> QED BY <2>1
<1>3. PICK i \in T : \A j \in T : i <= j
  <2>1. T \subseteq Nat
    OBVIOUS
  <2> HIDE DEF T
  <2> QED BY <1>2, <2>1, LeastNat
<1>4. i \in 0..n /\ f[i] # g[i]
  BY <1>3
<1>5. i # 0
  BY <1>1, <1>4
<1>6. i - 1 \in 0..n /\ i - 1 \notin T
  BY <1>3, <1>4, <1>5
<1>7. f[i - 1] = g[i - 1]
  BY <1>6
<1> QED BY <1>1, <1>4, <1>5, <1>7

\* A packet starts at its source,
LEMMA WayBegins ==
  ASSUME NEW tables, NEW src, NEW dest
  PROVE  Way(tables, src, dest, 0) = src
<1>1. PICK f : IsWay(f, tables, src, dest, 0) /\ Way(tables, src, dest, 0) = f[0]
  BY WayIs
<1>2. 0 \in 0..0
  OBVIOUS
<1> QED BY <1>1, <1>2 DEF IsWay

\* and goes from each port as that port forwards it.
LEMMA WayGoesOn ==
  ASSUME NEW tables, NEW src, NEW dest, NEW k \in Nat
  PROVE  LET e == Way(tables, src, dest, k)
         IN  Way(tables, src, dest, k + 1)
               = IF e = NoPort THEN NoPort ELSE Forward(tables, e, dest, k = 0)
<1>1. PICK f : IsWay(f, tables, src, dest, k) /\ Way(tables, src, dest, k) = f[k]
  BY WayIs
<1>2. PICK g : IsWay(g, tables, src, dest, k + 1) /\ Way(tables, src, dest, k + 1) = g[k + 1]
  BY WayIs
<1>3. f[k] = g[k]
  <2>1. k \in 0..(k + 1)
    OBVIOUS
  <2> QED BY <1>1, <1>2, <2>1, WayGrows
<1>4. k + 1 \in 0..(k + 1) /\ (k + 1) - 1 = k /\ k + 1 # 0 /\ ((k + 1 = 1) = (k = 0))
  OBVIOUS
<1> QED BY <1>1, <1>2, <1>3, <1>4 DEF IsWay

-----------------------------------------------------------------------------
(***************************************************************************)
(* The trace keeps to its directed route: OnRoute is what makes the table  *)
(* of the switch asked the one of the switch the packet is at.             *)
(***************************************************************************)
\* Where the directed route leads.
PathEnd == ArrivalFrom(job.base, path)

TraceTyping ==
  /\ run \in Runs
  /\ pairs \in 1..Len(run)
  /\ job \in Jobs
  /\ leg \in {1, 2}
  /\ pc \in {"start", "loop", "mcast", "done", "failed"}
  /\ path \in Seq(Nat)
  /\ trail \in Seq([out : Nat, port : Ports])
  /\ hops \in 0..MaxHops
  /\ pc = "loop" => /\ {fromport, here} \subseteq Ports
                    /\ toport \in {NoPort, Target}
  /\ pc = "mcast" => job.mcast /\ leg = 2
  /\ pc = "loop" => ~(job.mcast /\ leg = 2)
  /\ pc = "start" \/ leg = 1 \/ job.mcast => trail = <<>>
  /\ pc = "start" /\ leg = 1 => path = <<>>

\* The directed route leads to the node the trace is at, and to the port it is at if
\* that is a CA; if this host is a CA, the route leaves it by its own port.
OnRoute ==
  /\ path # <<>> /\ job.base[1] \notin Switches => path[1] = job.base[2]
  /\ pc = "loop" =>
       /\ PathEnd \in Ports
       /\ PathEnd[1] = here[1]
       /\ here[1] \notin Switches => PathEnd = here
       /\ NextEntry(here) = out \/ here[1] \notin Switches
       /\ ~BadTable(here)
  /\ pc = "start" /\ leg = 2 /\ ~job.mcast =>
       /\ PathEnd \in Ports
       /\ IsAsked(PathEnd, job.src)

TraceInv == TraceTyping /\ OnRoute

\* The ports and the table entries a trace deals with.
LEMMA JobParts ==
  ASSUME NEW j \in Jobs
  PROVE  /\ j.base \in Ports /\ j.src \in Ports /\ j.dest \in Ports
         /\ j.mcast \in BOOLEAN /\ j.force \in BOOLEAN
         /\ \A n \in Switches : /\ j.tables[n][LidOf[j.src]] \in 0..255
                                /\ j.tables[n][LidOf[j.dest]] \in 0..255
BY RouteTraceAssumption

LEMMA NoPortIsNone == NoPort \notin Ports
BY PortParts, FabricAssumption DEF NoPort

\* An entry that is not bad is the one in the table.
LEMMA GoodEntry ==
  ASSUME job \in Jobs, leg \in {1, 2}, NEW e \in Ports, e[1] \in Switches, ~BadTable(e)
  PROVE  /\ NextEntry(e) = job.tables[e[1]][Lid]
         /\ NextEntry(e) \in 0..NumPorts[e[1]]
         /\ NextEntry(e) \in Nat
<1> DEFINE entry == job.tables[e[1]][Lid]
<1>1. entry \in 0..255
  BY JobParts DEF Lid, Target
<1>2. NumPorts[e[1]] \in Nat
  BY PortParts
<1>3. NextEntry(e) = Lookup(e[1]) /\ ~BadEntry(e[1], Lookup(e[1]))
  BY DEF NextEntry, BadTable, IsSwitch
<1>4. Lookup(e[1]) = IF entry > 127 THEN entry - 256 ELSE entry
  BY DEF Lookup
<1>5. ~(Lookup(e[1]) < 0 \/ Lookup(e[1]) > NumPorts[e[1]])
  BY <1>3 DEF BadEntry
<1>6. Lookup(e[1]) = entry /\ entry \in 0..NumPorts[e[1]] /\ entry \in Nat
  <2> HIDE DEF entry
  <2> QED BY <1>1, <1>2, <1>4, <1>5
<1> QED BY <1>3, <1>6

\* Where one hop leads.
LEMMA HopOnto ==
  ASSUME NEW at \in Ports, NEW p \in Nat, NEW first, Hop(at, p, first) \in Ports
  PROVE  /\ first \/ at[1] \in Switches
         /\ \/ <<at[1], p>> \in DOMAIN Cable /\ Hop(at, p, first) = Cable[<<at[1], p>>]
            \/ p = 0 /\ at[1] \in Switches /\ Hop(at, p, first) = <<at[1], 0>>
<1>1. at # NoPort
  BY NoPortIsNone
<1> QED BY <1>1, NoPortIsNone DEF Hop

\* A path that is not empty is a shorter one and a hop.
LEMMA PathSplits ==
  ASSUME NEW base, NEW p \in Seq(Nat), p # <<>>
  PROVE  LET q == SubSeq(p, 1, Len(p) - 1)
             last == p[Len(p)]
         IN  /\ q \in Seq(Nat) /\ last \in Nat
             /\ Len(p) \in Nat \ {0} /\ Len(q) = Len(p) - 1
             /\ \A i \in 1..(Len(p) - 1) : q[i] = p[i]
             /\ ArrivalFrom(base, p) = Hop(ArrivalFrom(base, q), last, q = <<>>)
<1> DEFINE q == SubSeq(p, 1, Len(p) - 1)
           last == p[Len(p)]
<1>1. Len(p) \in Nat \ {0} /\ \A i \in 1..Len(p) : p[i] \in Nat
  BY EmptySeq, ElementOfSeq
<1>0. 1 \in Int /\ Len(p) - 1 \in Int /\ Len(p) \in 1..Len(p)
      /\ \A i \in 1..(Len(p) - 1) : i \in 1..Len(p)
  BY <1>1
<1>2. q \in Seq(Nat) /\ Len(q) = Len(p) - 1 /\ last \in Nat
  <2>1. \A i \in 1..(Len(p) - 1) : p[i] \in Nat
    BY <1>0, <1>1
  <2>2. /\ q \in Seq(Nat)
        /\ Len(q) = IF 1 <= Len(p) - 1 THEN (Len(p) - 1) - 1 + 1 ELSE 0
    BY <1>0, <2>1, SubSeqProperties
  <2>3. last \in Nat
    BY <1>0, <1>1
  <2>4. \A l \in Nat \ {0} : (IF 1 <= l - 1 THEN l - 1 - 1 + 1 ELSE 0) = l - 1
    OBVIOUS
  <2> QED BY <1>1, <2>2, <2>3, <2>4, Zenon
<1>3. \A i \in 1..(Len(p) - 1) : q[i] = p[i]
  <2>1. \A i \in 1..(Len(p) - 1) : p[i] \in Nat
    BY <1>0, <1>1
  <2> QED BY <1>0, <1>1, <2>1, SubSeqProperties
<1>4. Append(q, last) = p
  <2>1. Append(q, last) \in Seq(Nat) /\ Len(Append(q, last)) = Len(p)
    BY <1>1, <1>2, AppendProperties
  <2>2. \A i \in 1..Len(p) : Append(q, last)[i] = p[i]
    BY <1>1, <1>2, <1>3, AppendProperties
  <2> HIDE DEF q, last
  <2> QED BY <2>1, <2>2, SeqEqual
<1> HIDE DEF q, last
<1>5. ArrivalFrom(base, p) = Hop(ArrivalFrom(base, q), last, q = <<>>)
  BY <1>2, <1>4, ArrivalAppend
<1> QED BY <1>1, <1>2, <1>3, <1>5 DEF q, last

LEMMA PortIsPair ==
  ASSUME NEW a \in Ports, NEW b \in Ports, a[1] = b[1], a[2] = b[2]
  PROVE  a = b
BY PortParts

\* A turn that goes on follows a cable: forth from the node it is at, or back along
\* the path to a CA.
LEMMA Advancing ==
  ASSUME TraceInv, Advance
  PROVE  /\ here \in Ports /\ here' \in Ports /\ At \in Ports /\ here'[1] = At[1]
         /\ At[1] \notin Switches => here' = At
         /\ path' \in Seq(Nat) /\ PathEnd' = At
         /\ path' # <<>> /\ job.base[1] \notin Switches => path'[1] = job.base[2]
         /\ StepsBack => /\ here' \in DOMAIN Cable /\ Cable[here'] = here
                         /\ Len(path') = Len(path) - 1
         /\ ~StepsBack => /\ <<here[1], outport>> \in DOMAIN Cable
                          /\ here' = Cable[<<here[1], outport>>]
                          /\ Len(path') = Len(path) + 1
         /\ outport \in Nat /\ Len(path) \in Nat
<1> DEFINE b == job.base
           last == path[Len(path)]
<1>1. /\ job \in Jobs /\ job' = job /\ leg \in {1, 2} /\ path \in Seq(Nat) /\ here \in Ports
      /\ b \in Ports
      /\ path # <<>> /\ b[1] \notin Switches => path[1] = b[2]
      /\ PathEnd \in Ports /\ PathEnd[1] = here[1]
      /\ here[1] \notin Switches => PathEnd = here
      /\ NextEntry(here) = out \/ here[1] \notin Switches
      /\ ~BadTable(here)
  BY JobParts DEF TraceInv, TraceTyping, OnRoute, Advance, Turning
<1>2. /\ At \in Ports /\ here' = Facing(At) /\ path' = next
      /\ IsSwitch(here) \/ AtStart
      /\ ~(IsSwitch(here) /\ outport = 0)
  BY DEF Advance, Blocked
<1>3. outport \in Nat
  <2>1. CASE IsSwitch(here)
    <3>1. NextEntry(here) \in Nat
      BY <1>1, <2>1, GoodEntry DEF IsSwitch
    <3> QED BY <1>1, <2>1, <3>1 DEF outport, IsSwitch
  <2>2. CASE ~IsSwitch(here)
    BY <1>1, <2>2, PortParts DEF outport
  <2> QED BY <2>1, <2>2
<1>4. Len(path) \in Nat
  BY <1>1, LenProperties
<1>5. PathEnd' = At
  BY <1>1, <1>2 DEF PathEnd, At
<1>6. ArrivalFrom(b, <<>>) = b
  BY ArrivalEmpty
<1>7. ASSUME ~StepsBack
      PROVE  /\ here' = At
             /\ path' \in Seq(Nat) /\ Len(path') = Len(path) + 1
             /\ <<here[1], outport>> \in DOMAIN Cable /\ At = Cable[<<here[1], outport>>]
             /\ b[1] \notin Switches => path'[1] = b[2]
  <2>1. here' = At /\ path' = Append(path, outport)
    BY <1>2, <1>7 DEF Facing, next
  <2>2. At = Hop(PathEnd, outport, path = <<>>)
    <3>1. At = ArrivalFrom(b, Append(path, outport))
      BY <1>2, <2>1 DEF At
    <3> QED BY <1>1, <1>3, <3>1, ArrivalAppend DEF PathEnd
  <2>3. path' \in Seq(Nat) /\ Len(path') = Len(path) + 1
        /\ path' [1] = IF path = <<>> THEN outport ELSE path[1]
    <3>1. /\ Append(path, outport) \in Seq(Nat)
          /\ Len(Append(path, outport)) = Len(path) + 1
          /\ \A i \in 1..Len(path) : Append(path, outport)[i] = path[i]
          /\ Append(path, outport)[Len(path) + 1] = outport
      BY <1>1, <1>3, AppendProperties
    <3>2. CASE path = <<>>
      <4>1. Len(path) = 0
        BY <3>2
      <4> QED BY <2>1, <3>1, <3>2, <4>1
    <3>3. CASE path # <<>>
      <4>1. Len(path) \in Nat \ {0}
        BY <1>1, <3>3, EmptySeq
      <4>2. 1 \in 1..Len(path)
        BY <4>1
      <4> QED BY <2>1, <3>1, <3>3, <4>2
    <3> QED BY <3>2, <3>3
  <2>4. /\ path = <<>> \/ here[1] \in Switches
        /\ \/ <<here[1], outport>> \in DOMAIN Cable /\ At = Cable[<<here[1], outport>>]
           \/ outport = 0 /\ here[1] \in Switches
    <3>1. Hop(PathEnd, outport, path = <<>>) \in Ports
      BY <1>2, <2>2
    <3>2. /\ path = <<>> \/ PathEnd[1] \in Switches
          /\ \/ /\ <<PathEnd[1], outport>> \in DOMAIN Cable
                /\ Hop(PathEnd, outport, path = <<>>) = Cable[<<PathEnd[1], outport>>]
             \/ /\ outport = 0 /\ PathEnd[1] \in Switches
                /\ Hop(PathEnd, outport, path = <<>>) = <<PathEnd[1], 0>>
      BY <1>1, <1>3, <3>1, HopOnto
    <3> QED BY <1>1, <2>2, <3>2
  <2>5. <<here[1], outport>> \in DOMAIN Cable /\ At = Cable[<<here[1], outport>>]
    BY <1>2, <2>4 DEF IsSwitch
  <2>6. b[1] \notin Switches => path'[1] = b[2]
    <3>1. CASE path = <<>>
      <4>1. PathEnd = b
        BY <1>6, <3>1 DEF PathEnd
      <4>2. b[1] \notin Switches => here = b /\ outport = b[2]
        BY <1>1, <4>1 DEF outport, IsSwitch
      <4> QED BY <2>3, <3>1, <4>2
    <3> QED BY <1>1, <2>3, <3>1
  <2> QED BY <2>1, <2>3, <2>5, <2>6
<1>8. ASSUME StepsBack
      PROVE  /\ path' \in Seq(Nat) /\ Len(path') = Len(path) - 1
             /\ here' \in DOMAIN Cable /\ Cable[here'] = here
             /\ here'[1] = At[1]
             /\ At[1] \notin Switches => here' = At
             /\ path' # <<>> /\ b[1] \notin Switches => path'[1] = b[2]
  <2>1. here[1] \notin Switches /\ path # <<>>
    BY <1>8 DEF StepsBack, AtStart, IsSwitch
  <2>2. here' = <<At[1], last>> /\ path' = SubSeq(path, 1, Len(path) - 1)
    BY <1>2, <1>8 DEF Facing, next
  <2>3. /\ path' \in Seq(Nat) /\ last \in Nat
        /\ Len(path) \in Nat \ {0} /\ Len(path') = Len(path) - 1
        /\ \A i \in 1..(Len(path) - 1) : path'[i] = path[i]
        /\ PathEnd = Hop(At, last, path' = <<>>)
    <3>1. At = ArrivalFrom(b, path')
      BY <1>2 DEF At
    <3> QED BY <1>1, <2>1, <2>2, <3>1, PathSplits DEF PathEnd
  <2>4. PathEnd = here
    BY <1>1, <2>1
  <2>5. /\ path' = <<>> \/ At[1] \in Switches
        /\ <<At[1], last>> \in DOMAIN Cable /\ here = Cable[<<At[1], last>>]
    <3>1. /\ path' = <<>> \/ At[1] \in Switches
          /\ \/ <<At[1], last>> \in DOMAIN Cable /\ here = Cable[<<At[1], last>>]
             \/ At[1] \in Switches /\ here = <<At[1], 0>>
      <4>1. Hop(At, last, path' = <<>>) \in Ports
        BY <1>1, <2>3
      <4>2. /\ path' = <<>> \/ At[1] \in Switches
            /\ \/ /\ <<At[1], last>> \in DOMAIN Cable
                  /\ Hop(At, last, path' = <<>>) = Cable[<<At[1], last>>]
               \/ /\ last = 0 /\ At[1] \in Switches
                  /\ Hop(At, last, path' = <<>>) = <<At[1], 0>>
        <5> DEFINE first == path' = <<>>
        <5>1. At \in Ports /\ last \in Nat /\ Hop(At, last, first) \in Ports
          BY <1>2, <2>3, <4>1
        <5> HIDE DEF first, last
        <5>2. /\ first \/ At[1] \in Switches
              /\ \/ /\ <<At[1], last>> \in DOMAIN Cable
                    /\ Hop(At, last, first) = Cable[<<At[1], last>>]
                 \/ /\ last = 0 /\ At[1] \in Switches
                    /\ Hop(At, last, first) = <<At[1], 0>>
          BY <5>1, HopOnto
        <5> QED BY <5>2 DEF first, last
      <4> QED BY <2>3, <2>4, <4>2
    <3> QED BY <2>1, <3>1
  <2>6. Cable[here'] = here /\ here' \in DOMAIN Cable
    BY <2>2, <2>5
  <2>7. ASSUME At[1] \notin Switches PROVE here' = At
    <3>1. path' = <<>> /\ At = b
      BY <1>2, <1>6, <2>5, <2>7 DEF At
    <3>2. Len(path) = 1
      <4>1. Len(path') = 0
        BY <3>1
      <4> QED BY <2>3, <4>1
    <3>3. last = b[2]
      BY <1>1, <2>1, <2>7, <3>1, <3>2
    <3>4. b = <<b[1], b[2]>>
      BY <1>1, PortParts
    <3> QED BY <2>2, <3>1, <3>3, <3>4
  <2>8. ASSUME path' # <<>>, b[1] \notin Switches PROVE path'[1] = b[2]
    <3>1. Len(path') \in Nat \ {0}
      BY <2>3, <2>8, EmptySeq
    <3>2. 1 \in 1..(Len(path) - 1)
      BY <2>3, <3>1
    <3> QED BY <1>1, <2>1, <2>3, <2>8, <3>2
  <2>9. here'[1] = At[1]
    BY <2>2
  <2> QED BY <2>3, <2>6, <2>7, <2>8, <2>9
<1>9. here' \in Ports
  BY <1>2, <1>7, <1>8, CableIsPort
<1> QED BY <1>1, <1>2, <1>3, <1>4, <1>5, <1>7, <1>8, <1>9

-----------------------------------------------------------------------------
(***************************************************************************)
(* What leg 2 prints is what packets do, until it comes back to a source   *)
(* that is a CA.  Every hop is one of Way only if the trace was where the  *)
(* way was before: TrailInv ties here to the end of the trail.             *)
(***************************************************************************)
\* Hop k of what is printed is the one a packet takes.
Follows(k) ==
  /\ trail[k].port = Way(job.tables, job.src, job.dest, k)
  /\ Cable[<<Way(job.tables, job.src, job.dest, k - 1)[1], trail[k].out>>] = trail[k].port

\* The trail has led back to where leg 2 started, by its hop k.
Returned(k) == \E j \in 1..k : SameGuid(trail[j].port, fromport)

TrailInv ==
  /\ pc = "loop" /\ leg = 2 =>
       /\ IsAsked(fromport, job.src)
       /\ here = IF trail = <<>> THEN fromport ELSE trail[Len(trail)].port
  /\ pc = "done" /\ ~job.mcast => IsAsked(here, job.dest)
  /\ \A k \in 1..Len(trail) : Returned(k - 1) \/ Follows(k)

RouteOk == TraceInv /\ TrailInv

\* If LIDs differ, what was asked for is the port, also with -f.
LEMMA AskedIsIt ==
  ASSUME LidsDiffer, job \in Jobs, NEW e \in Ports, NEW f \in {job.src, job.dest}, IsAsked(e, f)
  PROVE  SameGuid(e, f)
BY DEF LidsDiffer, IsAsked

\* What SamePort accepts was asked for.
LEMMA SameIsAsked ==
  ASSUME pc = "loop", toport \in {NoPort, Target}, NEW e, SamePort(e)
  PROVE  IsAsked(e, Target)
BY DEF SamePort, IsAsked, Lid

\* The trace ends, or a search for a group begins or goes on.
LEMMA Ends ==
  ASSUME RouteOk, UNCHANGED <<run, job, leg, path, trail>>, pairs' = pairs, hops' \in 0..MaxHops,
         pc' \in {"mcast", "done", "failed"}, fromport' = fromport \/ trail = <<>>,
         pc' = "mcast" => job.mcast /\ leg = 2,
         pc' = "done" /\ ~job.mcast => IsAsked(here', job.dest)
  PROVE  RouteOk'
<1>1. TraceTyping'
  BY DEF RouteOk, TraceInv, TraceTyping
<1>2. OnRoute'
  BY DEF RouteOk, TraceInv, OnRoute
<1>3. TrailInv'
  <2>1. (\A k \in 1..Len(trail) : Returned(k - 1) \/ Follows(k))'
    <3>1. CASE trail = <<>>
      <4>1. Len(trail') = 0
        BY <3>1
      <4> QED BY <4>1
    <3>2. CASE fromport' = fromport
      BY <3>2 DEF RouteOk, TrailInv, Returned, Follows
    <3> QED BY <3>1, <3>2
  <2>2. (pc = "done" /\ ~job.mcast => IsAsked(here, job.dest))'
    BY DEF IsAsked, LidAt
  <2> QED BY <2>1, <2>2 DEF TrailInv
<1> QED BY <1>1, <1>2, <1>3 DEF RouteOk, TraceInv

\* One lemma for each action.
LEMMA StartKeeps ==
  ASSUME RouteOk, StartRoute, UNCHANGED mvars, ~(job.mcast /\ leg = 2)
  PROVE  RouteOk'
<1> DEFINE at == ArrivalFrom(job.base, path)
<1>1. /\ pc = "start" /\ trail = <<>> /\ UNCHANGED <<job, leg, path, trail, hops, run, pairs>>
  BY DEF RouteOk, TraceInv, TraceTyping, StartRoute, Fail, mvars
<1>2. hops \in 0..MaxHops
  BY DEF RouteOk, TraceInv, TraceTyping
<1>3. CASE pc' = "failed"
  BY <1>1, <1>2, <1>3, Ends
<1>4. CASE pc' # "failed"
  <2>1. PICK answers \in BOOLEAN :
          /\ at \in Ports /\ (answers \/ job.force) /\ ~BadTable(at)
          /\ pc' = "loop" /\ fromport' = at /\ here' = at
          /\ toport' = IF answers THEN Target ELSE NoPort
          /\ out' = NextEntry(at)
    BY <1>4 DEF StartRoute, Fail
  <2>2. TraceTyping'
    BY <1>1, <2>1 DEF RouteOk, TraceInv, TraceTyping, Target
  <2>3. PathEnd' = at /\ at = PathEnd
    BY <1>1 DEF PathEnd
  <2>4. OnRoute'
    <3>1. (path # <<>> /\ job.base[1] \notin Switches => path[1] = job.base[2])'
      BY <1>1 DEF RouteOk, TraceInv, OnRoute
    <3>2. (NextEntry(here) = out \/ here[1] \notin Switches)'
      BY <1>1, <2>1 DEF NextEntry, Lookup, Lid, Target, IsSwitch
    <3>3. (~BadTable(here))'
      BY <1>1, <2>1 DEF BadTable, BadEntry, Lookup, Lid, Target, IsSwitch
    <3>4. (PathEnd \in Ports /\ PathEnd[1] = here[1] /\ (here[1] \notin Switches => PathEnd = here))'
      BY <2>1, <2>3
    <3> QED BY <2>1, <3>1, <3>2, <3>3, <3>4 DEF OnRoute
  <2>5. TrailInv'
    <3>1. leg = 2 => IsAsked(PathEnd, job.src)
      BY <1>1 DEF RouteOk, TraceInv, OnRoute, TraceTyping
    <3>2. leg' = 2 => IsAsked(fromport, job.src)'
      BY <1>1, <2>1, <2>3, <3>1 DEF IsAsked, LidAt, IsSwitch, SameGuid
    <3>3. Len(trail') = 0
      BY <1>1
    <3> QED BY <1>1, <2>1, <3>2, <3>3 DEF TrailInv
  <2> QED BY <2>2, <2>4, <2>5 DEF RouteOk, TraceInv
<1> QED BY <1>3, <1>4

LEMMA ArriveKeeps ==
  ASSUME RouteOk, Arrive, UNCHANGED mvars
  PROVE  RouteOk'
<1>1. /\ pc = "loop" /\ SamePort(here) /\ hops \in 0..MaxHops /\ hops > 0 /\ MaxHops \in Nat
      /\ toport \in {NoPort, Target} /\ here \in Ports /\ leg \in {1, 2}
      /\ ~(job.mcast /\ leg = 2) /\ UNCHANGED <<run, pairs, job, path, here, trail>>
  BY RouteTraceAssumption DEF RouteOk, TraceInv, TraceTyping, Arrive, Turning, Found, Fail, mvars
<1>2. IsAsked(here, Target)
  BY <1>1, SameIsAsked
<1>3. CASE hops - 1 <= 0
  <2>1. pc' = "failed" /\ hops' = hops - 1 /\ UNCHANGED <<leg, fromport>>
    BY <1>3 DEF Arrive, Found, Fail
  <2>2. hops' \in 0..MaxHops
    BY <1>1, <2>1
  <2> QED BY <1>1, <2>1, <2>2, Ends
<1>4. CASE ~(hops - 1 <= 0) /\ leg = 2
  <2>1. pc' = "done" /\ hops' = hops - 1 /\ leg' = leg /\ UNCHANGED fromport
    BY <1>4 DEF Arrive, Found
  <2>2. hops' \in 0..MaxHops
    BY <1>1, <2>1
  <2>3. IsAsked(here', job.dest)
    BY <1>1, <1>2, <1>4 DEF Target
  <2> QED BY <1>1, <2>1, <2>2, <2>3, Ends
<1>5. CASE ~(hops - 1 <= 0) /\ leg = 1
  <2>1. pc' = "start" /\ hops' = MaxHops /\ leg' = 2 /\ UNCHANGED fromport
    BY <1>5 DEF Arrive, Found
  <2>2. trail = <<>>
    BY <1>5 DEF RouteOk, TraceInv, TraceTyping
  <2>3. TraceTyping'
    BY <1>1, <2>1, <2>2 DEF RouteOk, TraceInv, TraceTyping
  <2>4. PathEnd \in Ports /\ IsAsked(PathEnd, job.src)
    <3>1. PathEnd \in Ports /\ PathEnd[1] = here[1] /\ (here[1] \notin Switches => PathEnd = here)
      BY <1>1 DEF RouteOk, TraceInv, OnRoute
    <3>2. IsAsked(here, job.src)
      BY <1>2, <1>5 DEF Target
    <3> QED BY <3>1, <3>2 DEF IsAsked, SameGuid, LidAt, IsSwitch
  <2>5. OnRoute'
    <3>1. (path # <<>> /\ job.base[1] \notin Switches => path[1] = job.base[2])'
      BY <1>1 DEF RouteOk, TraceInv, OnRoute
    <3>2. PathEnd' = PathEnd /\ IsAsked(PathEnd, job.src)'
      BY <1>1, <2>4 DEF PathEnd, IsAsked, LidAt, IsSwitch, SameGuid
    <3> QED BY <2>1, <2>4, <3>1, <3>2 DEF OnRoute
  <2>6. TrailInv'
    <3>1. Len(trail') = 0
      BY <1>1, <2>2
    <3> QED BY <2>1, <3>1 DEF TrailInv
  <2> QED BY <2>3, <2>5, <2>6 DEF RouteOk, TraceInv
<1> QED BY <1>1, <1>3, <1>4, <1>5

LEMMA GivenUpKeeps ==
  ASSUME RouteOk, GiveUp \/ Stop \/ Lose, UNCHANGED mvars
  PROVE  RouteOk'
<1>1. /\ pc' = "failed" /\ UNCHANGED <<run, pairs, job, leg, path, fromport, trail>>
  BY DEF GiveUp, Stop, Lose, Fail, mvars
<1>2. hops \in 0..MaxHops /\ MaxHops \in Nat
  BY RouteTraceAssumption DEF RouteOk, TraceInv, TraceTyping
<1>3. hops' = hops \/ (hops > 0 /\ hops' = hops - 1)
  BY DEF GiveUp, Stop, Lose, Turning
<1>4. hops' \in 0..MaxHops
  BY <1>2, <1>3
<1> QED BY <1>1, <1>4, Ends

LEMMA McKeeps ==
  ASSUME RouteOk,
         McStart \/ McVisit \/ McNextDist \/ McNotFound \/ McAbandon \/ McPortDown \/ McSkip
         \/ McFound \/ McMeet
  PROVE  RouteOk'
<1>1. /\ pc = "mcast" \/ McStart
      /\ UNCHANGED <<run, pairs, job, leg, path, hops, trail>>
      /\ pc' \in {"mcast", "done", "failed"}
  BY DEF McStart, McVisit, McNextDist, McNotFound, McAbandon, McPortDown, McSkip, McFound, McMeet,
         Following, Reaches, McReturns, McGoesOn, tracevars, mvars
<1>2. job.mcast /\ leg = 2
  BY <1>1 DEF McStart, RouteOk, TraceInv, TraceTyping
<1>3. trail = <<>> /\ hops \in 0..MaxHops
  BY <1>2 DEF RouteOk, TraceInv, TraceTyping
<1> QED BY <1>1, <1>2, <1>3, Ends

LEMMA PairKeeps ==
  ASSUME RouteOk, NextPair
  PROVE  RouteOk'
<1>1. run \in Runs /\ pairs \in 1..Len(run) /\ MaxHops \in Nat
  BY RouteTraceAssumption DEF RouteOk, TraceInv, TraceTyping
<1>2. run \in Seq(Jobs) /\ Len(run) \in Nat
  BY <1>1, TracertAssumption, LenProperties
<1>3. pairs + 1 \in 1..Len(run)
  BY <1>1, <1>2 DEF NextPair
<1>4. job' \in Jobs
  BY <1>2, <1>3, ElementOfSeq DEF NextPair
<1>5. <<>> \in Seq(Nat) /\ <<>> \in Seq([out : Nat, port : Ports]) /\ Len(<<>>) = 0
  OBVIOUS
<1>6. TraceTyping'
  BY <1>1, <1>3, <1>4, <1>5 DEF TraceTyping, NextPair
<1> QED BY <1>5, <1>6 DEF RouteOk, TraceInv, OnRoute, TrailInv, NextPair

LEMMA InitRoute == TracertInit => RouteOk
<1> SUFFICES ASSUME TracertInit PROVE RouteOk
  OBVIOUS
<1>1. run \in Runs /\ pairs = 1 /\ job = run[1] /\ MaxHops \in Nat
  BY RouteTraceAssumption DEF TracertInit
<1>2. run \in Seq(Jobs) /\ Len(run) \in Nat \ {0}
  BY <1>1, TracertAssumption, EmptySeq
<1>3. 1 \in 1..Len(run)
  BY <1>2
<1>4. job \in Jobs
  BY <1>1, <1>2, <1>3, ElementOfSeq
<1>5. <<>> \in Seq(Nat) /\ <<>> \in Seq([out : Nat, port : Ports]) /\ Len(<<>>) = 0
  OBVIOUS
<1>6. TraceTyping
  BY <1>1, <1>3, <1>4, <1>5 DEF TraceTyping, TracertInit, Begins
<1> QED BY <1>5, <1>6 DEF RouteOk, TraceInv, OnRoute, TrailInv, TracertInit, Begins

\* The next hop is the one a packet takes from where the trace is.
LEMMA NextHop ==
  ASSUME RouteOk, Advance,
         NEW e, SameGuid(here, e), NEW first, here[1] \notin Switches => first
  PROVE  /\ here' = Forward(job.tables, e, Target, first)
         /\ here' = Cable[<<here[1], outport>>]
<1>1. /\ job \in Jobs /\ leg \in {1, 2} /\ pc = "loop"
      /\ NextEntry(here) = out \/ here[1] \notin Switches
      /\ ~BadTable(here)
      /\ IsSwitch(here) \/ AtStart
  BY DEF RouteOk, TraceInv, TraceTyping, OnRoute, Advance, Turning, Blocked
<1>2. TraceInv
  BY DEF RouteOk
<1>3. /\ here \in Ports
      /\ StepsBack => here' \in DOMAIN Cable /\ Cable[here'] = here
      /\ ~StepsBack => /\ <<here[1], outport>> \in DOMAIN Cable
                       /\ here' = Cable[<<here[1], outport>>]
  BY <1>2, Advancing
<1>4. here = <<here[1], here[2]>>
  BY <1>3, PortParts
<1>5. CASE here[1] \in Switches
  <2>1. ~StepsBack /\ outport = out
    BY <1>5 DEF StepsBack, AtStart, outport, IsSwitch
  <2>2. out = job.tables[here[1]][LidOf[Target]]
    BY <1>1, <1>3, <1>5, GoodEntry DEF Lid
  <2>3. e[1] = here[1] /\ IsSwitch(e)
    BY <1>5 DEF SameGuid, IsSwitch
  <2> QED BY <1>3, <2>1, <2>2, <2>3 DEF Forward
<1>6. CASE here[1] \notin Switches
  <2>1. outport = here[2]
    BY <1>6 DEF outport, IsSwitch
  <2>2. here \in DOMAIN Cable /\ here' = Cable[here]
    <3>1. CASE StepsBack
      BY <1>3, <3>1, FabricAssumption
    <3>2. CASE ~StepsBack
      BY <1>3, <1>4, <2>1, <3>2
    <3> QED BY <3>1, <3>2
  <2>3. e[1] = here[1] /\ e[2] = here[2] /\ ~IsSwitch(e)
    BY <1>6 DEF SameGuid, IsSwitch
  <2> QED BY <1>4, <1>6, <2>1, <2>2, <2>3 DEF Forward
<1> QED BY <1>5, <1>6

LEMMA AdvanceKeeps ==
  ASSUME LidsDiffer, RouteOk, Advance, UNCHANGED mvars
  PROVE  RouteOk'
<1> DEFINE new == [out |-> outport, port |-> here']
           w(k) == Way(job.tables, job.src, job.dest, k)
           n == Len(trail)
<1>1. TraceInv /\ TrailInv
  BY DEF RouteOk
<1>2. /\ job \in Jobs /\ leg \in {1, 2} /\ pc = "loop" /\ pc' = "loop"
      /\ trail \in Seq([out : Nat, port : Ports])
      /\ {fromport, here} \subseteq Ports
      /\ UNCHANGED <<job, leg, fromport, toport, run, pairs>>
      /\ hops \in 0..MaxHops /\ MaxHops \in Nat /\ hops' = hops - 1 /\ hops > 0
      /\ ~(job.mcast /\ leg = 2)
      /\ leg = 1 => trail = <<>>
      /\ out' = NextEntry(At) /\ ~BadTable(At)
  BY <1>1, RouteTraceAssumption DEF TraceInv, TraceTyping, Advance, Turning, Blocked, mvars
<1>3. /\ here' \in Ports /\ At \in Ports /\ here'[1] = At[1]
      /\ At[1] \notin Switches => here' = At
      /\ path' \in Seq(Nat) /\ PathEnd' = At
      /\ path' # <<>> /\ job.base[1] \notin Switches => path'[1] = job.base[2]
      /\ outport \in Nat
  BY <1>1, Advancing
<1>4. trail' = IF leg = 1 THEN trail ELSE Append(trail, new)
  BY DEF Advance
<1>5. new \in [out : Nat, port : Ports] /\ new.port = here' /\ new.out = outport
  BY <1>3
<1> HIDE DEF new
<1>6. /\ n \in Nat
      /\ Append(trail, new) \in Seq([out : Nat, port : Ports])
      /\ Len(Append(trail, new)) = n + 1
      /\ \A k \in 1..n : Append(trail, new)[k] = trail[k]
      /\ Append(trail, new)[n + 1] = new
  BY <1>2, <1>5, AppendProperties, LenProperties
<1>7. TraceTyping'
  <2>1. hops' \in 0..MaxHops
    BY <1>2
  <2>2. trail' \in Seq([out : Nat, port : Ports])
    BY <1>2, <1>4, <1>6
  <2>3. (toport \in {NoPort, Target})'
    BY <1>1, <1>2 DEF TraceInv, TraceTyping, Target
  <2>4. (leg = 1 \/ job.mcast => trail = <<>>)'
    BY <1>2, <1>4
  <2>5. (run \in Runs /\ pairs \in 1..Len(run) /\ job \in Jobs /\ leg \in {1, 2})'
    BY <1>1, <1>2 DEF TraceInv, TraceTyping
  <2> QED BY <1>2, <1>3, <2>1, <2>2, <2>3, <2>4, <2>5 DEF TraceTyping
<1>8. OnRoute'
  <2>1. (NextEntry(here) = out \/ here[1] \notin Switches)'
    BY <1>2, <1>3 DEF NextEntry, Lookup, Lid, Target, IsSwitch
  <2>2. (~BadTable(here))'
    BY <1>2, <1>3 DEF BadTable, BadEntry, Lookup, Lid, Target, IsSwitch
  <2> QED BY <1>2, <1>3, <2>1, <2>2 DEF OnRoute
<1>9. CASE leg = 1
  <2>1. Len(trail') = 0
    BY <1>2, <1>4, <1>9
  <2> QED BY <1>2, <1>7, <1>8, <1>9, <2>1 DEF RouteOk, TraceInv, TrailInv
<1>10. CASE leg = 2
  <2>1. trail' = Append(trail, new)
    BY <1>4, <1>10
  <2>2. /\ IsAsked(fromport, job.src)
        /\ here = IF trail = <<>> THEN fromport ELSE trail[n].port
        /\ \A k \in 1..n : Returned(k - 1) \/ Follows(k)
    BY <1>1, <1>2, <1>10 DEF TrailInv
  <2>3. SameGuid(fromport, job.src)
    BY <1>2, <2>2, AskedIsIt
  <2>4. IsAsked(fromport, job.src)'
    BY <1>2, <2>2 DEF IsAsked, LidAt, IsSwitch, SameGuid
  <2>5. trail' # <<>> /\ here' = trail'[Len(trail')].port
    <3>1. Len(<<>>) = 0
      OBVIOUS
    <3> QED BY <1>5, <1>6, <2>1, <3>1
  <2>6. Returned(n) \/ /\ here' = w(n + 1)
                       /\ here' = Cable[<<w(n)[1], outport>>]
    <3> SUFFICES ASSUME ~Returned(n)
                 PROVE  here' = w(n + 1) /\ here' = Cable[<<w(n)[1], outport>>]
      OBVIOUS
    <3>1. /\ SameGuid(here, w(n)) /\ w(n)[1] = here[1] /\ w(n) # NoPort
          /\ here[1] \notin Switches => n = 0
      <4>1. CASE trail = <<>>
        <5>1. n = 0 /\ here = fromport /\ w(n) = job.src
          BY <2>2, <4>1, WayBegins
        <5> QED BY <1>2, <2>3, <5>1, JobParts, NoPortIsNone DEF SameGuid
      <4>2. CASE trail # <<>>
        <5>1. n \in 1..n
          <6>1. n \in Nat \ {0}
            BY <1>2, <4>2, EmptySeq
          <6> QED BY <6>1
        <5>2. ~Returned(n - 1)
          BY <1>6, <5>1 DEF Returned
        <5>3. Follows(n) /\ here = trail[n].port
          BY <2>2, <4>2, <5>1, <5>2
        <5>4. here = w(n)
          BY <5>3 DEF Follows
        <5>5. ASSUME here[1] \notin Switches PROVE FALSE
          <6>1. SameGuid(here, fromport)
            BY <5>5 DEF Advance, Blocked, AtStart, IsSwitch
          <6> QED BY <5>1, <5>3, <6>1 DEF Returned
        <5> QED BY <1>2, <5>4, <5>5, NoPortIsNone DEF SameGuid
      <4> QED BY <4>1, <4>2
    <3>2. w(n + 1) = Forward(job.tables, w(n), job.dest, n = 0)
      BY <1>6, <3>1, WayGoesOn
    <3>3. /\ here' = Forward(job.tables, w(n), job.dest, n = 0)
          /\ here' = Cable[<<here[1], outport>>]
      <4> DEFINE first == n = 0
      <4>1. here[1] \notin Switches => first
        BY <3>1
      <4> HIDE DEF first
      <4>2. /\ here' = Forward(job.tables, w(n), job.dest, first)
            /\ here' = Cable[<<here[1], outport>>]
        BY <1>1, <1>10, <3>1, <4>1, NextHop DEF RouteOk, Target
      <4> QED BY <4>2 DEF first
    <3> QED BY <3>1, <3>2, <3>3
  <2>7. ASSUME NEW k \in 1..(n + 1) PROVE (Returned(k - 1) \/ Follows(k))'
    <3>1. \A m \in 0..n : Returned(m) => Returned(m)'
      <4> SUFFICES ASSUME NEW m \in 0..n, Returned(m) PROVE Returned(m)'
        OBVIOUS
      <4>1. PICK j \in 1..m : SameGuid(trail[j].port, fromport)
        BY DEF Returned
      <4>2. j \in 1..n
        BY <1>6
      <4>3. trail'[j] = trail[j]
        BY <1>6, <2>1, <4>2
      <4> QED BY <1>2, <4>1, <4>3 DEF Returned, SameGuid, IsSwitch
    <3>2. CASE k = n + 1
      <4>1. ASSUME Returned(n) PROVE Returned(k - 1)'
        <5>1. k - 1 = n /\ n \in 0..n
          BY <1>6, <3>2
        <5> QED BY <3>1, <4>1, <5>1
      <4>2. ASSUME ~Returned(n) PROVE Follows(k)'
        <5>1. k - 1 = n /\ trail'[k] = new
          BY <1>6, <2>1, <3>2
        <5>2. here' = w(k) /\ here' = Cable[<<w(k - 1)[1], outport>>]
          BY <2>6, <3>2, <4>2, <5>1
        <5> QED BY <1>2, <1>5, <5>1, <5>2 DEF Follows
      <4> QED BY <4>1, <4>2
    <3>3. CASE k # n + 1
      <4>1. k \in 1..n /\ k - 1 \in 0..n
        BY <1>6, <3>3
      <4>2. trail'[k] = trail[k]
        BY <1>6, <2>1, <4>1
      <4>3. Follows(k) => Follows(k)'
        BY <1>2, <4>2 DEF Follows
      <4> QED BY <2>2, <3>1, <4>1, <4>3
    <3> QED BY <3>2, <3>3
  <2>8. TrailInv'
    <3>1. Len(trail') = n + 1
      BY <1>6, <2>1
    <3> QED BY <1>2, <2>4, <2>5, <2>7, <3>1 DEF TrailInv
  <2> QED BY <1>7, <1>8, <2>8 DEF RouteOk, TraceInv
<1> QED BY <1>2, <1>9, <1>10

LEMMA RouteStep == LidsDiffer /\ RouteOk /\ [TracertNext]_allvars => RouteOk'
<1> SUFFICES ASSUME LidsDiffer, RouteOk, [TracertNext]_allvars PROVE RouteOk'
  OBVIOUS
<1>1. CASE UNCHANGED allvars
  <2>1. UNCHANGED <<run, pairs, job, leg, pc, path, fromport, toport, here, out, hops, trail>>
    BY <1>1 DEF allvars, tracevars, mvars
  <2> QED BY <2>1 DEF RouteOk, TraceInv, TraceTyping, OnRoute, TrailInv, Target, PathEnd, NextEntry,
                    BadTable, BadEntry, Lookup, Lid, IsSwitch, IsAsked, LidAt, SameGuid, Returned,
                    Follows
<1>2. CASE FindRoute
  <2>1. UNCHANGED mvars /\ (StartRoute => ~(job.mcast /\ leg = 2))
    BY <1>2 DEF FindRoute, StartRoute
  <2>2. CASE StartRoute
    BY <2>1, <2>2, StartKeeps
  <2>3. CASE Arrive
    BY <2>1, <2>3, ArriveKeeps
  <2>4. CASE GiveUp \/ Stop \/ Lose
    BY <2>1, <2>4, GivenUpKeeps
  <2>5. CASE Advance
    BY <2>1, <2>5, AdvanceKeeps
  <2> QED BY <1>2, <2>2, <2>3, <2>4, <2>5 DEF FindRoute, TraceNext
<1>3. CASE NextPair
  BY <1>3, PairKeeps
<1>4. CASE McStart \/ McVisit \/ McNextDist \/ McNotFound \/ McAbandon \/ McPortDown \/ McSkip
           \/ McFound \/ McMeet
  BY <1>4, McKeeps
<1> QED BY <1>1, <1>2, <1>3, <1>4 DEF TracertNext

LEMMA RouteAlways == ASSUME LidsDiffer PROVE TracertSpec => []RouteOk
<1>1. TracertInit => RouteOk
  BY InitRoute
<1>2. RouteOk /\ [TracertNext]_allvars => RouteOk'
  BY RouteStep
<1> QED BY <1>1, <1>2, PTL DEF TracertSpec

\* The hops ibtracert prints (get_route, find_route, dump_route, ibtracert.c) are
\* those a packet takes, out of the port the switch's table names and over the cable
\* there, leg 2 starts at the source asked for, and a trace that succeeds ends at the
\* destination: for every fabric, all tables, loops in them too, and any SMP lost.
THEOREM TrailFollowsTables == ASSUME LidsDiffer PROVE TracertSpec => []TrailIsForwarding
<1>1. RouteOk => TrailIsForwarding
  <2> SUFFICES ASSUME RouteOk PROVE TrailIsForwarding
    OBVIOUS
  <2>1. \A k \in 1..Len(trail) : Returned(k - 1) \/ Follows(k)
    BY DEF RouteOk, TrailInv
  <2> QED BY <2>1 DEF RouteOk, TrailInv, TrailIsForwarding, Returned, Follows
<1> QED BY <1>1, RouteAlways, PTL

-----------------------------------------------------------------------------
(***************************************************************************)
(* A route that the tables provide is found: the trace is where the packet *)
(* is after as many hops as it has used up (OnLeg), with a path no longer  *)
(* than these.  Nothing on the way of a packet that arrives can stop it.   *)
(***************************************************************************)
LEMMA HopTyped ==
  ASSUME NEW at \in Ports \cup {NoPort}, NEW p \in Nat, NEW first
  PROVE  Hop(at, p, first) \in Ports \cup {NoPort}
<1>1. CASE <<at[1], p>> \in DOMAIN Cable
  BY <1>1, FabricAssumption, CableIsPort DEF Hop
<1>2. CASE <<at[1], p>> \notin DOMAIN Cable
  <2>1. ASSUME at # NoPort, at[1] \in Switches PROVE <<at[1], 0>> \in Ports
    BY <2>1, PortParts, SwitchPorts
  <2> QED BY <1>2, <2>1 DEF Hop
<1> QED BY <1>1, <1>2

\* An SMP arrives at a port or nowhere.
LEMMA ArrivalTyped ==
  ASSUME NEW base \in Ports, NEW p \in Seq(Nat)
  PROVE  ArrivalFrom(base, p) \in Ports \cup {NoPort}
<1>1. PICK f : IsRoute(f, base, p) /\ ArrivalFrom(base, p) = f[Len(p)]
  BY ArrivalIs
<1>2. Len(p) \in Nat /\ \A i \in 1..Len(p) : p[i] \in Nat
  BY LenProperties, ElementOfSeq
<1> DEFINE T == {i \in 0..Len(p) : f[i] \notin Ports \cup {NoPort}}
<1>3. \A i \in 0..Len(p) : f[i] = IF i = 0 THEN base ELSE Hop(f[i - 1], p[i], i = 1)
  BY <1>1 DEF IsRoute
<1>4. SUFFICES ASSUME T # {} PROVE FALSE
  <2>1. Len(p) \in 0..Len(p)
    BY <1>2
  <2> QED BY <1>1, <2>1
<1>5. PICK i \in T : \A j \in T : i <= j
  <2>1. T \subseteq Nat
    BY <1>2
  <2> HIDE DEF T
  <2> QED BY <1>4, <2>1, LeastNat
<1>6. i \in 0..Len(p) /\ f[i] \notin Ports \cup {NoPort}
  BY <1>5
<1>7. i # 0
  BY <1>3, <1>6
<1>8. i - 1 \in 0..Len(p) /\ i - 1 \notin T /\ i \in 1..Len(p)
  BY <1>2, <1>5, <1>6, <1>7
<1>9. f[i - 1] \in Ports \cup {NoPort} /\ p[i] \in Nat
  BY <1>2, <1>8
<1>10. f[i] = Hop(f[i - 1], p[i], i = 1)
  BY <1>3, <1>6, <1>7
<1>11. Hop(f[i - 1], p[i], i = 1) \in Ports \cup {NoPort}
  BY <1>9, HopTyped
<1> QED BY <1>6, <1>10, <1>11

\* A packet that is delivered is at a port after every hop.
LEMMA WayTyped ==
  ASSUME NEW tables, NEW src \in Ports, NEW dest, NEW t \in Nat
  PROVE  Way(tables, src, dest, t) \in Ports \cup {NoPort}
<1>1. CASE t = 0
  BY <1>1, WayBegins
<1>2. CASE t # 0
  <2>1. t - 1 \in Nat /\ (t - 1) + 1 = t
    BY <1>2
  <2> DEFINE e == Way(tables, src, dest, t - 1)
  <2>2. Way(tables, src, dest, t) = IF e = NoPort THEN NoPort ELSE Forward(tables, e, dest, t - 1 = 0)
    <3>1. Way(tables, src, dest, (t - 1) + 1)
            = IF e = NoPort THEN NoPort ELSE Forward(tables, e, dest, t - 1 = 0)
      BY <2>1, WayGoesOn
    <3> QED BY <2>1, <3>1
  <2>3. Forward(tables, e, dest, t - 1 = 0) \in Ports \cup {NoPort}
    BY FabricAssumption, CableIsPort DEF Forward
  <2> QED BY <2>2, <2>3
<1> QED BY <1>1, <1>2

\* What a packet to port d that is delivered meets after t of its k hops.
LEMMA OnTheWay ==
  ASSUME job \in Jobs, NEW s \in Ports, NEW d, NEW k \in Nat, DeliveredIn(s, d, k), NEW t \in 0..k
  PROVE  LET e == Way(job.tables, s, d, t)
             on == Way(job.tables, s, d, t + 1)
             entry == job.tables[e[1]][LidOf[d]]
         IN  /\ e \in Ports /\ ~Inactive(e)
             /\ SameGuid(e, d) <=> t = k
             /\ t = k /\ e[1] \in Switches => entry = 0
             /\ t # k => /\ on \in DOMAIN Cable /\ on = Forward(job.tables, e, d, t = 0)
                         /\ e[1] \in Switches =>
                              <<e[1], entry>> \in DOMAIN Cable /\ on = Cable[<<e[1], entry>>]
                         /\ e[1] \notin Switches => t = 0 /\ e \in DOMAIN Cable /\ on = Cable[e]
                         /\ ~Inactive(on)
<1> DEFINE W(i) == Way(job.tables, s, d, i)
           e == W(t)
           on == W(t + 1)
           entry == job.tables[e[1]][LidOf[d]]
<1>1. /\ \A i \in 0..k : W(i) # NoPort /\ ~Inactive(W(i))
      /\ \A i \in 0..(k - 1) : ~SameGuid(W(i), d)
      /\ SameGuid(W(k), d)
      /\ IsSwitch(d) => job.tables[d[1]][LidOf[d]] = 0
  BY DEF DeliveredIn
<1>2. t \in Nat /\ k \in 0..k
  OBVIOUS
<1>3. e \in Ports /\ ~Inactive(e)
  <2>1. e \in Ports \cup {NoPort}
    BY <1>2, WayTyped
  <2> HIDE DEF W
  <2> QED BY <1>1, <2>1
<1>4. SameGuid(e, d) <=> t = k
  <2>1. t # k => t \in 0..(k - 1)
    OBVIOUS
  <2> HIDE DEF W
  <2> QED BY <1>1, <2>1
<1>5. t = k /\ e[1] \in Switches => entry = 0
  <2>1. SameGuid(e, d) => e[1] = d[1]
    BY DEF SameGuid
  <2> HIDE DEF W
  <2> QED BY <1>1, <1>4, <2>1 DEF IsSwitch
<1>6. ASSUME t # k
      PROVE  /\ on \in DOMAIN Cable /\ on = Forward(job.tables, e, d, t = 0)
             /\ e[1] \in Switches =>
                  <<e[1], entry>> \in DOMAIN Cable /\ on = Cable[<<e[1], entry>>]
             /\ e[1] \notin Switches => t = 0 /\ e \in DOMAIN Cable /\ on = Cable[e]
             /\ ~Inactive(on)
  <2>1. t + 1 \in 0..k
    BY <1>6
  <2>2. on # NoPort /\ ~Inactive(on) /\ e # NoPort
    BY <1>1, <2>1
  <2>3. on = Forward(job.tables, e, d, t = 0)
    BY <1>2, <2>2, WayGoesOn
  <2>4. e = <<e[1], e[2]>>
    BY <1>3, PortParts
  <2> DEFINE first == t = 0
  <2> HIDE DEF W, first
  <2>5. Forward(job.tables, e, d, first) # NoPort =>
          /\ e[1] \in Switches =>
               <<e[1], entry>> \in DOMAIN Cable
               /\ Forward(job.tables, e, d, first) = Cable[<<e[1], entry>>]
          /\ e[1] \notin Switches =>
               first /\ <<e[1], e[2]>> \in DOMAIN Cable
               /\ Forward(job.tables, e, d, first) = Cable[<<e[1], e[2]>>]
    BY DEF Forward, IsSwitch
  <2>6. /\ e[1] \in Switches => <<e[1], entry>> \in DOMAIN Cable /\ on = Cable[<<e[1], entry>>]
        /\ e[1] \notin Switches => t = 0 /\ e \in DOMAIN Cable /\ on = Cable[e]
    BY <2>2, <2>3, <2>4, <2>5 DEF first
  <2>7. on \in DOMAIN Cable
    BY <2>6, FabricAssumption
  <2> QED BY <2>2, <2>3, <2>6, <2>7
<1> QED BY <1>3, <1>4, <1>5, <1>6

\* find_route knows the entry of a switch on the way.
LEMMA EntryIsGood ==
  ASSUME PortsFit, job \in Jobs, leg \in {1, 2}, NEW a \in Ports,
         a[1] \in Switches => \/ job.tables[a[1]][Lid] = 0
                              \/ <<a[1], job.tables[a[1]][Lid]>> \in DOMAIN Cable
  PROVE  ~BadTable(a)
<1> DEFINE entry == job.tables[a[1]][Lid]
<1>1. SUFFICES ASSUME a[1] \in Switches PROVE ~BadEntry(a[1], Lookup(a[1]))
  BY DEF BadTable, IsSwitch
<1>2. NumPorts[a[1]] \in Nat /\ NumPorts[a[1]] < 128
  BY <1>1, PortParts DEF PortsFit
<1>3. <<a[1], entry>> \in DOMAIN Cable => entry \in 1..NumPorts[a[1]]
  BY FabricAssumption
<1>4. entry \in 0..NumPorts[a[1]]
  BY <1>1, <1>2, <1>3
<1>5. Lookup(a[1]) = entry
  <2> HIDE DEF entry
  <2>1. Lookup(a[1]) = IF entry > 127 THEN entry - 256 ELSE entry
    BY DEF Lookup, entry
  <2>2. ~(entry > 127)
    BY <1>2, <1>4
  <2> QED BY <2>1, <2>2
<1> QED BY <1>2, <1>4, <1>5 DEF BadEntry

\* Ports with one GUID are alike to find_route.
LEMMA AlikePorts ==
  ASSUME NEW a \in Ports, NEW b \in Ports, SameGuid(a, b)
  PROVE  /\ a[1] = b[1] /\ (a[1] \notin Switches => a = b)
         /\ Inactive(a) <=> Inactive(b)
<1>1. a[1] = b[1] /\ (a[1] \notin Switches => a = b)
  BY PortIsPair DEF SameGuid, IsSwitch
<1> QED BY <1>1 DEF Inactive, IsSwitch

\* At a port with the GUID of e, from which a packet goes on over a cable, the trace
\* finds the same cable.
LEMMA FindsCable ==
  ASSUME RouteOk, pc = "loop", NEW e \in Ports, SameGuid(here, e),
         here[1] \notin Switches => AtStart /\ e \in DOMAIN Cable,
         here[1] \in Switches => <<e[1], job.tables[e[1]][Lid]>> \in DOMAIN Cable
  PROVE  LET on == IF here[1] \in Switches THEN Cable[<<e[1], job.tables[e[1]][Lid]>>]
                   ELSE Cable[e]
         IN  /\ At \in Ports /\ Facing(At) = on /\ on[1] = At[1]
             /\ ~(IsSwitch(here) /\ outport = 0)
             /\ Len(next) <= Len(path) + 1
<1> DEFINE b == job.base
<1>1. /\ job \in Jobs /\ leg \in {1, 2} /\ path \in Seq(Nat) /\ here \in Ports /\ b \in Ports
      /\ PathEnd \in Ports /\ PathEnd[1] = here[1]
      /\ here[1] \notin Switches => PathEnd = here
      /\ NextEntry(here) = out \/ here[1] \notin Switches
      /\ ~BadTable(here)
  BY JobParts DEF RouteOk, TraceInv, TraceTyping, OnRoute
<1>2. Len(path) \in Nat /\ PathEnd # NoPort
  BY <1>1, LenProperties, NoPortIsNone
<1>3. here[1] = e[1] /\ (here[1] \notin Switches => here = e)
  BY <1>1, AlikePorts
<1>4. here = <<here[1], here[2]>> /\ here[2] \in Nat
  BY <1>1, PortParts
<1>5. CASE here[1] \in Switches
  <2>1. /\ out = job.tables[here[1]][Lid] /\ out \in Nat
        /\ ~StepsBack /\ outport = out
    BY <1>1, <1>5, GoodEntry DEF StepsBack, AtStart, outport, IsSwitch
  <2>2. next = Append(path, out) /\ Facing(At) = At
    BY <2>1 DEF next, Facing
  <2>3. Len(next) = Len(path) + 1
    BY <1>1, <2>1, <2>2, AppendProperties
  <2>4. At = Hop(PathEnd, out, path = <<>>)
    BY <1>1, <2>1, <2>2, ArrivalAppend DEF At, PathEnd
  <2>5. <<here[1], out>> \in DOMAIN Cable
    BY <1>3, <1>5, <2>1
  <2>6. At = Cable[<<here[1], out>>]
    BY <1>1, <1>2, <1>5, <2>4, <2>5 DEF Hop
  <2>7. out # 0 /\ Cable[<<here[1], out>>] \in DOMAIN Cable
    <3>1. \A c \in DOMAIN Cable : c[2] \in 1..NumPorts[c[1]] /\ NumPorts[c[1]] \in Nat
      BY FabricAssumption
    <3>2. out \in 1..NumPorts[here[1]] /\ NumPorts[here[1]] \in Nat
      BY <2>5, <3>1
    <3> QED BY <2>5, <3>2, FabricAssumption
  <2>8. At \in Ports
    BY <2>6, <2>7, CableIsPort
  <2> QED BY <1>2, <1>3, <1>5, <2>1, <2>2, <2>3, <2>6, <2>7, <2>8
<1>6. CASE here[1] \notin Switches
  <2>1. AtStart /\ here \in DOMAIN Cable /\ PathEnd = here /\ ~IsSwitch(here) /\ outport = here[2]
    BY <1>1, <1>3, <1>6 DEF outport, IsSwitch
  <2>2. CASE path = <<>>
    <3>1. ~StepsBack /\ next = Append(path, here[2]) /\ Facing(At) = At
      BY <2>1, <2>2 DEF StepsBack, next, Facing
    <3>2. Len(next) = Len(path) + 1
      BY <1>1, <1>4, <3>1, AppendProperties
    <3>3. At = Hop(here, here[2], path = <<>>)
      BY <1>1, <1>4, <2>1, <3>1, ArrivalAppend DEF At, PathEnd
    <3>4. At = Cable[here]
      BY <1>2, <1>4, <2>1, <2>2, <3>3 DEF Hop
    <3>5. At \in Ports
      BY <2>1, <3>4, FabricAssumption, CableIsPort
    <3> QED BY <1>2, <1>3, <1>6, <2>1, <3>1, <3>2, <3>4, <3>5
  <2>3. CASE path # <<>>
    <3> DEFINE q == SubSeq(path, 1, Len(path) - 1)
               last == path[Len(path)]
    <3>1. StepsBack /\ next = q /\ Facing(At) = <<At[1], last>>
      BY <2>1, <2>3 DEF StepsBack, next, Facing
    <3>2. /\ q \in Seq(Nat) /\ last \in Nat /\ Len(q) = Len(path) - 1
          /\ PathEnd = Hop(ArrivalFrom(b, q), last, q = <<>>)
      BY <1>1, <2>3, PathSplits DEF PathEnd
    <3>3. At = ArrivalFrom(b, q)
      BY <3>1 DEF At
    <3> HIDE DEF q, last
    <3>4. At \in Ports
      <4>1. At # NoPort
        BY <1>2, <3>2, <3>3 DEF Hop
      <4> QED BY <1>1, <3>2, <3>3, <4>1, ArrivalTyped
    <3>5. <<At[1], last>> \in DOMAIN Cable /\ here = Cable[<<At[1], last>>]
      <4>1. Hop(At, last, q = <<>>) = here
        BY <2>1, <3>2, <3>3
      <4>2. /\ q = <<>> \/ At[1] \in Switches
            /\ \/ <<At[1], last>> \in DOMAIN Cable /\ here = Cable[<<At[1], last>>]
               \/ last = 0 /\ At[1] \in Switches /\ here = <<At[1], 0>>
        <5>1. Hop(At, last, q = <<>>) \in Ports
          BY <1>1, <4>1
        <5> DEFINE first == q = <<>>
        <5>2. Hop(At, last, first) = here /\ Hop(At, last, first) \in Ports
          BY <4>1, <5>1
        <5> HIDE DEF first
        <5>3. /\ first \/ At[1] \in Switches
              /\ \/ <<At[1], last>> \in DOMAIN Cable /\ Hop(At, last, first) = Cable[<<At[1], last>>]
                 \/ last = 0 /\ At[1] \in Switches /\ Hop(At, last, first) = <<At[1], 0>>
          BY <3>2, <3>4, <5>2, HopOnto
        <5> QED BY <5>2, <5>3 DEF first
      <4> QED BY <1>6, <4>2
    <3>6. Cable[here] = <<At[1], last>>
      BY <3>5, FabricAssumption
    <3>7. Len(next) <= Len(path) + 1
      BY <1>2, <3>1, <3>2
    <3> QED BY <1>3, <1>6, <2>1, <3>1, <3>4, <3>6, <3>7
  <2> QED BY <2>2, <2>3
<1> QED BY <1>5, <1>6

\* The tables take a packet to the source port in k hops, and on from it in m.
Provided(k, m) ==
  /\ k + m <= RouteMax
  /\ DeliveredIn(job.base, job.src, k)
  /\ DeliveredIn(job.src, job.dest, m)

\* The trace is where the packet of its leg is after some of its n hops; it started
\* with a path of at most b hops.
OnLeg(src, n, b) ==
  \E t \in 0..n :
    /\ hops = MaxHops - t
    /\ SameGuid(here, Way(job.tables, src, Target, t))
    /\ Len(path) <= b + t
    /\ t = 0 => here = fromport

Finding(k, m) ==
  /\ pc # "failed"
  /\ pc = "start" => hops = MaxHops
  /\ pc = "start" /\ leg = 2 => Len(path) <= k /\ SameGuid(PathEnd, job.src)
  /\ pc = "loop" => toport = Target
  /\ pc = "loop" /\ leg = 1 => OnLeg(job.base, k, 0)
  /\ pc = "loop" /\ leg = 2 => OnLeg(job.src, m, k)

FoundInv ==
  ~lost /\ ~job.mcast => \A k, m \in 0..(MaxHops - 2) : Provided(k, m) => Finding(k, m)

\* A turn of the trace on the way of a packet goes on with the packet, or arrives.
LEMMA TurnOnTheWay ==
  ASSUME LidsDiffer, PortsFit, RouteOk, pc = "loop", toport = Target,
         NEW src \in Ports, NEW n \in 0..(MaxHops - 2), NEW b \in Nat, b + n <= RouteMax,
         DeliveredIn(src, Target, n), OnLeg(src, n, b),
         GiveUp \/ Arrive \/ Stop \/ Advance
  PROVE  \/ /\ Arrive /\ hops - 1 > 0 /\ SameGuid(here, Target)
            /\ Len(path) <= b + n
         \/ /\ Advance
            /\ \E t \in 0..n :
                 /\ t # 0 /\ hops' = MaxHops - t
                 /\ SameGuid(here', Way(job.tables, src, Target, t))
                 /\ Len(path') <= b + t
<1>1. PICK t \in 0..n : /\ hops = MaxHops - t
                        /\ SameGuid(here, Way(job.tables, src, Target, t))
                        /\ Len(path) <= b + t
                        /\ t = 0 => here = fromport
  BY DEF OnLeg
<1> DEFINE e == Way(job.tables, src, Target, t)
           on == Way(job.tables, src, Target, t + 1)
           entry == job.tables[e[1]][Lid]
<1>2. /\ job \in Jobs /\ leg \in {1, 2} /\ path \in Seq(Nat) /\ here \in Ports
      /\ MaxHops \in Nat /\ RouteMax \in Nat
      /\ n \in Nat /\ t \in Nat /\ t <= n /\ n <= MaxHops - 2
      /\ Target \in {job.src, job.dest} /\ Target \in Ports
  <2>1. /\ job \in Jobs /\ leg \in {1, 2} /\ path \in Seq(Nat) /\ here \in Ports
        /\ MaxHops \in Nat /\ RouteMax \in Nat
    BY RouteTraceAssumption DEF RouteOk, TraceInv, TraceTyping
  <2>2. n \in Nat /\ t \in Nat /\ t <= n /\ n <= MaxHops - 2
    BY <2>1
  <2>3. Target \in {job.src, job.dest}
    BY DEF Target
  <2>4. Target \in Ports
    BY <2>1, <2>3, JobParts
  <2> QED BY <2>1, <2>2, <2>3, <2>4
<1>3. Len(path) \in Nat
  BY <1>2, LenProperties
<1>4. /\ e \in Ports /\ ~Inactive(e)
      /\ SameGuid(e, Target) <=> t = n
      /\ t = n /\ e[1] \in Switches => entry = 0
      /\ t # n => /\ on \in DOMAIN Cable /\ on = Forward(job.tables, e, Target, t = 0)
                  /\ e[1] \in Switches =>
                       <<e[1], entry>> \in DOMAIN Cable /\ on = Cable[<<e[1], entry>>]
                  /\ e[1] \notin Switches => t = 0 /\ e \in DOMAIN Cable /\ on = Cable[e]
                  /\ ~Inactive(on)
  BY <1>2, OnTheWay DEF Lid
<1>5. SameGuid(here, e)
  BY <1>1
<1> HIDE DEF e, on, entry
<1>6. here[1] = e[1] /\ (here[1] \notin Switches => here = e) /\ ~Inactive(here)
  BY <1>2, <1>4, <1>5, AlikePorts
<1>7. hops > 1 /\ hops - 1 > 0 /\ hops # 0
  BY <1>1, <1>2
<1>8. ~GiveUp
  BY <1>6, <1>7 DEF GiveUp
<1>9. SameGuid(here, Target) <=> t = n
  BY <1>4, <1>6 DEF SameGuid, IsSwitch
<1>10. SamePort(here) <=> t = n
  <2>1. ASSUME SamePort(here) PROVE SameGuid(here, Target)
    <3>1. IsAsked(here, Target)
      BY <2>1, SameIsAsked
    <3> QED BY <1>2, <3>1, AskedIsIt
  <2>2. ASSUME SameGuid(here, Target) PROVE SamePort(here)
    BY <1>2, <2>2, NoPortIsNone DEF SamePort
  <2> QED BY <1>9, <2>1, <2>2
<1>11. CASE t = n
  <2>1. Arrive
    BY <1>8, <1>10, <1>11 DEF Stop, Advance
  <2> QED BY <1>1, <1>7, <1>9, <1>11, <2>1
<1>12. CASE t # n
  <2>1. here[1] \notin Switches => AtStart /\ e \in DOMAIN Cable /\ t = 0
    <3>1. ASSUME here[1] \notin Switches PROVE t = 0 /\ e \in DOMAIN Cable
      BY <1>4, <1>6, <1>12, <3>1
    <3>2. ASSUME here[1] \notin Switches PROVE AtStart
      BY <1>1, <3>1, <3>2 DEF AtStart, IsSwitch, SameGuid
    <3> QED BY <3>1, <3>2
  <2>2. /\ At \in Ports /\ Facing(At) = on /\ on[1] = At[1]
        /\ ~(IsSwitch(here) /\ outport = 0)
        /\ Len(next) <= Len(path) + 1
    <3>1. here[1] \in Switches => <<e[1], job.tables[e[1]][Lid]>> \in DOMAIN Cable
      BY <1>4, <1>6, <1>12 DEF entry
    <3>2. LET x == IF here[1] \in Switches THEN Cable[<<e[1], job.tables[e[1]][Lid]>>]
                   ELSE Cable[e]
          IN  /\ At \in Ports /\ Facing(At) = x /\ x[1] = At[1]
              /\ ~(IsSwitch(here) /\ outport = 0)
              /\ Len(next) <= Len(path) + 1
      BY <1>4, <1>5, <2>1, <3>1, FindsCable
    <3>3. on = IF here[1] \in Switches THEN Cable[<<e[1], job.tables[e[1]][Lid]>>] ELSE Cable[e]
      BY <1>4, <1>6, <1>12 DEF entry
    <3> QED BY <3>2, <3>3
  <2>3. ~BadTable(At)
    <3>1. t + 1 \in 0..n
      BY <1>2, <1>12
    <3> DEFINE e2 == Way(job.tables, src, Target, t + 1)
    <3>2. /\ (t + 1) = n /\ e2[1] \in Switches => job.tables[e2[1]][Lid] = 0
          /\ (t + 1) # n => (e2[1] \in Switches => <<e2[1], job.tables[e2[1]][Lid]>> \in DOMAIN Cable)
      BY <1>2, <3>1, OnTheWay DEF Lid
    <3>3. e2[1] = At[1]
      BY <2>2 DEF on
    <3> HIDE DEF e2
    <3>4. At[1] \in Switches => \/ job.tables[At[1]][Lid] = 0
                                \/ <<At[1], job.tables[At[1]][Lid]>> \in DOMAIN Cable
      BY <3>2, <3>3
    <3> QED BY <1>2, <2>2, <3>4, EntryIsGood
  <2>4. ~(Len(next) > RouteMax) /\ (Len(next) <= b + (t + 1))
    <3>1. /\ \A l \in Nat : l <= Len(path) + 1 => ~(l > RouteMax) /\ l <= b + (t + 1)
          /\ Len(path) + 1 <= RouteMax
      BY <1>1, <1>2, <1>3, <1>12
    <3>2. Len(next) \in Nat
      <4>1. here[1] \in Switches => NextEntry(here) \in Nat
        BY <1>2, GoodEntry DEF RouteOk, TraceInv, OnRoute
      <4>2. outport \in Nat
        BY <1>2, <4>1, PortParts DEF RouteOk, TraceInv, OnRoute, outport, IsSwitch
      <4>3. Append(path, outport) \in Seq(Nat)
        BY <1>2, <4>2, AppendProperties
      <4>4. path # <<>> => SubSeq(path, 1, Len(path) - 1) \in Seq(Nat)
        BY <1>2, PathSplits
      <4>5. next \in Seq(Nat)
        BY <4>3, <4>4 DEF next, StepsBack
      <4> QED BY <4>5, LenProperties
    <3> QED BY <2>2, <3>1, <3>2
  <2>5. ~Blocked
    BY <1>4, <1>12, <2>1, <2>2, <2>3, <2>4 DEF Blocked, IsSwitch
  <2>6. Advance
    BY <1>8, <1>10, <1>12, <2>5 DEF Arrive, Stop
  <2>7. here' = on /\ path' = next /\ hops' = hops - 1
    BY <2>2, <2>6 DEF Advance
  <2>8. /\ t + 1 \in 0..n /\ t + 1 # 0 /\ hops' = MaxHops - (t + 1)
    BY <1>1, <1>2, <1>12, <2>7
  <2>9. SameGuid(here', Way(job.tables, src, Target, t + 1))
    <3>1. SameGuid(on, on)
      BY DEF SameGuid
    <3> QED BY <2>7, <3>1 DEF on
  <2>10. Len(path') <= b + (t + 1)
    BY <2>4, <2>7
  <2> QED BY <2>6, <2>8, <2>9, <2>10
<1> QED BY <1>11, <1>12

\* find_route begins at the port the packet starts from.
LEMMA StartFinds ==
  ASSUME LidsDiffer, PortsFit, RouteOk, StartRoute, ~lost', ~job.mcast,
         NEW k \in 0..(MaxHops - 2), NEW m \in 0..(MaxHops - 2), Provided(k, m), Finding(k, m)
  PROVE  Finding(k, m)'
<1> DEFINE at == ArrivalFrom(job.base, path)
           src == IF leg = 1 THEN job.base ELSE job.src
           n == IF leg = 1 THEN k ELSE m
<1>1. /\ job \in Jobs /\ leg \in {1, 2} /\ pc = "start" /\ hops = MaxHops
      /\ leg = 1 => path = <<>>
      /\ leg = 2 => PathEnd \in Ports /\ SameGuid(PathEnd, job.src) /\ Len(path) <= k
      /\ UNCHANGED <<job, leg, path, hops>>
  BY DEF RouteOk, TraceInv, TraceTyping, OnRoute, Finding, StartRoute, Fail
<1>2. at \in Ports /\ SameGuid(at, src) /\ src \in Ports
  <2>1. CASE leg = 1
    <3>1. at = job.base
      BY <1>1, <2>1, ArrivalEmpty
    <3> QED BY <1>1, <2>1, <3>1, JobParts DEF SameGuid
  <2>2. CASE leg = 2
    <3>1. at \in Ports /\ SameGuid(at, job.src)
      BY <1>1, <2>2 DEF PathEnd
    <3>2. src = job.src
      BY <2>2
    <3>3. job.src \in Ports
      BY <1>1, JobParts
    <3> HIDE DEF at, src
    <3> QED BY <3>1, <3>2, <3>3
  <2> QED BY <1>1, <2>1, <2>2
<1>3. DeliveredIn(src, Target, n) /\ n \in Nat
  <2>1. k \in Nat /\ m \in Nat
    OBVIOUS
  <2> QED BY <1>1, <2>1 DEF Provided, Target
<1>4. ~BadTable(at)
  <2>1. 0 \in 0..n
    BY <1>3
  <2> DEFINE e == Way(job.tables, src, Target, 0)
             entry == job.tables[e[1]][LidOf[Target]]
  <2>2. e = src
    BY WayBegins
  <2>3. /\ 0 = n /\ e[1] \in Switches => entry = 0
        /\ 0 # n => (e[1] \in Switches => <<e[1], entry>> \in DOMAIN Cable)
    <3> HIDE DEF src, n
    <3> QED BY <1>1, <1>2, <1>3, <2>1, OnTheWay
  <2>4. e[1] = at[1]
    BY <1>2, <2>2 DEF SameGuid
  <2>5. at[1] \in Switches => \/ job.tables[at[1]][Lid] = 0
                              \/ <<at[1], job.tables[at[1]][Lid]>> \in DOMAIN Cable
    <3> HIDE DEF e, n
    <3> QED BY <2>3, <2>4 DEF Lid
  <2> QED BY <1>1, <1>2, <2>5, EntryIsGood
<1>5. /\ pc' = "loop" /\ fromport' = at /\ here' = at /\ toport' = Target
  BY <1>2, <1>4 DEF StartRoute
<1>6. Target' = Target
  BY <1>1 DEF Target
<1>8. SameGuid(here', Way(job.tables, src, Target, 0))
  BY <1>2, <1>5, WayBegins
<1>9. /\ MaxHops - 0 = MaxHops /\ 0 \in 0..k /\ 0 \in 0..m /\ k + 0 = k /\ 0 <= 0 + 0
      /\ leg = 1 => Len(path) = 0
  <2>1. MaxHops \in Nat /\ Len(<<>>) = 0
    BY RouteTraceAssumption
  <2> QED BY <1>1, <2>1
<1>10. leg = 1 => OnLeg(job.base, k, 0)'
  <2> SUFFICES ASSUME leg = 1 PROVE OnLeg(job.base, k, 0)'
    OBVIOUS
  <2>1. /\ hops' = MaxHops - 0 /\ SameGuid(here', Way(job'.tables, job'.base, Target', 0))
        /\ Len(path') <= 0 + 0 /\ here' = fromport'
    BY <1>1, <1>5, <1>6, <1>8, <1>9
  <2> QED BY <1>9, <2>1 DEF OnLeg
<1>11. leg = 2 => OnLeg(job.src, m, k)'
  <2> SUFFICES ASSUME leg = 2 PROVE OnLeg(job.src, m, k)'
    OBVIOUS
  <2>1. /\ hops' = MaxHops - 0 /\ SameGuid(here', Way(job'.tables, job'.src, Target', 0))
        /\ Len(path') <= k + 0 /\ here' = fromport'
    BY <1>1, <1>5, <1>6, <1>8, <1>9
  <2> QED BY <1>9, <2>1 DEF OnLeg
<1> QED BY <1>1, <1>5, <1>6, <1>10, <1>11 DEF Finding

\* A turn without a loss keeps up with the packet.
LEMMA TurnFinds ==
  ASSUME LidsDiffer, PortsFit, RouteOk, GiveUp \/ Arrive \/ Stop \/ Advance, ~job.mcast,
         NEW k \in 0..(MaxHops - 2), NEW m \in 0..(MaxHops - 2), Provided(k, m), Finding(k, m)
  PROVE  Finding(k, m)'
<1> DEFINE src == IF leg = 1 THEN job.base ELSE job.src
           n == IF leg = 1 THEN k ELSE m
           b == IF leg = 1 THEN 0 ELSE k
<1>1. /\ job \in Jobs /\ leg \in {1, 2} /\ pc = "loop" /\ toport = Target /\ OnLeg(src, n, b)
      /\ job' = job
      /\ PathEnd[1] = here[1] /\ (here[1] \notin Switches => PathEnd = here)
  BY DEF RouteOk, TraceInv, TraceTyping, OnRoute, Finding, GiveUp, Arrive, Stop, Advance, Turning,
         Found, Fail
<1>2. src \in Ports
  BY <1>1, JobParts
<1>3. /\ n \in 0..(MaxHops - 2) /\ b \in Nat /\ b + n <= RouteMax
      /\ DeliveredIn(src, Target, n)
  <2>1. CASE leg = 1
    <3>1. MaxHops \in Nat /\ RouteMax \in Nat /\ k + m <= RouteMax
      BY RouteTraceAssumption DEF Provided
    <3>2. 0 + k <= RouteMax
      BY <3>1
    <3> QED BY <2>1, <3>2 DEF Provided, Target
  <2>2. CASE leg = 2
    BY <2>2 DEF Provided, Target
  <2> QED BY <1>1, <2>1, <2>2
<1> HIDE DEF src, n, b
<1>4. \/ /\ Arrive /\ hops - 1 > 0 /\ SameGuid(here, Target)
         /\ Len(path) <= b + n
      \/ /\ Advance
         /\ \E t \in 0..n :
              /\ t # 0 /\ hops' = MaxHops - t
              /\ SameGuid(here', Way(job.tables, src, Target, t))
              /\ Len(path') <= b + t
  BY <1>1, <1>2, <1>3, TurnOnTheWay
<1>5. ASSUME Arrive, hops - 1 > 0, SameGuid(here, Target), Len(path) <= b + n
      PROVE  Finding(k, m)'
  <2>1. /\ hops \in Nat
        /\ pc' = IF leg = 1 THEN "start" ELSE "done"
        /\ leg' = 2 /\ path' = path /\ hops' = IF leg = 1 THEN MaxHops ELSE hops - 1
    <3>1. hops \in 0..MaxHops /\ MaxHops \in Nat
      BY RouteTraceAssumption DEF RouteOk, TraceInv, TraceTyping
    <3>2. hops \in Nat /\ ~(hops - 1 <= 0)
      BY <1>5, <3>1
    <3> QED BY <1>5, <3>2 DEF Arrive, Found
  <2>2. CASE leg = 1
    <3>1. 0 + k = k /\ b + n = 0 + k
      BY <2>2 DEF b, n
    <3>2. PathEnd' = PathEnd /\ SameGuid(PathEnd, job.src)
      BY <1>1, <1>5, <2>1, <2>2 DEF PathEnd, SameGuid, IsSwitch, Target
    <3> QED BY <1>1, <1>5, <2>1, <2>2, <3>1, <3>2 DEF Finding
  <2>3. CASE leg = 2
    BY <1>1, <2>1, <2>3 DEF Finding
  <2> QED BY <1>1, <2>2, <2>3
<1>6. ASSUME Advance, NEW t \in 0..n, t # 0, hops' = MaxHops - t,
             SameGuid(here', Way(job.tables, src, Target, t)), Len(path') <= b + t
      PROVE  Finding(k, m)'
  <2>1. UNCHANGED <<job, leg, pc, toport>> /\ Target' = Target
    BY <1>6 DEF Advance, Target
  <2>2. leg = 1 => OnLeg(job.base, k, 0)'
    BY <1>1, <1>6, <2>1 DEF OnLeg, src, n, b
  <2>3. leg = 2 => OnLeg(job.src, m, k)'
    BY <1>1, <1>6, <2>1 DEF OnLeg, src, n, b
  <2> QED BY <1>1, <2>1, <2>2, <2>3 DEF Finding
<1> QED BY <1>4, <1>5, <1>6

LEMMA FoundStep ==
  LidsDiffer /\ PortsFit /\ RouteOk /\ FoundInv /\ [TracertNext]_allvars => FoundInv'
<1> SUFFICES ASSUME LidsDiffer, PortsFit, RouteOk, FoundInv, [TracertNext]_allvars, ~lost', ~job'.mcast,
                    NEW k \in 0..(MaxHops - 2), NEW m \in 0..(MaxHops - 2), Provided(k, m)'
             PROVE  Finding(k, m)'
  BY DEF FoundInv
<1>1. CASE NextPair
  BY <1>1 DEF NextPair, Finding
<1>2. CASE UNCHANGED allvars \/ FindRoute
  <2>1. job' = job
    BY <1>2 DEF allvars, tracevars, FindRoute, TraceNext, StartRoute, GiveUp, Arrive, Stop, Lose,
                Advance, Found, Fail
  <2>2. ~lost
    BY <1>2 DEF allvars, tracevars, FindRoute, TraceNext, StartRoute, GiveUp, Arrive, Stop, Lose,
                Advance, Found
  <2>3. Provided(k, m)
    BY <2>1 DEF Provided, DeliveredIn, Inactive
  <2>4. Finding(k, m) /\ ~job.mcast
    BY <2>1, <2>2, <2>3 DEF FoundInv
  <2>5. CASE StartRoute
    BY <2>3, <2>4, <2>5, StartFinds
  <2>6. CASE GiveUp \/ Arrive \/ Stop \/ Advance
    BY <2>3, <2>4, <2>6, TurnFinds
  <2>7. CASE UNCHANGED allvars
    <3>1. UNCHANGED tracevars
      BY <2>7 DEF allvars
    <3> QED BY <2>4, <3>1 DEF tracevars, Finding, OnLeg, PathEnd, Target
  <2> QED BY <1>2, <2>5, <2>6, <2>7 DEF FindRoute, TraceNext, Lose
<1>3. CASE McStart \/ McVisit \/ McNextDist \/ McNotFound \/ McAbandon \/ McPortDown \/ McSkip
           \/ McFound \/ McMeet
  <2>1. job' = job /\ (pc = "mcast" \/ McStart)
    BY <1>3 DEF McStart, McVisit, McNextDist, McNotFound, McAbandon, McPortDown, McSkip,
                McFound, McMeet, Following, Reaches, McReturns, McGoesOn, tracevars
  <2> QED BY <2>1 DEF McStart, RouteOk, TraceInv, TraceTyping
<1> QED BY <1>1, <1>2, <1>3 DEF TracertNext

\* If no SMP is lost, find_route finds every route that the tables provide and whose
\* length MAXHOPS and extend_dpath allow, also from a source port that leg 1 reaches
\* and from which it has to step back: no check of the loop (is_port_inactive, the
\* CA in the middle, switch_lookup's entry, the path's length) rejects a good one.
THEOREM RoutesAreFound == ASSUME LidsDiffer, PortsFit PROVE TracertSpec => []RouteIsFound
<1>1. TracertInit => FoundInv
  BY DEF TracertInit, Begins, FoundInv, Finding
<1>2. RouteOk /\ FoundInv /\ [TracertNext]_allvars => FoundInv'
  BY FoundStep
<1>3. FoundInv => RouteIsFound
  BY DEF FoundInv, RouteIsFound, Provided, Finding
<1> QED BY <1>1, <1>2, <1>3, RouteAlways, PTL DEF TracertSpec
=============================================================================
