----------------------------- MODULE PortState -----------------------------
(***************************************************************************)
(* ibportstate (src/ibportstate.c): it reads the PortInfo of a port, and   *)
(* either changes fields of it and writes it back whole, or compares the   *)
(* active width and speeds of the link with what its two ends allow.       *)
(* Meanwhile the subnet manager configures the port, the link is trained   *)
(* again, and other ibportstates are at work.                              *)
(*                                                                         *)
(* Every operation of a tool is a call of the MAD library that may fail,   *)
(* which ends the tool (IBEXIT).  A Set is sent again while no answer      *)
(* comes, so it may be carried out more than once, or carried out and      *)
(* reported as failed.                                                     *)
(*                                                                         *)
(* Abstractions.  "near" is the port named on the command line, "far" its  *)
(* peer.  PlainFields stand for LID, SMLID, MTU, VLs, LMC and the M_Key    *)
(* fields.  A mask of widths or speeds is a set of its bits.  The agents,  *)
(* the subnet manager and the link are external.                           *)
(***************************************************************************)
EXTENDS Integers, FiniteSets, Sequences, SequencesExt

CONSTANTS
  PlainFields,      \* fields of PortInfo that are written as they were read
  Scenarios,        \* ports, capabilities, what the tools are asked to do, and how
                    \* often the subnet manager and the link act (a bound)
  SmValue,          \* what the subnet manager writes into a field
  MaxSends          \* times that a Set is sent (retries of mad_rpc)

Ends == {"near", "far"}
LidFields == {"lid", "smlid"}
Aspects == {"width", "speed", "espeed"}

States == {"down", "init", "armed", "active"}
PhysStates == {"disabled", "polling", "up"}
Masks == SUBSET Nat
ExtInfos == [enabled : BOOLEAN, active : BOOLEAN]

\* What a port holds.
PortInfos ==
  [plain : [PlainFields -> Nat], state : States, phys : PhysStates,
   enabled : [Aspects -> Masks], active : [Aspects -> Nat], ext : ExtInfos]

\* The arguments name fields and masks, each with a value of its kind.
ArgsAreTyped(args) ==
  \A f \in DOMAIN args :
    \/ f \in PlainFields /\ args[f] \in Nat
    \/ f \in Aspects /\ args[f] \in Masks

ASSUME PortStateAssumption ==
  /\ LidFields \subseteq PlainFields /\ PlainFields \cap Aspects = {}
  /\ SmValue \in Nat \ {0} /\ MaxSends \in Nat \ {0}
  /\ \A s \in Scenarios :
       /\ s.reg \in [Ends -> PortInfos]
       /\ "sm" \notin DOMAIN s.jobs
       /\ \A t \in DOMAIN s.jobs : ArgsAreTyped(s.jobs[t].args)

AllOnes == {255}       \* 255, 15 or 31: whatever is supported
Nop == "nop"
Nops == {}             \* an enabled mask of 0
Unlikely == 4660       \* 0x1234

\* The bits that stand for a width or a speed.
Bits(a) == IF a = "width" THEN {1, 2, 4, 8, 16} ELSE {1, 2, 4}

\* The near port supports, and is told to use, nothing else.
MasksAreKnown ==
  \A s \in Scenarios, a \in Aspects :
    /\ s.cap["near"].supported[a] \subseteq Bits(a)
    /\ \/ s.reg["near"].enabled[a] = AllOnes
       \/ s.reg["near"].enabled[a] \subseteq Bits(a)

VARIABLES
  scenario,
  reg,              \* the ports as they are
  events,
  todo,             \* of each tool: the operations left
  pc,               \* "run", "done", "exit"
  sends,            \* times the Set at the head of todo was carried out
  data, data2,      \* its buffers: PortInfo and the extended port information
  near,             \* what it decoded of the near port
  warned,           \* what it warned of
  carried,          \* its Sets that were carried out
  read,             \* the near port as it was when it was read
  dirty             \* fields of it written by others since then

world == <<scenario, events>>
vars == <<world, reg, todo, pc, sends, data, data2, near, warned, carried, read, dirty>>

Cap == scenario.cap
Job == scenario.jobs
Tools == DOMAIN Job

Op(name, e) == [op |-> name, end |-> e]
ZeroExt == [enabled |-> FALSE, active |-> FALSE]

Init ==
  /\ scenario \in Scenarios
  /\ reg = scenario.reg
  /\ events = 0
  /\ todo = [t \in Tools |-> <<Op("node", "near")>>]
  /\ pc = [t \in Tools |-> "run"]
  /\ sends = [t \in Tools |-> 0]
  /\ data = [t \in Tools |-> reg["near"]]
  /\ data2 = [t \in Tools |-> ZeroExt]
  /\ near = [t \in Tools |-> [port |-> reg["near"], ext |-> ZeroExt]]
  /\ warned = [t \in Tools |-> {}]
  /\ carried = [t \in Tools |-> {}]
  /\ read = [t \in Tools |-> reg["near"]]
  /\ dirty = [t \in Tools |-> {}]

------------------------------------------------------------------------------
(* The agents, the subnet manager and the link. *)

\* What differs: plain fields, masks, states, the link, the extended information.
Differs(old, new) ==
  {f \in PlainFields : old.plain[f] # new.plain[f]}
  \cup {a \in Aspects : old.enabled[a] # new.enabled[a]}
  \cup {f \in {"state"} : old.state # new.state} \cup {f \in {"phys"} : old.phys # new.phys}
  \cup {f \in {"link"} : old.active # new.active} \cup {f \in {"ext"} : old.ext # new.ext}

\* Port e becomes new; all tools but t find it changed.
Becomes(e, new, t) ==
  /\ reg' = [reg EXCEPT ![e] = new]
  /\ dirty' = [u \in Tools |-> IF u = t THEN dirty[u] ELSE dirty[u] \cup Differs(reg[e], new)]

External ==
  /\ events < scenario.events /\ events' = events + 1
  /\ UNCHANGED <<scenario, todo, pc, sends, data, data2, near, warned, carried, read>>

\* The subnet manager gives the near port a LID, and brings it up.
SmConfigures ==
  /\ External
  /\ \E f \in PlainFields :
       Becomes("near", [reg["near"] EXCEPT !.plain[f] = SmValue], "sm")

SmAdvances ==
  /\ External
  /\ \/ /\ reg["near"].state = "init"
        /\ Becomes("near", [reg["near"] EXCEPT !.state = "armed"], "sm")
     \/ /\ reg["near"].state = "armed"
        /\ Becomes("near", [reg["near"] EXCEPT !.state = "active"], "sm")

Effective(enabled, supported) == IF enabled = AllOnes THEN supported ELSE enabled

Common(a) ==
  Effective(reg["near"].enabled[a], Cap["near"].supported[a])
    \cap Effective(reg["far"].enabled[a], Cap["far"].supported[a])

\* The link comes up again, at a width and speeds that both ends allow.
Retrain ==
  /\ External
  /\ reg["near"].phys = "polling" \/ reg["near"].state # "down"
  /\ \E active \in [Aspects -> {1, 2, 4, 8, 16}] :
       /\ \A a \in Aspects : Common(a) # {} => active[a] \in Common(a)
       /\ \A a \in Aspects : Common(a) = {} => active[a] = reg["near"].active[a]
       /\ Becomes("near", [reg["near"] EXCEPT !.active = active, !.state = "init", !.phys = "up"], "sm")

Commanded(old, state) ==
  \/ state \in {Nop, "down"}
  \/ state = "armed" /\ old.state \in {"init", "armed"}
  \/ state = "active" /\ old.state \in {"armed", "active"}

\* What a Set of PortInfo makes of a port: plain fields are replaced, states and
\* masks may say that nothing is to be done.
Written(old, new) ==
  [old EXCEPT
     !.plain = new.plain,
     !.enabled = [a \in Aspects |-> IF new.enabled[a] = Nops THEN @[a] ELSE new.enabled[a]],
     !.phys = IF new.phys = Nop THEN @ ELSE new.phys,
     !.state = IF new.phys # Nop THEN "down" ELSE IF new.state = Nop THEN @ ELSE new.state]

------------------------------------------------------------------------------
(* What the tool makes of the buffer. *)

Asked(t) == DOMAIN Job[t].args
Changed(t) == Asked(t) # {} \/ Job[t].fdr10 # "unset"

\* Mutant of Placeholder: the LID is replaced unless it was asked for.
PlaceholderAlways(t, f) == f \in LidFields

\* "If we aren't setting the LID and the LID is the default, the SMA command will
\* fail due to an invalid LID.  Set it to something unlikely but valid."
Placeholder(t, f) == f \in LidFields /\ data[t].plain[f] \in {0, 65535}

Plain(t, f) ==
  IF f \in Asked(t) THEN Job[t].args[f]
  ELSE IF Placeholder(t, f) THEN Unlikely ELSE data[t].plain[f]

StateOf(t) ==
  CASE Job[t].op = "down" -> "down" [] Job[t].op = "arm" -> "armed"
    [] Job[t].op = "active" -> "active" [] OTHER -> Nop

PhysOf(t) ==
  CASE Job[t].op \in {"on", "enable", "reset"} -> "polling"
    [] Job[t].op \in {"off", "disable"} -> "disabled" [] OTHER -> Nop

\* Mutant of EnabledOf: the masks that were read are written back.
EnabledAsRead(t, a) == IF a \in Asked(t) THEN Job[t].args[a] ELSE data[t].enabled[a]

\* "always set enabled speeds/width - defaults to NOP"
EnabledOf(t, a) == IF a \in Asked(t) THEN Job[t].args[a] ELSE Nops

Changes(t) ==
  [data[t] EXCEPT !.plain = [f \in PlainFields |-> Plain(t, f)], !.state = StateOf(t),
     !.phys = PhysOf(t), !.enabled = [a \in Aspects |-> EnabledOf(t, a)]]

\* "Enable only if state is Disable"
AlreadyOn(t) == Job[t].op = "on" /\ data[t].phys # "disabled"

\* Mutant of Sets: PortInfo is written first.
SetsSwapped(t) ==
  <<Op("set", "near")>> \o (IF Job[t].fdr10 = "unset" THEN <<>> ELSE <<Op("setext", "near")>>)

Sets(t) ==
  (IF Job[t].fdr10 = "unset" THEN <<>> ELSE <<Op("setext", "near")>>) \o <<Op("set", "near")>>

Reads(e) ==
  (IF Cap[e].switch THEN <<Op("capmask", e)>> ELSE <<>>) \o <<Op("port", e)>>
  \o (IF Cap[e].epi THEN <<Op("ext", e)>> ELSE <<>>)

KeyRefused(t) == "mkey" \in Asked(t) /\ Cap["near"].switch

------------------------------------------------------------------------------
(* Comparing the link with its ends. *)

\* Mutant of Order: the bits as numbers.
OrderOfBits(a) == IF a = "width" THEN <<16, 8, 4, 2, 1>> ELSE <<4, 2, 1>>

\* The bits in the order validate_width, validate_speed and validate_extended_speed
\* try them.
Order(a) == IF a = "width" THEN <<8, 4, 2, 16, 1>> ELSE <<4, 2, 1>>

\* The first bit that both ends allow is not the active one.
Warns(a, mine, peer, active) ==
  \E i \in DOMAIN Order(a) :
    /\ Order(a)[i] \in mine \cap peer
    /\ \A j \in 1..(i - 1) : Order(a)[j] \notin mine \cap peer
    /\ active # Order(a)[i]

\* What is examined: extended speeds only if both ports have them, otherwise FDR10.
Extended == Cap["near"].espeed /\ Cap["far"].espeed

Warnings(t) ==
  LET mine == near[t].port
      Eff(port, a, e) == Effective(port.enabled[a], Cap[e].supported[a])
      examined == IF Extended THEN Aspects ELSE Aspects \ {"espeed"}
  IN  {a \in examined : Warns(a, Eff(mine, a, "near"), Eff(data[t], a, "far"), mine.active[a])}
      \cup {a \in {"fdr10"} : ~Extended /\ near[t].ext.enabled /\ data2[t].enabled /\ ~near[t].ext.active}

------------------------------------------------------------------------------
(* The tools. *)

Head1(t) == todo[t][1]
Doing(t, name) == pc[t] = "run" /\ todo[t] # <<>> /\ Head1(t).op = name
Go(t, ops) == todo' = [todo EXCEPT ![t] = ops \o Tail(@)] /\ UNCHANGED pc

Exits(t) ==
  /\ todo' = [todo EXCEPT ![t] = <<>>]
  /\ pc' = [pc EXCEPT ![t] = "exit"]

\* get_node_info
GetNodeInfo(t) ==
  /\ Doing(t, "node")
  /\ IF KeyRefused(t) THEN Exits(t)
     ELSE Go(t, Reads(Head1(t).end)
                \o <<Op(IF Head1(t).end = "near" THEN "decide" ELSE "validate", "near")>>)
  /\ UNCHANGED <<world, reg, sends, data, data2, near, warned, carried, read, dirty>>

\* get_port_info: of a switch, the capability mask is that of port 0.
GetCapMask(t) ==
  /\ Doing(t, "capmask")
  /\ Go(t, <<>>)
  /\ UNCHANGED <<world, reg, sends, data, data2, near, warned, carried, read, dirty>>

GetPortInfo(t) ==
  /\ Doing(t, "port")
  /\ LET e == Head1(t).end
     IN  /\ data' = [data EXCEPT ![t] = reg[e]]
         /\ read' = IF e = "near" THEN [read EXCEPT ![t] = reg[e]] ELSE read
         /\ dirty' = IF e = "near" THEN [dirty EXCEPT ![t] = {}] ELSE dirty
  /\ Go(t, <<>>)
  /\ UNCHANGED <<world, reg, sends, data2, near, warned, carried>>

\* get_mlnx_ext_port_info
GetExtPortInfo(t) ==
  /\ Doing(t, "ext")
  /\ data2' = [data2 EXCEPT ![t] = reg[Head1(t).end].ext]
  /\ Go(t, <<>>)
  /\ UNCHANGED <<world, reg, sends, data, near, warned, carried, read, dirty>>

\* The near port has been read: change it, or read its peer.
DecideSet(t) ==
  /\ Doing(t, "decide") /\ (Job[t].op # "query" \/ Changed(t))
  /\ IF AlreadyOn(t) THEN Go(t, <<>>) /\ UNCHANGED <<data, data2>>
     ELSE /\ data' = [data EXCEPT ![t] = Changes(t)]
          /\ data2' = IF Job[t].fdr10 = "unset" THEN data2
                      ELSE [data2 EXCEPT ![t].enabled = (Job[t].fdr10 = "on")]
          /\ Go(t, Sets(t))
  /\ UNCHANGED <<world, reg, sends, near, warned, carried, read, dirty>>

DecidePeer(t) ==
  /\ Doing(t, "decide") /\ Job[t].op = "query" /\ ~Changed(t)
  /\ IF Cap["near"].switch /\ data[t].state = "active"
     THEN Go(t, <<Op("node", "far")>>) /\ near' = [near EXCEPT ![t] = [port |-> data[t], ext |-> data2[t]]]
     ELSE Go(t, <<>>) /\ UNCHANGED near
  /\ UNCHANGED <<world, reg, sends, data, data2, warned, carried, read, dirty>>

Validate(t) ==
  /\ Doing(t, "validate")
  /\ warned' = [warned EXCEPT ![t] = Warnings(t)]
  /\ carried' = [carried EXCEPT ![t] = {"validated"}]
  /\ Go(t, <<>>)
  /\ UNCHANGED <<world, reg, sends, data, data2, near, read, dirty>>

\* The agent carries out a Set, once for each time that it is sent.
Sent(t, name) ==
  /\ Doing(t, name) /\ sends[t] < MaxSends
  /\ sends' = [sends EXCEPT ![t] = @ + 1]
  /\ carried' = [carried EXCEPT ![t] = @ \cup {name}]

CarryOutExt(t) ==
  /\ Sent(t, "setext")
  /\ Becomes("near", [reg["near"] EXCEPT !.ext.enabled = data2[t].enabled], t)
  /\ UNCHANGED <<world, todo, pc, data, data2, near, warned, read>>

CarryOut(t) ==
  /\ Sent(t, "set") /\ Commanded(reg["near"], data[t].state)
  /\ Becomes("near", Written(reg["near"], data[t]), t)
  /\ UNCHANGED <<world, todo, pc, data, data2, near, warned, read>>

\* set_mlnx_ext_port_info, set_port_info: the answer came.
SetDone(t) ==
  /\ sends[t] > 0
  /\ sends' = [sends EXCEPT ![t] = 0]
  /\ Go(t, <<>>)
  /\ UNCHANGED <<world, reg, data, data2, near, warned, carried, read, dirty>>

\* Any call may fail, and the tool exits.
CallFails(t) ==
  /\ pc[t] = "run" /\ todo[t] # <<>> /\ Head1(t).op \notin {"decide", "validate"}
  /\ sends' = [sends EXCEPT ![t] = 0]
  /\ Exits(t)
  /\ UNCHANGED <<world, reg, data, data2, near, warned, carried, read, dirty>>

Finish(t) ==
  /\ pc[t] = "run" /\ todo[t] = <<>>
  /\ pc' = [pc EXCEPT ![t] = "done"]
  /\ UNCHANGED <<world, reg, todo, sends, data, data2, near, warned, carried, read, dirty>>

Step(t) ==
  \/ GetNodeInfo(t) \/ GetCapMask(t) \/ GetPortInfo(t) \/ GetExtPortInfo(t)
  \/ DecideSet(t) \/ DecidePeer(t) \/ Validate(t)
  \/ CarryOutExt(t) \/ CarryOut(t) \/ SetDone(t) \/ CallFails(t) \/ Finish(t)

Next ==
  \/ SmConfigures \/ SmAdvances \/ Retrain
  \/ \E t \in Tools : Step(t)

Spec == Init /\ [][Next]_vars

------------------------------------------------------------------------------
Fires(t) == carried'[t] # carried[t] \/ sends'[t] > sends[t]

\* Nothing but what was asked for, or the placeholder for a LID that was not valid,
\* is changed by a write of PortInfo (ibportstate.c:637), except for what somebody
\* else changed between the read and the write: only that is undone.  And states and
\* masks that were not asked for are left alone also when the subnet manager or the
\* link has changed them since, and when the write is sent twice.
UnaskedIsUntouched ==
  [][ \A t \in Tools : Fires(t) =>
        /\ \A f \in PlainFields \ Asked(t) :
             reg'["near"].plain[f] # reg["near"].plain[f] =>
               f \in dirty[t] \/ (f \in LidFields /\ read[t].plain[f] \in {0, 65535})
        /\ Job[t].op = "query" => /\ reg'["near"].state = reg["near"].state
                                  /\ reg'["near"].phys = reg["near"].phys
        /\ \A a \in Aspects \ Asked(t) : reg'["near"].enabled[a] = reg["near"].enabled[a]
    ]_vars

\* What a tool that failed leaves behind is what it does first: PortInfo is not
\* changed unless the extended port information was.  One that ends well has done both.
PartIsExtended ==
  \A t \in Tools :
    /\ "set" \in carried[t] /\ Job[t].fdr10 # "unset" => "setext" \in carried[t]
    /\ pc[t] = "done" /\ "setext" \in carried[t] => "set" \in carried[t]

\* Of the widths, and of the speeds, the greatest: 12x, 8x, 4x, 2x, 1x.
Magnitude(a, r) ==
  IF a = "width" THEN CASE r = 8 -> 12 [] r = 4 -> 8 [] r = 2 -> 4 [] r = 16 -> 2 [] OTHER -> r ELSE r

Best(a, r) == r \in Common(a) /\ \A q \in Common(a) : Magnitude(a, q) <= Magnitude(a, r)

\* A query of a link that nobody touches meanwhile warns exactly if the link is not
\* as wide, and not as fast, as both its ends allow.
WarnsIfNotBest ==
  \A t \in Tools :
    /\ pc[t] = "done" /\ "validated" \in carried[t] /\ events = 0 /\ Tools = {t}
    => \A a \in IF Extended THEN Aspects ELSE {"width", "speed"} :
         Common(a) # {} => (a \in warned[t] <=> ~Best(a, reg["near"].active[a]))

=============================================================================
