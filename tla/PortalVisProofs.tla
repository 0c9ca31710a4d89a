-------------------------- MODULE PortalVisProofs --------------------------
(***************************************************************************)
(* What holds of qfvis for any map and any number of threads: no portal is *)
(* flowed by two threads or twice, all are done when the clusters are      *)
(* assembled, and a portal is found to see all that clear lines from it    *)
(* reach and nothing that the clipping rejects, in whatever order the      *)
(* threads met each other's results.                                       *)
(***************************************************************************)
EXTENDS PortalVis, SequenceTheorems, WellFoundedInduction, TLAPS

Frames == [cluster : Clusters, chain : Seq(Portals), prev : SUBSET Clusters, i : Nat \ {0}]

TypeOK ==
    /\ phase \in {"base", "full", "assembled"}
    /\ queue \subseteq Portals /\ finished \subseteq Threads
    /\ status \in [Portals -> Statuses]
    /\ mightsee \in [Portals -> SUBSET Clusters]
    /\ visbits \in [Portals -> SUBSET Clusters]
    /\ base \in [Threads -> Portals \cup {NoPortal}]
    /\ stack \in [Threads -> Seq(Frames)]

(* What the threads have taken is no longer in the queue, and is taken     *)
(* once; a thread that has returned works on nothing.                      *)
Taken ==
    /\ \A t \in Threads : base[t] # NoPortal =>
          /\ base[t] \notin queue /\ t \notin finished
          /\ \A u \in Threads \ {t} : base[u] # base[t]
    /\ \A t \in Threads : base[t] = NoPortal => stack[t] = <<>>
    /\ \A t \in Threads : t \in finished => queue = {}

(* Until it is flowed a portal has the status that GetNextPortal gave it,  *)
(* and in the full phase each waits, is worked on, or is done.             *)
Progress ==
    /\ phase = "base" => \A t \in Threads : stack[t] = <<>>
    /\ phase # "base" =>
          /\ \A t \in Threads : base[t] # NoPortal /\ stack[t] = <<>>
                => status[base[t]] = "selected"
          /\ \A p \in Portals :
                \/ phase = "full" /\ p \in queue
                \/ \E t \in Threads : base[t] = p
                \/ status[p] = "done"
    /\ phase = "assembled" => \A t \in Threads : base[t] = NoPortal

(* A frame stands at the end of a chain that starts with the portal.       *)
OnALine(f, p) ==
    /\ f.chain \in Open /\ Len(f.chain) > 0
    /\ f.chain[1] = p /\ f.cluster = Neighbour[f.chain[Len(f.chain)]]

Lines ==
    \A t \in Threads : \A k \in DOMAIN stack[t] : OnALine(stack[t][k], base[t])

(* A portal sees at most what chains from it reach that are accepted.      *)
VisIsSound == \A p \in Portals : visbits[p] \subseteq Ends(Open, p)

(* Every portal is done when ClusterFlow asks ("portal not done").         *)
AllDone == phase = "assembled" => \A p \in Portals : status[p] = "done"

(* What PortalBase leaves is all that can be seen; a portal has no status  *)
(* only until the base phase takes it, and is worked on while its thread   *)
(* is inside RecursiveClusterFlow.                                         *)
Known ==
    /\ \A p \in Portals :
          \/ Ends(Clear, p) \subseteq mightsee[p]
          \/ phase = "base" /\ (p \in queue \/ \E t \in Threads : base[t] = p)
    /\ \A p \in Portals : status[p] = "none" => phase = "base" /\ p \in queue
    /\ \A t \in Threads : stack[t] # <<>> =>
          phase = "full" /\ status[base[t]] = "working"

(* A chain goes on from a frame, k portals deep.                           *)
GoesOn(chain, f, k) == Len(chain) > k /\ SubSeq(chain, 1, k) = f.chain
(* What a frame may still find holds all that lines through it reach.      *)
Promising(f, k) ==
    \A chain \in Clear : GoesOn(chain, f, k) =>
        \A m \in k + 1 .. Len(chain) : Neighbour[chain[m]] \in f.prev

(* The frames of a thread stand one portal further than each other.        *)
Nested ==
    \A t \in Threads : \A k \in DOMAIN stack[t] :
        /\ Len(stack[t][k].chain) = k
        /\ \A m \in 1 .. k : stack[t][m].chain = SubSeq(stack[t][k].chain, 1, m)
        /\ stack[t][k].cluster \in visbits[base[t]]
        /\ Promising(stack[t][k], k)

(* The loop of a frame has yet to come to the chain's next portal.         *)
ToCome(chain, f, k) ==
    GoesOn(chain, f, k)
    /\ \E j \in f.i .. Len(Exits[f.cluster]) : Exits[f.cluster][j] = chain[k + 1]
(* The end of each line is seen already, or one of the loops comes to it.  *)
NothingMissed ==
    /\ \A t \in Threads : stack[t] # <<>> =>
          \A chain \in Clear : chain[1] = base[t] =>
              \/ Neighbour[chain[Len(chain)]] \in visbits[base[t]]
              \/ \E k \in DOMAIN stack[t] : ToCome(chain, stack[t][k], k)
    /\ \A p \in Portals : status[p] = "done" => Ends(Clear, p) \subseteq visbits[p]

----------------------------------------------------------------------------
LEMMA TopFacts ==
    ASSUME TypeOK, NEW t \in Threads, Working(t)
    PROVE  /\ Len(stack[t]) \in DOMAIN stack[t]
           /\ Top(t) \in Frames
           /\ MoreExits(t) => Target(t) \in Portals
           /\ Advanced(t) \in Seq(Frames)
           /\ Len(Advanced(t)) = Len(stack[t])
           /\ \A k \in DOMAIN stack[t] :
                 /\ Advanced(t)[k].chain = stack[t][k].chain
                 /\ Advanced(t)[k].cluster = stack[t][k].cluster
<1> DEFINE s == stack[t] n == Len(s)
<1>1. s \in Seq(Frames) /\ s # <<>>
  BY DEF TypeOK, Working
<1>2. n \in DOMAIN s /\ s[n] \in Frames
  BY <1>1
<1>3. Top(t) = s[n]
  BY DEF Top
<1>4. Exits[Top(t).cluster] \in Seq(Portals) /\ Top(t).i \in Nat \ {0}
  BY <1>2, <1>3, GeometryAssumption DEF Frames
<1>5. MoreExits(t) => Target(t) \in Portals
  BY <1>4 DEF MoreExits, Target
<1>6. [s[n] EXCEPT !.i = @ + 1] \in Frames
  BY <1>2 DEF Frames
<1>7. Advanced(t) = [s EXCEPT ![n] = [s[n] EXCEPT !.i = @ + 1]]
  BY <1>1, <1>2 DEF Advanced
<1>8. Advanced(t) \in Seq(Frames) /\ Len(Advanced(t)) = Len(s)
  BY <1>1, <1>2, <1>6, <1>7
<1>9. ASSUME NEW k \in DOMAIN s
      PROVE  /\ Advanced(t)[k].chain = s[k].chain
             /\ Advanced(t)[k].cluster = s[k].cluster
  <2>1. s[k] \in Frames
    BY <1>1, <1>9
  <2>2. CASE k = n
    BY <2>1, <2>2, <1>1, <1>2, <1>7 DEF Frames
  <2>3. CASE k # n
    BY <2>3, <1>1, <1>2, <1>7
  <2> QED BY <2>2, <2>3
<1> QED BY <1>2, <1>3, <1>5, <1>8, <1>9

LEMMA InitType == Init => TypeOK
BY GeometryAssumption DEF Init, TypeOK, Statuses

LEMMA StepType == TypeOK /\ [Next]_vars => TypeOK'
<1> SUFFICES ASSUME TypeOK, [Next]_vars PROVE TypeOK'
  OBVIOUS
<1>1. ASSUME NEW t \in Threads, GetNextPortal(t) PROVE TypeOK'
  BY <1>1 DEF TypeOK, GetNextPortal, Statuses
<1>2. ASSUME NEW t \in Threads, PortalBase(t) PROVE TypeOK'
  <2>1. base[t] \in Portals /\ Flooded(base[t]) \in SUBSET Clusters
    BY <1>2 DEF TypeOK, PortalBase, Flooded
  <2> QED BY <1>2, <2>1 DEF TypeOK, PortalBase
<1>3. ASSUME NEW t \in Threads, PortalFlow(t) PROVE TypeOK'
  <2> DEFINE p == base[t] f == Frame(Neighbour[p], <<p>>, mightsee[p])
  <2>1. p \in Portals
    BY <1>3 DEF TypeOK, PortalFlow
  <2>2. f \in Frames /\ Neighbour[p] \in Clusters
    BY <2>1, GeometryAssumption DEF TypeOK, Frame, Frames
  <2>3. <<f>> \in Seq(Frames)
    BY <2>2
  <2>4. stack' = [stack EXCEPT ![t] = <<f>>]
    BY <1>3 DEF PortalFlow
  <2>5. stack' \in [Threads -> Seq(Frames)]
    BY <2>3, <2>4 DEF TypeOK
  <2>6. /\ status' \in [Portals -> Statuses]
        /\ visbits' \in [Portals -> SUBSET Clusters]
    BY <1>3, <2>2 DEF TypeOK, PortalFlow, Statuses
  <2> QED BY <1>3, <2>5, <2>6 DEF TypeOK, PortalFlow
<1>4. ASSUME NEW t \in Threads, NextExit(t) PROVE TypeOK'
  <2> DEFINE c == Neighbour[Target(t)]
             f == Frame(c, Append(Top(t).chain, Target(t)), Might(t))
  <2>0. Working(t) /\ MoreExits(t)
    BY <1>4 DEF NextExit
  <2>1. Top(t) \in Frames /\ Target(t) \in Portals /\ Advanced(t) \in Seq(Frames)
    BY <2>0, TopFacts
  <2>2. c \in Clusters
    BY <2>1, GeometryAssumption
  <2>3. f \in Frames
    <3>1. Append(Top(t).chain, Target(t)) \in Seq(Portals)
      BY <2>1 DEF Frames
    <3>2. Might(t) \in SUBSET Clusters
      BY <2>1 DEF Might, Frames
    <3> QED BY <2>2, <3>1, <3>2 DEF Frame, Frames
  <2>4. Append(Advanced(t), f) \in Seq(Frames)
    BY <2>1, <2>3
  <2>5. \/ /\ visbits' = [visbits EXCEPT ![base[t]] = @ \cup {c}]
           /\ stack' = [stack EXCEPT ![t] = Append(Advanced(t), f)]
        \/ stack' = [stack EXCEPT ![t] = Advanced(t)] /\ visbits' = visbits
    BY <1>4 DEF NextExit
  <2>6. stack' \in [Threads -> Seq(Frames)]
    BY <2>1, <2>4, <2>5 DEF TypeOK
  <2>7. visbits' \in [Portals -> SUBSET Clusters]
    BY <2>2, <2>5 DEF TypeOK
  <2> QED BY <1>4, <2>6, <2>7 DEF TypeOK, NextExit
<1>5. ASSUME NEW t \in Threads, Return(t) PROVE TypeOK'
  <2>1. stack[t] \in Seq(Frames) /\ Len(stack[t]) > 1
    BY <1>5 DEF TypeOK, Return
  <2>2. SubSeq(stack[t], 1, Len(stack[t]) - 1) \in Seq(Frames)
    BY <2>1
  <2> QED BY <1>5, <2>2 DEF TypeOK, Return
<1>6. ASSUME NEW t \in Threads, PortalCompleted(t) PROVE TypeOK'
  <2>1. ASSUME NEW q \in Portals
        PROVE  mightsee'[q] \in SUBSET mightsee[q]
    BY <1>6, <2>1 DEF PortalCompleted, UpdateMightsee
  <2>2. mightsee' \in [Portals -> SUBSET Clusters]
    BY <1>6, <2>1 DEF PortalCompleted, UpdateMightsee, TypeOK
  <2>3. stack' \in [Threads -> Seq(Frames)]
    BY <1>6 DEF PortalCompleted, TypeOK
  <2> QED BY <1>6, <2>2, <2>3 DEF PortalCompleted, TypeOK, Statuses
<1>7. CASE Join
  BY <1>7 DEF Join, TypeOK
<1>8. CASE UNCHANGED vars
  BY <1>8 DEF TypeOK, vars
<1> QED BY <1>1, <1>2, <1>3, <1>4, <1>5, <1>6, <1>7, <1>8
        DEF Next, Thread, Assembled

(* Every variable of the portal threads keeps its type, for any map and    *)
(* any number of threads.                                                  *)
THEOREM TypeCorrect == Spec => []TypeOK
<1> QED BY InitType, StepType, PTL DEF Spec

----------------------------------------------------------------------------
LEMMA InitTaken == Init => Taken /\ Progress
BY DEF Init, Taken, Progress

LEMMA StepTaken == TypeOK /\ Taken /\ Progress /\ [Next]_vars => Taken'
<1> SUFFICES ASSUME TypeOK, Taken, Progress, [Next]_vars PROVE Taken'
  OBVIOUS
<1>1. ASSUME NEW t \in Threads, GetNextPortal(t) PROVE Taken'
  <2>1. CASE queue = {} /\ finished' = finished \cup {t} /\ UNCHANGED <<queue, base>>
    BY <1>1, <2>1 DEF Taken, GetNextPortal
  <2>2. ASSUME NEW p \in queue, queue' = queue \ {p},
               base' = [base EXCEPT ![t] = p], UNCHANGED finished
        PROVE  Taken'
    <3>1. /\ base'[t] = p /\ p # NoPortal /\ base[t] = NoPortal /\ t \notin finished
          /\ queue # {} /\ UNCHANGED stack
      BY <1>1, <2>2, GeometryAssumption DEF GetNextPortal, TypeOK
    <3>2. \A u \in Threads \ {t} : base'[u] = base[u] /\ base[u] # p
      BY <2>2, <3>1 DEF TypeOK, Taken
    <3> QED BY <2>2, <3>1, <3>2 DEF Taken
  <2> QED BY <1>1, <2>1, <2>2 DEF GetNextPortal
<1>2. ASSUME NEW t \in Threads, PortalBase(t) PROVE Taken'
  <2>1. base' = [base EXCEPT ![t] = NoPortal] /\ UNCHANGED <<queue, finished, stack>>
    BY <1>2 DEF PortalBase
  <2>2. stack[t] = <<>>
    BY <1>2 DEF PortalBase, Progress
  <2> QED BY <2>1, <2>2 DEF TypeOK, Taken
<1>3. ASSUME NEW t \in Threads, PortalFlow(t) PROVE Taken'
  BY <1>3 DEF TypeOK, Taken, PortalFlow
<1>4. ASSUME NEW t \in Threads, NextExit(t) PROVE Taken'
  <2>1. base[t] # NoPortal
    BY <1>4 DEF NextExit, Working, Taken
  <2>2. /\ \A u \in Threads \ {t} : stack'[u] = stack[u]
        /\ UNCHANGED <<queue, base, finished>>
    BY <1>4 DEF NextExit, TypeOK
  <2> QED BY <2>1, <2>2 DEF Taken
<1>5. ASSUME NEW t \in Threads, Return(t) PROVE Taken'
  <2>1. base[t] # NoPortal
    BY <1>5 DEF Return, Working, Taken
  <2>2. /\ \A u \in Threads \ {t} : stack'[u] = stack[u]
        /\ UNCHANGED <<queue, base, finished>>
    BY <1>5 DEF Return, TypeOK
  <2> QED BY <2>1, <2>2 DEF Taken
<1>6. ASSUME NEW t \in Threads, PortalCompleted(t) PROVE Taken'
  BY <1>6 DEF TypeOK, Taken, PortalCompleted
<1>7. CASE Join
  <2>1. \A t \in Threads : base[t] = NoPortal
    BY <1>7 DEF Join, Taken
  <2> QED BY <1>7, <2>1 DEF Join, Taken
<1>8. CASE UNCHANGED vars
  BY <1>8 DEF Taken, vars
<1> QED BY <1>1, <1>2, <1>3, <1>4, <1>5, <1>6, <1>7, <1>8
        DEF Next, Thread, Assembled

LEMMA StepProgress == TypeOK /\ Taken /\ Progress /\ [Next]_vars => Progress'
<1> SUFFICES ASSUME TypeOK, Taken, Progress, [Next]_vars PROVE Progress'
  OBVIOUS
<1>1. ASSUME NEW t \in Threads, GetNextPortal(t) PROVE Progress'
  <2>1. CASE UNCHANGED <<queue, base, status>>
    BY <1>1, <2>1 DEF GetNextPortal, Progress
  <2>2. ASSUME NEW p \in queue, queue' = queue \ {p},
               base' = [base EXCEPT ![t] = p],
               status' = [status EXCEPT ![p] = "selected"]
        PROVE  Progress'
    <3>1. p \in Portals /\ base'[t] = p /\ status'[p] = "selected"
          /\ phase # "assembled" /\ UNCHANGED <<phase, stack>>
          /\ base[t] = NoPortal
      BY <1>1, <2>2 DEF GetNextPortal, TypeOK
    <3>2. \A u \in Threads \ {t} : base'[u] = base[u] /\ base[u] # p
      BY <2>2, <3>1, GeometryAssumption DEF TypeOK, Taken
    <3>3. \A q \in Portals \ {p} : status'[q] = status[q]
      BY <2>2 DEF TypeOK
    <3>4. \A u \in Threads : base[u] # NoPortal => base[u] \in Portals
      BY DEF TypeOK
    <3> QED BY <2>2, <3>1, <3>2, <3>3, <3>4, GeometryAssumption DEF Progress
  <2> QED BY <1>1, <2>1, <2>2 DEF GetNextPortal
<1>2. ASSUME NEW t \in Threads, PortalBase(t) PROVE Progress'
  BY <1>2 DEF Progress, PortalBase
<1>3. ASSUME NEW t \in Threads, PortalFlow(t) PROVE Progress'
  <2> DEFINE p == base[t]
  <2>1. /\ p \in Portals /\ phase = "full" /\ status[p] = "selected"
        /\ status' = [status EXCEPT ![p] = "working"]
        /\ stack'[t] # <<>>
        /\ UNCHANGED <<phase, queue, base>>
    BY <1>3 DEF PortalFlow, TypeOK
  <2>2. \A u \in Threads \ {t} : stack'[u] = stack[u] /\ base[u] # p
    BY <1>3, <2>1, GeometryAssumption DEF PortalFlow, TypeOK, Taken
  <2>3. \A u \in Threads : base[u] # NoPortal => base[u] \in Portals
    BY DEF TypeOK
  <2>4. \A q \in Portals \ {p} : status'[q] = status[q]
    BY <2>1 DEF TypeOK
  <2> QED BY <2>1, <2>2, <2>3, <2>4 DEF Progress
<1>4. ASSUME NEW t \in Threads, NextExit(t) PROVE Progress'
  <2>1. phase = "full" /\ stack'[t] # <<>> /\ UNCHANGED <<phase, queue, status, base>>
    <3>1. Advanced(t) \in Seq(Frames) /\ Len(Advanced(t)) = Len(stack[t])
      BY <1>4, TopFacts DEF NextExit
    <3>2. stack[t] \in Seq(Frames) /\ stack[t] # <<>>
      BY <1>4 DEF NextExit, Working, TypeOK
    <3>3. Advanced(t) # <<>>
      BY <3>1, <3>2
    <3>4. \A f : Append(Advanced(t), f) # <<>>
      BY <3>1
    <3>5. stack' = [stack EXCEPT ![t] = Advanced(t)]
          \/ \E f : stack' = [stack EXCEPT ![t] = Append(Advanced(t), f)]
      BY <1>4 DEF NextExit
    <3> QED BY <1>4, <3>3, <3>4, <3>5 DEF NextExit, Working, TypeOK
  <2>2. \A u \in Threads \ {t} : stack'[u] = stack[u]
    BY <1>4 DEF NextExit, TypeOK
  <2> QED BY <2>1, <2>2 DEF Progress
<1>5. ASSUME NEW t \in Threads, Return(t) PROVE Progress'
  <2>1. phase = "full" /\ stack'[t] # <<>> /\ UNCHANGED <<phase, queue, status, base>>
    <3>1. stack[t] \in Seq(Frames) /\ Len(stack[t]) > 1
      BY <1>5 DEF Return, TypeOK
    <3>2. SubSeq(stack[t], 1, Len(stack[t]) - 1) # <<>>
      <4> DEFINE n == Len(stack[t]) - 1
      <4>1. n \in Nat \ {0}
        <5>1. Len(stack[t]) \in Nat
          BY <3>1
        <5>2. \A m \in Nat : m > 1 => m - 1 \in Nat \ {0}
          OBVIOUS
        <5> QED BY <3>1, <5>1, <5>2
      <4>2. Len(SubSeq(stack[t], 1, n)) = n
        BY <3>1, <4>1
      <4> QED BY <4>1, <4>2
    <3> QED BY <1>5, <3>2 DEF Return, Working, TypeOK
  <2>2. \A u \in Threads \ {t} : stack'[u] = stack[u]
    BY <1>5 DEF Return, TypeOK
  <2> QED BY <2>1, <2>2 DEF Progress
<1>6. ASSUME NEW t \in Threads, PortalCompleted(t) PROVE Progress'
  <2> DEFINE p == base[t]
  <2>1. /\ p \in Portals /\ phase = "full" /\ status'[p] = "done"
        /\ status' = [status EXCEPT ![p] = "done"]
        /\ base' = [base EXCEPT ![t] = NoPortal]
        /\ base'[t] = NoPortal
        /\ UNCHANGED <<phase, queue>>
    BY <1>6 DEF PortalCompleted, Working, TypeOK, Taken
  <2>2. \A u \in Threads \ {t} : stack'[u] = stack[u] /\ base'[u] = base[u]
    BY <1>6, <2>1 DEF PortalCompleted, TypeOK
  <2>3. \A u \in Threads \ {t} : base[u] # p
    BY <2>1, GeometryAssumption DEF TypeOK, Taken
  <2>4. \A u \in Threads : base[u] # NoPortal => base[u] \in Portals
    BY DEF TypeOK
  <2>5. \A q \in Portals \ {p} : status'[q] = status[q]
    BY <2>1 DEF TypeOK
  <2> QED BY <2>1, <2>2, <2>3, <2>4, <2>5 DEF Progress
<1>7. CASE Join
  <2>1. \A t \in Threads : base[t] = NoPortal /\ stack[t] = <<>>
    BY <1>7 DEF Join, Taken
  <2>2. queue = {}
    BY <1>7, ThreadsAssumption DEF Join, Taken
  <2> QED BY <1>7, <2>1, <2>2, GeometryAssumption DEF Join, Progress
<1>8. CASE UNCHANGED vars
  BY <1>8 DEF Progress, vars
<1> QED BY <1>1, <1>2, <1>3, <1>4, <1>5, <1>6, <1>7, <1>8
        DEF Next, Thread, Assembled

(* No two threads ever work on one portal, and none flows a portal that    *)
(* was flowed, for any number of threads: the Sys_Error of PortalFlow is   *)
(* never reached.                                                          *)
THEOREM FlowedOnce == Spec => []NeverReflowed
<1>1. TypeOK /\ Taken /\ Progress => NeverReflowed
  BY DEF TypeOK, Taken, Progress, NeverReflowed
<1> QED BY <1>1, InitType, StepType, InitTaken, StepTaken, StepProgress, PTL DEF Spec

(* Nor is that of ClusterFlow: when RunThreads has returned for the second *)
(* time, every portal is done.                                             *)
THEOREM EveryPortalDone == Spec => []AllDone
<1>1. TypeOK /\ Progress => AllDone
  BY GeometryAssumption DEF TypeOK, Progress, AllDone
<1> QED BY <1>1, InitType, StepType, InitTaken, StepTaken, StepProgress, PTL DEF Spec
----------------------------------------------------------------------------
LEMMA InitSound == Init => Lines /\ VisIsSound
BY DEF Init, Lines, VisIsSound

(* The end of an open chain is seen from its start.                        *)
LEMMA Reached ==
    ASSUME NEW chain \in Open, Len(chain) > 0
    PROVE  Neighbour[chain[Len(chain)]] \in Ends(Open, chain[1])
BY DEF Ends

LEMMA StepSound ==
    TypeOK /\ Taken /\ Progress /\ Lines /\ VisIsSound /\ [Next]_vars
        => Lines' /\ VisIsSound'
<1> SUFFICES ASSUME TypeOK, Taken, Progress, Lines, VisIsSound, [Next]_vars
             PROVE  Lines' /\ VisIsSound'
  OBVIOUS
<1>1. ASSUME NEW t \in Threads, GetNextPortal(t) PROVE Lines' /\ VisIsSound'
  <2>1. stack[t] = <<>> /\ UNCHANGED <<stack, visbits>>
    BY <1>1 DEF GetNextPortal, Taken
  <2>2. \A u \in Threads \ {t} : base'[u] = base[u]
    BY <1>1 DEF GetNextPortal, TypeOK
  <2> QED BY <2>1, <2>2 DEF Lines, VisIsSound
<1>2. ASSUME NEW t \in Threads, PortalBase(t) PROVE Lines' /\ VisIsSound'
  <2>1. UNCHANGED <<stack, visbits>>
    BY <1>2 DEF PortalBase
  <2>2. \A u \in Threads \ {t} : base'[u] = base[u]
    BY <1>2 DEF PortalBase, TypeOK
  <2>3. stack[t] = <<>>
    BY <1>2 DEF PortalBase, Progress
  <2> QED BY <2>1, <2>2, <2>3 DEF Lines, VisIsSound
<1>3. ASSUME NEW t \in Threads, PortalFlow(t) PROVE Lines' /\ VisIsSound'
  <2> DEFINE p == base[t] f == Frame(Neighbour[p], <<p>>, mightsee[p])
  <2>1. p \in Portals /\ UNCHANGED base
    BY <1>3 DEF TypeOK, PortalFlow
  <2>2. /\ stack' = [stack EXCEPT ![t] = <<f>>]
        /\ visbits' = [visbits EXCEPT ![p] = {Neighbour[p]}]
    BY <1>3 DEF PortalFlow
  <2>3. OnALine(f, p)
    BY <2>1, GeometryAssumption DEF OnALine, Frame
  <2>4. Neighbour[p] \in Ends(Open, p)
    <3>1. <<p>> \in Open /\ Len(<<p>>) = 1 /\ <<p>>[1] = p
      BY <2>1, GeometryAssumption
    <3> QED BY <3>1, Reached
  <2>5. Lines'
    BY <2>1, <2>2, <2>3 DEF TypeOK, Lines
  <2>6. VisIsSound'
    BY <2>1, <2>2, <2>4 DEF TypeOK, VisIsSound
  <2> QED BY <2>5, <2>6
<1>4. ASSUME NEW t \in Threads, NextExit(t) PROVE Lines' /\ VisIsSound'
  <2> DEFINE c == Neighbour[Target(t)] chain == Append(Top(t).chain, Target(t))
             f == Frame(c, chain, Might(t))
  <2>1. /\ Len(stack[t]) \in DOMAIN stack[t] /\ Top(t) = stack[t][Len(stack[t])]
        /\ Top(t) \in Frames /\ Target(t) \in Portals
        /\ Advanced(t) \in Seq(Frames) /\ Len(Advanced(t)) = Len(stack[t])
        /\ UNCHANGED base /\ stack[t] \in Seq(Frames) /\ base[t] \in Portals
    BY <1>4, TopFacts DEF NextExit, Top, TypeOK, Taken, Working
  <2>2. OnALine(Top(t), base[t])
    BY <2>1 DEF Lines
  <2>3. \A k \in DOMAIN stack[t] : OnALine(Advanced(t)[k], base[t])
    BY <1>4, TopFacts DEF NextExit, Lines, OnALine
  <2>4. DOMAIN Advanced(t) = DOMAIN stack[t]
    BY <2>1
  <2>5. CASE Flows(t)
    <3>1. /\ visbits' = [visbits EXCEPT ![base[t]] = @ \cup {c}]
          /\ stack' = [stack EXCEPT ![t] = Append(Advanced(t), f)]
      BY <1>4, <2>5 DEF NextExit
    <3>2. chain \in Open
      BY <2>5 DEF Flows
    <3>3. Len(chain) > 0 /\ chain[1] = base[t] /\ chain[Len(chain)] = Target(t)
      BY <2>1, <2>2 DEF OnALine, Frames
    <3>4. OnALine(f, base[t])
      BY <3>2, <3>3 DEF OnALine, Frame
    <3>5. c \in Ends(Open, base[t])
      BY <3>2, <3>3, Reached
    <3>6. \A k \in DOMAIN Append(Advanced(t), f) :
              OnALine(Append(Advanced(t), f)[k], base[t])
      <4> SUFFICES ASSUME NEW k \in DOMAIN Append(Advanced(t), f)
                   PROVE  OnALine(Append(Advanced(t), f)[k], base[t])
        OBVIOUS
      <4>1. CASE k = Len(Advanced(t)) + 1
        <5>1. Append(Advanced(t), f)[k] = f
          BY <2>1, <4>1
        <5> QED BY <3>4, <5>1
      <4>2. CASE k # Len(Advanced(t)) + 1
        <5>1. k \in DOMAIN stack[t] /\ Append(Advanced(t), f)[k] = Advanced(t)[k]
          BY <2>1, <2>4, <4>2
        <5> QED BY <2>3, <5>1
      <4> QED BY <4>1, <4>2
    <3>7. Lines'
      BY <2>1, <3>1, <3>6 DEF TypeOK, Lines
    <3>8. VisIsSound'
      BY <2>1, <3>1, <3>5 DEF TypeOK, VisIsSound
    <3> QED BY <3>7, <3>8
  <2>6. CASE ~Flows(t)
    <3>1. stack' = [stack EXCEPT ![t] = Advanced(t)] /\ UNCHANGED visbits
      BY <1>4, <2>6 DEF NextExit
    <3> QED BY <2>1, <2>3, <2>4, <3>1 DEF TypeOK, Lines, VisIsSound
  <2> QED BY <2>5, <2>6
<1>5. ASSUME NEW t \in Threads, Return(t) PROVE Lines' /\ VisIsSound'
  <2>1. /\ stack[t] \in Seq(Frames) /\ Len(stack[t]) > 1
        /\ stack' = [stack EXCEPT ![t] = SubSeq(@, 1, Len(@) - 1)]
        /\ UNCHANGED <<base, visbits>>
    BY <1>5 DEF TypeOK, Return
  <2>2. \A k \in DOMAIN SubSeq(stack[t], 1, Len(stack[t]) - 1) :
            /\ k \in DOMAIN stack[t]
            /\ SubSeq(stack[t], 1, Len(stack[t]) - 1)[k] = stack[t][k]
    BY <2>1
  <2> QED BY <2>1, <2>2 DEF TypeOK, Lines, VisIsSound
<1>6. ASSUME NEW t \in Threads, PortalCompleted(t) PROVE Lines' /\ VisIsSound'
  <2>1. /\ stack' = [stack EXCEPT ![t] = <<>>] /\ UNCHANGED visbits
        /\ base' = [base EXCEPT ![t] = NoPortal]
    BY <1>6 DEF PortalCompleted
  <2> QED BY <2>1 DEF TypeOK, Lines, VisIsSound
<1>7. CASE Join
  BY <1>7 DEF Join, Lines, VisIsSound
<1>8. CASE UNCHANGED vars
  BY <1>8 DEF Lines, VisIsSound, vars
<1> QED BY <1>1, <1>2, <1>3, <1>4, <1>5, <1>6, <1>7, <1>8
        DEF Next, Thread, Assembled

(* At no time, and whichever results of other threads it used, is a portal *)
(* marked to see a cluster that no chain which the clipping accepts leads  *)
(* to.                                                                     *)
THEOREM SeesNoMore == Spec => []VisIsSound
<1> QED BY InitType, StepType, InitTaken, StepTaken, StepProgress,
           InitSound, StepSound, PTL DEF Spec

----------------------------------------------------------------------------
(* Chains.  What holds along a chain is shown by looking at the least      *)
(* place where it would fail.                                              *)

LEMMA LeastPlace ==
    ASSUME NEW S, S \subseteq Nat, S # {}
    PROVE  \E i \in S : \A k \in S : ~(k < i)
<1>1. PICK i \in S : \A k \in S : ~(<<k, i>> \in OpToRel(<, Nat))
  BY WFMin, NatLessThanWellFounded, Zenon
<1>2. \A k \in S : <<k, i>> \in Nat \X Nat
  OBVIOUS
<1>3. \A k \in S : ~(k < i)
  BY <1>1, <1>2, Zenon DEF OpToRel
<1> QED BY <1>3

LEMMA ClearChain ==
    ASSUME NEW chain \in Clear
    PROVE  chain \in Seq(Portals) /\ Len(chain) \in Nat \ {0}
<1>1. chain \in Seq(Portals) /\ chain # <<>>
  BY GeometryAssumption
<1>2. Len(chain) # 0
  BY <1>1, EmptySeq
<1> QED BY <1>1, <1>2

LEMMA ClearSuffix ==
    ASSUME NEW chain \in Clear, NEW n \in 1 .. Len(chain)
    PROVE  SubSeq(chain, n, Len(chain)) \in Clear
<1> DEFINE S(i) == SubSeq(chain, i, Len(chain))
           bad == {i \in 1 .. Len(chain) : S(i) \notin Clear}
<1>0. chain \in Seq(Portals) /\ Len(chain) \in Nat \ {0}
  BY ClearChain
<1> SUFFICES ASSUME bad # {} PROVE FALSE
  OBVIOUS
<1>1. bad \subseteq Nat
  OBVIOUS
<1> HIDE DEF bad
<1>2. PICK i \in bad : \A k \in bad : ~(k < i)
  BY <1>1, LeastPlace
<1>3. i \in 1 .. Len(chain) /\ S(i) \notin Clear
  BY <1>2 DEF bad
<1>4. CASE i = 1
  <2>1. S(1) = chain
    BY <1>0
  <2> QED BY <1>3, <1>4, <2>1
<1>5. CASE i # 1
  <2> DEFINE s == S(i - 1)
  <2>1. i \in Nat /\ i - 1 \in 1 .. Len(chain) /\ i - 1 < i
    BY <1>0, <1>3, <1>5
  <2>2. s \in Clear
    BY <1>2, <2>1 DEF bad
  <2>3. Len(s) = Len(chain) - i + 2 /\ Len(s) > 1
    BY <1>0, <1>3, <2>1
  <2>4. SuffixOf(s) \in Clear
    <3> HIDE DEF s
    <3> QED BY <2>2, <2>3, LinesAssumption
  <2>5. SuffixOf(s) = S(i)
    <3>1. SuffixOf(s) = SubSeq(s, 2, Len(s))
      BY DEF SuffixOf
    <3>2. /\ s \in Seq(Portals)
          /\ \A k \in 1 .. Len(s) : s[k] = chain[k + i - 2]
      BY <1>0, <2>1, <2>3
    <3>3. /\ S(i) \in Seq(Portals) /\ Len(S(i)) = Len(chain) - i + 1
          /\ \A k \in 1 .. Len(S(i)) : S(i)[k] = chain[k + i - 1]
      BY <1>0, <1>3
    <3> HIDE DEF s, S
    <3>4. /\ SubSeq(s, 2, Len(s)) \in Seq(Portals)
          /\ Len(SubSeq(s, 2, Len(s))) = Len(s) - 1
          /\ \A k \in 1 .. Len(s) - 1 : SubSeq(s, 2, Len(s))[k] = s[k + 1]
      BY <2>3, <3>2
    <3>5. Len(S(i)) = Len(s) - 1
      BY <1>0, <2>1, <2>3, <3>3
    <3>6. ASSUME NEW k \in 1 .. Len(s) - 1
          PROVE  SubSeq(s, 2, Len(s))[k] = S(i)[k]
      <4>1. k + 1 \in 1 .. Len(s) /\ (k + 1) + i - 2 = k + i - 1 /\ k \in 1 .. Len(S(i))
        BY <1>0, <2>1, <2>3, <3>5
      <4> QED BY <3>2, <3>3, <3>4, <4>1
    <3> QED BY <3>1, <3>3, <3>4, <3>5, <3>6, SeqEqual
  <2> QED BY <1>3, <2>4, <2>5
<1> QED BY <1>4, <1>5

LEMMA ClearPrefix ==
    ASSUME NEW chain \in Clear, NEW n \in 1 .. Len(chain)
    PROVE  SubSeq(chain, 1, n) \in Clear
<1> DEFINE P(d) == SubSeq(chain, 1, Len(chain) - d)
           bad == {d \in 0 .. Len(chain) - 1 : P(d) \notin Clear}
<1>0. chain \in Seq(Portals) /\ Len(chain) \in Nat \ {0}
  BY ClearChain
<1>1. bad \subseteq Nat
  OBVIOUS
<1>2. bad = {}
  <2> SUFFICES ASSUME bad # {} PROVE FALSE
    OBVIOUS
  <2> HIDE DEF bad
  <2>2. PICK d \in bad : \A k \in bad : ~(k < d)
    BY <1>1, LeastPlace
  <2>3. d \in 0 .. Len(chain) - 1 /\ P(d) \notin Clear
    BY <2>2 DEF bad
  <2>4. CASE d = 0
    <3>1. P(0) = chain
      BY <1>0
    <3> QED BY <2>3, <2>4, <3>1
  <2>5. CASE d # 0
    <3> DEFINE s == P(d - 1)
    <3>1. d \in Nat /\ d - 1 \in 0 .. Len(chain) - 1 /\ d - 1 < d
      BY <1>0, <2>3, <2>5
    <3>2. s \in Clear
      BY <2>2, <3>1 DEF bad
    <3>3. Len(s) = Len(chain) - d + 1 /\ Len(s) > 1
      BY <1>0, <2>3, <3>1
    <3>4. SubSeq(s, 1, Len(s) - 1) \in Clear
      <4> HIDE DEF s
      <4> QED BY <3>2, <3>3, LinesAssumption
    <3>5. SubSeq(s, 1, Len(s) - 1) = P(d)
      <4>2. /\ s \in Seq(Portals)
            /\ \A k \in 1 .. Len(s) : s[k] = chain[k]
        BY <1>0, <3>1, <3>3
      <4>3. /\ P(d) \in Seq(Portals) /\ Len(P(d)) = Len(chain) - d
            /\ \A k \in 1 .. Len(P(d)) : P(d)[k] = chain[k]
        BY <1>0, <2>3
      <4> HIDE DEF s, P
      <4>4. /\ SubSeq(s, 1, Len(s) - 1) \in Seq(Portals)
            /\ Len(SubSeq(s, 1, Len(s) - 1)) = Len(s) - 1
            /\ \A k \in 1 .. Len(s) - 1 : SubSeq(s, 1, Len(s) - 1)[k] = s[k]
        BY <3>3, <4>2
      <4>5. Len(P(d)) = Len(s) - 1
        BY <1>0, <3>1, <3>3, <4>3
      <4>6. ASSUME NEW k \in 1 .. Len(s) - 1
            PROVE  SubSeq(s, 1, Len(s) - 1)[k] = P(d)[k]
        <5>1. k \in 1 .. Len(s) /\ k \in 1 .. Len(P(d))
          BY <3>3, <4>5, <4>6
        <5> QED BY <4>2, <4>3, <4>4, <4>6, <5>1, Zenon
      <4> QED BY <4>3, <4>4, <4>5, <4>6, SeqEqual
    <3> QED BY <2>3, <3>4, <3>5
  <2> QED BY <2>4, <2>5
<1>3. Len(chain) - n \in 0 .. Len(chain) - 1 /\ Len(chain) - (Len(chain) - n) = n
  BY <1>0
<1> QED BY <1>2, <1>3

(* What a line meets from a portal on is seen from it.                     *)
LEMMA Ahead ==
    ASSUME NEW chain \in Clear, NEW a \in 1 .. Len(chain), NEW b \in a .. Len(chain)
    PROVE  Neighbour[chain[b]] \in Ends(Clear, chain[a])
<1> DEFINE s == SubSeq(chain, 1, b) r == SubSeq(s, a, Len(s))
<1>0. chain \in Seq(Portals) /\ Len(chain) \in Nat \ {0} /\ a \in Nat /\ b \in 1 .. Len(chain)
  BY ClearChain
<1>1. s \in Clear
  BY <1>0, ClearPrefix
<1>2. s \in Seq(Portals) /\ Len(s) = b /\ \A k \in 1 .. b : s[k] = chain[k]
  BY <1>0
<1> HIDE DEF s
<1>3. a \in 1 .. Len(s)
  BY <1>0, <1>2
<1>4. r \in Clear
  BY <1>1, <1>3, ClearSuffix
<1>5. Len(r) = b - a + 1 /\ \A k \in 1 .. b - a + 1 : r[k] = s[k + a - 1]
  BY <1>0, <1>2, <1>3
<1> HIDE DEF r
<1>6. r[1] = s[a] /\ r[Len(r)] = s[b]
  <2>1. /\ 1 \in 1 .. b - a + 1 /\ 1 + a - 1 = a
        /\ Len(r) \in 1 .. b - a + 1 /\ Len(r) + a - 1 = b
    BY <1>0, <1>3, <1>5
  <2> QED BY <1>5, <2>1
<1>7. r[1] = chain[a] /\ r[Len(r)] = chain[b]
  BY <1>0, <1>2, <1>3, <1>6
<1> QED BY <1>4, <1>7 DEF Ends

LEMMA OnTheLine ==
    ASSUME NEW chain \in Clear, NEW k \in 1 .. Len(chain) - 1
    PROVE  /\ \E j \in DOMAIN Exits[Neighbour[chain[k]]] :
                 Exits[Neighbour[chain[k]]][j] = chain[k + 1]
           /\ chain[k + 1] \in InFront[chain[1]]
           /\ \A j \in 1 .. k : Neighbour[chain[k + 1]] # Neighbour[chain[j]]
<1>0. Len(chain) \in Nat
  BY ClearChain
<1>1. PICK i \in 2 .. Len(chain) : i = k + 1
  BY <1>0
<1>2. Len(chain) > 1 /\ i - 1 = k
  BY <1>0, <1>1
<1>3. /\ \E j \in DOMAIN Exits[Neighbour[chain[i - 1]]] :
            Exits[Neighbour[chain[i - 1]]][j] = chain[i]
      /\ chain[i] \in InFront[chain[1]]
      /\ \A j \in 1 .. (i - 1) : Neighbour[chain[i]] # Neighbour[chain[j]]
  BY <1>1, <1>2, LinesAssumption
<1> QED BY <1>1, <1>2, <1>3

(* SimpleFlood reaches all that can be seen.                               *)
LEMMA FloodReaches ==
    ASSUME NEW p \in Portals
    PROVE  Ends(Clear, p) \subseteq Flooded(p)
<1> SUFFICES ASSUME NEW chain \in Clear, chain[1] = p
             PROVE  Neighbour[chain[Len(chain)]] \in Flooded(p)
  BY DEF Ends
<1> DEFINE n == Len(chain)
<1>0. chain \in Seq(Portals) /\ n \in Nat \ {0}
  BY ClearChain
<1>1. Neighbour[chain[n]] \in Clusters
  BY <1>0, GeometryAssumption
<1>2. ASSUME NEW S \in SUBSET Clusters, Neighbour[p] \in S,
             \A d \in S : \A i \in DOMAIN Exits[d] :
                Exits[d][i] \in InFront[p] => Neighbour[Exits[d][i]] \in S
      PROVE  Neighbour[chain[n]] \in S
  <2> DEFINE bad == {k \in 1 .. n : Neighbour[chain[k]] \notin S}
  <2> SUFFICES ASSUME bad # {} PROVE FALSE
    BY <1>0
  <2>1. bad \subseteq Nat
    OBVIOUS
  <2> HIDE DEF bad
  <2>2. PICK i \in bad : \A k \in bad : ~(k < i)
    BY <2>1, LeastPlace
  <2>3. i \in 1 .. n /\ Neighbour[chain[i]] \notin S /\ i # 1
    BY <1>2, <2>2 DEF bad
  <2>4. PICK k \in 1 .. n - 1 : i = k + 1
    BY <1>0, <2>3
  <2>5. k \in 1 .. n /\ k < i
    BY <1>0, <2>4
  <2>6. Neighbour[chain[k]] \in S
    BY <2>2, <2>5 DEF bad
  <2>7. PICK j \in DOMAIN Exits[Neighbour[chain[k]]] :
            Exits[Neighbour[chain[k]]][j] = chain[k + 1]
    BY <2>4, OnTheLine
  <2>8. chain[k + 1] \in InFront[p]
    BY <2>4, OnTheLine
  <2>9. Neighbour[chain[k + 1]] \in S
    BY <1>2, <2>6, <2>7, <2>8
  <2> QED BY <2>3, <2>4, <2>9
<1> QED BY <1>1, <1>2 DEF Flooded

----------------------------------------------------------------------------
LEMMA InitMissed == Init => Known /\ Nested /\ NothingMissed
BY DEF Init, Known, Nested, NothingMissed

LEMMA StepKnown == TypeOK /\ Taken /\ Progress /\ Known /\ [Next]_vars => Known'
<1> SUFFICES ASSUME TypeOK, Taken, Progress, Known, [Next]_vars PROVE Known'
  OBVIOUS
<1>0. \A u \in Threads : base[u] # NoPortal => base[u] \in Portals
  BY DEF TypeOK
<1>1. ASSUME NEW t \in Threads, GetNextPortal(t) PROVE Known'
  <2>1. CASE UNCHANGED <<queue, base, status>>
    BY <1>1, <2>1 DEF GetNextPortal, Known
  <2>2. ASSUME NEW p \in queue, queue' = queue \ {p},
               base' = [base EXCEPT ![t] = p],
               status' = [status EXCEPT ![p] = "selected"]
        PROVE  Known'
    <3>1. p \in Portals /\ base'[t] = p /\ status'[p] = "selected"
          /\ UNCHANGED <<phase, stack, mightsee>> /\ stack[t] = <<>> /\ base[t] = NoPortal
      BY <1>1, <2>2 DEF GetNextPortal, TypeOK, Taken
    <3>2. \A u \in Threads \ {t} : base'[u] = base[u] /\ base[u] # p
      BY <2>2, <3>1, GeometryAssumption DEF TypeOK, Taken
    <3>3. \A q \in Portals \ {p} : status'[q] = status[q]
      BY <2>2 DEF TypeOK
    <3>4. \A u \in Threads : stack[u] # <<>> => u # t /\ base[u] # NoPortal
      BY <3>1 DEF Taken
    <3>5. ASSUME NEW q \in Portals
          PROVE  \/ Ends(Clear, q) \subseteq mightsee'[q]
                 \/ phase' = "base" /\ (q \in queue' \/ \E u \in Threads : base'[u] = q)
      BY <2>2, <3>1, <3>2, GeometryAssumption DEF Known
    <3>6. ASSUME NEW q \in Portals, status'[q] = "none"
          PROVE  phase' = "base" /\ q \in queue'
      BY <2>2, <3>1, <3>3, <3>6 DEF Known
    <3>7. ASSUME NEW u \in Threads, stack'[u] # <<>>
          PROVE  phase' = "full" /\ status'[base'[u]] = "working"
      BY <1>0, <3>1, <3>2, <3>3, <3>4, <3>7 DEF Known
    <3> QED BY <3>5, <3>6, <3>7 DEF Known
  <2> QED BY <1>1, <2>1, <2>2 DEF GetNextPortal
<1>2. ASSUME NEW t \in Threads, PortalBase(t) PROVE Known'
  <2> DEFINE p == base[t]
  <2>1. /\ p \in Portals /\ phase = "base"
        /\ mightsee' = [mightsee EXCEPT ![p] = Flooded(p)]
        /\ base' = [base EXCEPT ![t] = NoPortal]
        /\ UNCHANGED <<phase, queue, status, stack>>
    BY <1>0, <1>2 DEF PortalBase
  <2>2. Ends(Clear, p) \subseteq mightsee'[p]
    BY <2>1, FloodReaches DEF TypeOK
  <2>3. \A q \in Portals \ {p} : mightsee'[q] = mightsee[q]
    BY <2>1 DEF TypeOK
  <2>4. \A u \in Threads \ {t} : base'[u] = base[u]
    BY <2>1 DEF TypeOK
  <2>5. \A u \in Threads : stack[u] = <<>>
    BY <2>1 DEF Progress
  <2> QED BY <2>1, <2>2, <2>3, <2>4, <2>5 DEF Known
<1>3. ASSUME NEW t \in Threads, PortalFlow(t) PROVE Known'
  <2> DEFINE p == base[t]
  <2>1. /\ p \in Portals /\ phase = "full" /\ stack[t] = <<>>
        /\ status' = [status EXCEPT ![p] = "working"]
        /\ UNCHANGED <<phase, queue, base, mightsee>>
    BY <1>0, <1>3 DEF PortalFlow
  <2>2. \A u \in Threads \ {t} : stack'[u] = stack[u] /\ base[u] # p
    BY <1>3, <2>1, GeometryAssumption DEF PortalFlow, TypeOK, Taken
  <2>3. \A q \in Portals \ {p} : status'[q] = status[q]
    BY <2>1 DEF TypeOK
  <2>4. status'[p] = "working"
    BY <2>1 DEF TypeOK
  <2>5. \A u \in Threads : stack[u] # <<>> => base[u] \in Portals
    BY <1>0 DEF Taken
  <2> QED BY <2>1, <2>2, <2>3, <2>4, <2>5 DEF Known
<1>4. ASSUME NEW t \in Threads, NextExit(t) PROVE Known'
  <2>1. UNCHANGED <<phase, queue, base, status, mightsee>> /\ stack[t] # <<>>
    BY <1>4 DEF NextExit, Working
  <2>2. \A u \in Threads \ {t} : stack'[u] = stack[u]
    BY <1>4 DEF NextExit, TypeOK
  <2> QED BY <2>1, <2>2 DEF Known
<1>5. ASSUME NEW t \in Threads, Return(t) PROVE Known'
  <2>1. UNCHANGED <<phase, queue, base, status, mightsee>> /\ stack[t] # <<>>
    BY <1>5 DEF Return, Working
  <2>2. \A u \in Threads \ {t} : stack'[u] = stack[u]
    BY <1>5 DEF Return, TypeOK
  <2> QED BY <2>1, <2>2 DEF Known
<1>6. ASSUME NEW t \in Threads, PortalCompleted(t) PROVE Known'
  <2> DEFINE p == base[t]
  <2>1. /\ p \in Portals /\ phase = "full"
        /\ status' = [status EXCEPT ![p] = "done"]
        /\ base' = [base EXCEPT ![t] = NoPortal]
        /\ UNCHANGED <<phase, queue>>
        /\ stack' = [stack EXCEPT ![t] = <<>>]
    BY <1>0, <1>6 DEF PortalCompleted, Working, Taken
  <2>2. \A q \in Portals : status'[q] # "none"
    BY <2>1 DEF TypeOK, Known
  <2>3. \A q \in Portals : mightsee'[q] = mightsee[q]
    BY <1>6, <2>2 DEF PortalCompleted, UpdateMightsee
  <2>4. \A u \in Threads \ {t} :
            stack'[u] = stack[u] /\ base'[u] = base[u] /\ base[u] # p
    BY <2>1, GeometryAssumption DEF TypeOK, Taken
  <2>5. \A q \in Portals \ {p} : status'[q] = status[q]
    BY <2>1 DEF TypeOK
  <2>6. stack'[t] = <<>>
    BY <2>1 DEF TypeOK
  <2>7. \A u \in Threads : stack[u] # <<>> => base[u] \in Portals
    BY <1>0 DEF Taken
  <2> QED BY <2>1, <2>2, <2>3, <2>4, <2>5, <2>6, <2>7 DEF Known
<1>7. CASE Join
  <2>1. \A u \in Threads : base[u] = NoPortal /\ stack[u] = <<>>
    BY <1>7 DEF Join, Taken
  <2>2. queue = {}
    BY <1>7, ThreadsAssumption DEF Join, Taken
  <2>3. UNCHANGED <<status, mightsee, base, stack>>
    BY <1>7 DEF Join
  <2> QED BY <2>1, <2>2, <2>3, GeometryAssumption DEF Known
<1>8. CASE UNCHANGED vars
  BY <1>8 DEF Known, vars
<1> QED BY <1>1, <1>2, <1>3, <1>4, <1>5, <1>6, <1>7, <1>8
        DEF Next, Thread, Assembled

(* The top frame, and what one round of the loop makes of it.              *)
LEMMA TopIs ==
    ASSUME TypeOK, Taken, NEW t \in Threads, Working(t)
    PROVE  /\ stack[t] \in Seq(Frames) /\ Len(stack[t]) \in Nat \ {0}
           /\ Len(stack[t]) \in DOMAIN stack[t] /\ Top(t) = stack[t][Len(stack[t])]
           /\ base[t] \in Portals
<1>1. stack[t] \in Seq(Frames) /\ stack[t] # <<>>
  BY DEF TypeOK, Working
<1>2. Len(stack[t]) # 0
  BY <1>1, EmptySeq
<1> QED BY <1>1, <1>2 DEF Top, TypeOK, Taken

LEMMA AdvancedFrames ==
    ASSUME TypeOK, Taken, NEW t \in Threads, Working(t)
    PROVE  /\ Advanced(t) \in Seq(Frames) /\ Len(Advanced(t)) = Len(stack[t])
           /\ \A k \in DOMAIN stack[t] :
                 /\ Advanced(t)[k].chain = stack[t][k].chain
                 /\ Advanced(t)[k].cluster = stack[t][k].cluster
                 /\ Advanced(t)[k].prev = stack[t][k].prev
                 /\ Advanced(t)[k].i = IF k = Len(stack[t]) THEN stack[t][k].i + 1
                                                           ELSE stack[t][k].i
<1> DEFINE s == stack[t] n == Len(s)
<1>1. s \in Seq(Frames) /\ n \in DOMAIN s
  BY TopIs
<1>2. Advanced(t) = [s EXCEPT ![n] = [s[n] EXCEPT !.i = @ + 1]]
  BY <1>1 DEF Advanced
<1>3. ASSUME NEW k \in DOMAIN s
      PROVE  /\ Advanced(t)[k].chain = s[k].chain
             /\ Advanced(t)[k].cluster = s[k].cluster
             /\ Advanced(t)[k].prev = s[k].prev
             /\ Advanced(t)[k].i = IF k = n THEN s[k].i + 1 ELSE s[k].i
  <2>1. s[k] \in Frames
    BY <1>1, <1>3
  <2>2. CASE k = n
    BY <2>1, <2>2, <1>1, <1>2 DEF Frames
  <2>3. CASE k # n
    BY <2>3, <1>1, <1>2, <1>3
  <2> QED BY <2>2, <2>3
<1> QED BY <1>3, TopFacts

(* All that lines from a portal reach is in what is known of it.           *)
LEMMA KnownOf ==
    ASSUME TypeOK, Known, NothingMissed, phase = "full", NEW q \in Portals
    PROVE  Ends(Clear, q) \subseteq select_test_set(q)
BY DEF Known, NothingMissed, select_test_set

(* When the loop comes to the next portal of a line, that portal is open,  *)
(* leads to no cluster on the stack, and all that the line meets from      *)
(* there on may be seen.                                                   *)
LEMMA MeetsTarget ==
    ASSUME TypeOK, Taken, Lines, Known, Nested, NothingMissed,
           NEW t \in Threads, Working(t), MoreExits(t),
           NEW chain \in Clear, GoesOn(chain, Top(t), Len(stack[t])),
           chain[Len(stack[t]) + 1] = Target(t)
    PROVE  /\ Append(Top(t).chain, Target(t)) = SubSeq(chain, 1, Len(stack[t]) + 1)
           /\ Append(Top(t).chain, Target(t)) \in Clear
           /\ Neighbour[Target(t)] \in Top(t).prev
           /\ ~CheckStack(t, Neighbour[Target(t)])
           /\ \A m \in Len(stack[t]) + 1 .. Len(chain) : Neighbour[chain[m]] \in Might(t)
<1> DEFINE n == Len(stack[t]) q == Target(t) top == Top(t)
<1>1. /\ n \in Nat \ {0} /\ n \in DOMAIN stack[t] /\ top = stack[t][n]
      /\ stack[t] \in Seq(Frames)
  BY TopIs
<1>2. /\ chain \in Seq(Portals) /\ Len(chain) \in Nat \ {0}
      /\ n < Len(chain) /\ SubSeq(chain, 1, n) = top.chain
  BY ClearChain DEF GoesOn
<1>3. q \in Portals
  BY TopFacts
<1>4. n + 1 \in 1 .. Len(chain) /\ n \in 1 .. Len(chain) - 1
  BY <1>1, <1>2
<1>5. Append(top.chain, q) = SubSeq(chain, 1, n + 1)
  <2>1. Append(SubSeq(chain, 1, n), chain[n + 1]) = SubSeq(chain, 1, n + 1)
    BY <1>2, <1>4
  <2> QED BY <1>2, <2>1
<1>6. Append(top.chain, q) \in Clear
  BY <1>4, <1>5, ClearPrefix
<1>7. \A m \in n + 1 .. Len(chain) : Neighbour[chain[m]] \in top.prev
  <2>1. Promising(stack[t][n], n)
    BY <1>1 DEF Nested
  <2>2. GoesOn(chain, stack[t][n], n)
    BY <1>1
  <2> QED BY <1>1, <2>1, <2>2 DEF Promising
<1>8. \A m \in n + 1 .. Len(chain) : Neighbour[chain[m]] \in select_test_set(q)
  <2>1. \A m \in n + 1 .. Len(chain) : Neighbour[chain[m]] \in Ends(Clear, q)
    BY <1>4, Ahead
  <2>2. phase = "full"
    BY DEF Working
  <2> QED BY <1>3, <2>1, <2>2, KnownOf
<1>9. Neighbour[q] \in top.prev
  BY <1>4, <1>7
<1>10. ASSUME NEW k \in DOMAIN stack[t], stack[t][k].cluster = Neighbour[q]
       PROVE  FALSE
  <2>1. k \in 1 .. n
    BY <1>1
  <2>2. stack[t][k].chain = SubSeq(top.chain, 1, k) /\ Len(stack[t][k].chain) = k
    BY <1>1, <2>1 DEF Nested
  <2>3. stack[t][k].cluster = Neighbour[stack[t][k].chain[k]]
    BY <2>2 DEF Lines, OnALine
  <2>4. top.chain \in Seq(Portals) /\ Len(top.chain) = n
    <3>1. Len(top.chain) = n
      BY <1>1 DEF Nested
    <3>2. top \in Frames
      BY <1>1
    <3> QED BY <3>1, <3>2 DEF Frames
  <2>5. SubSeq(top.chain, 1, k)[k] = top.chain[k]
    BY <2>1, <2>4
  <2>6. top.chain[k] = chain[k]
    BY <1>2, <1>4, <2>1
  <2>7. Neighbour[chain[n + 1]] # Neighbour[chain[k]]
    BY <1>4, <2>1, OnTheLine
  <2> QED BY <1>10, <2>2, <2>3, <2>5, <2>6, <2>7
<1>11. ~CheckStack(t, Neighbour[q])
  BY <1>10 DEF CheckStack
<1> QED BY <1>5, <1>6, <1>7, <1>8, <1>9, <1>11 DEF Might

(* The frame of a portal that is gone through.                             *)
LEMMA Followed ==
    ASSUME TypeOK, Taken, NEW t \in Threads, NextExit(t), Flows(t)
    PROVE  LET n == Len(stack[t])
               f == Frame(Neighbour[Target(t)], Append(Top(t).chain, Target(t)), Might(t))
           IN /\ stack'[t] = Append(Advanced(t), f)
              /\ DOMAIN stack'[t] = 1 .. n + 1
              /\ stack'[t][n + 1] = f
              /\ \A k \in 1 .. n : stack'[t][k] = Advanced(t)[k]
<1> DEFINE n == Len(stack[t])
           f == Frame(Neighbour[Target(t)], Append(Top(t).chain, Target(t)), Might(t))
<1>1. Working(t)
  BY DEF NextExit
<1>2. n \in Nat /\ Advanced(t) \in Seq(Frames) /\ Len(Advanced(t)) = n
  BY <1>1, TopIs, AdvancedFrames
<1>3. stack'[t] = Append(Advanced(t), f)
  BY DEF NextExit, TypeOK
<1> HIDE DEF f
<1>4. /\ DOMAIN Append(Advanced(t), f) = 1 .. n + 1
      /\ Append(Advanced(t), f)[n + 1] = f
      /\ \A k \in 1 .. n : Append(Advanced(t), f)[k] = Advanced(t)[k]
  BY <1>2
<1> QED BY <1>3, <1>4 DEF f

(* A step that leaves the frames of a thread alone.                        *)
LEMMA SameFrames ==
    ASSUME Nested, NEW u \in Threads, stack'[u] = stack[u],
           stack[u] # <<>> => base'[u] = base[u] /\ visbits[base[u]] \subseteq visbits'[base[u]]
    PROVE  \A k \in DOMAIN stack'[u] :
               /\ Len(stack'[u][k].chain) = k
               /\ \A m \in 1 .. k : stack'[u][m].chain = SubSeq(stack'[u][k].chain, 1, m)
               /\ stack'[u][k].cluster \in visbits'[base'[u]]
               /\ Promising(stack'[u][k], k)
<1>1. ASSUME NEW k \in DOMAIN stack[u] PROVE stack[u] # <<>>
  <2>1. DOMAIN <<>> = {}
    OBVIOUS
  <2> QED BY <1>1, <2>1
<1> QED BY <1>1 DEF Nested

LEMMA SamePromise ==
    ASSUME NEW f, NEW g, f.chain = g.chain, f.prev = g.prev, NEW k, Promising(f, k)
    PROVE  Promising(g, k)
BY DEF Promising, GoesOn

LEMMA StepNested ==
    TypeOK /\ Taken /\ Progress /\ Lines /\ Known /\ Nested /\ NothingMissed /\ [Next]_vars
        => Nested'
<1> SUFFICES ASSUME TypeOK, Taken, Progress, Lines, Known, Nested, NothingMissed,
                    [Next]_vars
             PROVE  Nested'
  OBVIOUS
<1> DEFINE Nest(u) ==
              \A k \in DOMAIN stack'[u] :
               /\ Len(stack'[u][k].chain) = k
               /\ \A m \in 1 .. k : stack'[u][m].chain = SubSeq(stack'[u][k].chain, 1, m)
               /\ stack'[u][k].cluster \in visbits'[base'[u]]
               /\ Promising(stack'[u][k], k)
<1>0. (\A u \in Threads : Nest(u)) => Nested'
  BY DEF Nested, Promising, GoesOn
<1> HIDE DEF Nest
<1>1. ASSUME NEW t \in Threads, GetNextPortal(t) PROVE \A u \in Threads : Nest(u)
  <2>1. stack[t] = <<>> /\ UNCHANGED <<stack, visbits>>
    BY <1>1 DEF GetNextPortal, Taken
  <2>2. \A u \in Threads \ {t} : base'[u] = base[u]
    BY <1>1 DEF GetNextPortal, TypeOK
  <2> QED BY <2>1, <2>2, SameFrames DEF Nest
<1>2. ASSUME NEW t \in Threads, PortalBase(t) PROVE \A u \in Threads : Nest(u)
  <2>1. UNCHANGED <<stack, visbits>> /\ \A u \in Threads : stack[u] = <<>>
    BY <1>2 DEF PortalBase, Progress
  <2> QED BY <2>1, SameFrames DEF Nest
<1>3. ASSUME NEW t \in Threads, PortalFlow(t) PROVE \A u \in Threads : Nest(u)
  <2> DEFINE p == base[t] f == Frame(Neighbour[p], <<p>>, mightsee[p])
  <2>1. /\ p \in Portals /\ UNCHANGED base /\ phase = "full" /\ stack[t] = <<>>
        /\ stack' = [stack EXCEPT ![t] = <<f>>]
        /\ visbits' = [visbits EXCEPT ![p] = {Neighbour[p]}]
    BY <1>3 DEF PortalFlow, TypeOK
  <2>2. ASSUME NEW u \in Threads \ {t} PROVE Nest(u)
    <3>1. stack'[u] = stack[u]
      BY <2>1, <2>2 DEF TypeOK
    <3>2. stack[u] # <<>> => visbits'[base[u]] = visbits[base[u]]
      BY <2>1, <2>2 DEF TypeOK, Taken
    <3> QED BY <2>1, <3>1, <3>2, SameFrames DEF Nest
  <2>3. Nest(t)
    <3>1. stack'[t] = <<f>> /\ visbits'[p] = {Neighbour[p]}
      BY <2>1 DEF TypeOK
    <3>2. f.chain = <<p>> /\ f.cluster = Neighbour[p] /\ f.prev = mightsee[p]
      BY DEF Frame
    <3>3. ASSUME NEW chain \in Clear, GoesOn(chain, f, 1), NEW m \in 2 .. Len(chain)
          PROVE  Neighbour[chain[m]] \in f.prev
      <4>1. chain \in Seq(Portals) /\ Len(chain) \in Nat /\ Len(chain) > 1
            /\ SubSeq(chain, 1, 1) = <<p>>
        BY <3>2, <3>3, ClearChain DEF GoesOn
      <4>2. chain[1] = p
        <5>1. SubSeq(chain, 1, 1)[1] = chain[1]
          BY <4>1
        <5>2. <<p>>[1] = p
          OBVIOUS
        <5>3. SubSeq(chain, 1, 1)[1] = <<p>>[1]
          BY <4>1, Zenon
        <5> QED BY <5>1, <5>2, <5>3
      <4>3. Neighbour[chain[m]] \in Ends(Clear, chain[1])
        <5>1. 1 \in 1 .. Len(chain) /\ m \in 1 .. Len(chain)
          BY <4>1
        <5> QED BY <5>1, Ahead
      <4>4. Ends(Clear, p) \subseteq mightsee[p]
        BY <2>1 DEF Known
      <4> QED BY <3>2, <4>2, <4>3, <4>4
    <3>4. Promising(f, 1)
      BY <3>3 DEF Promising
    <3> HIDE DEF f
    <3>5. DOMAIN <<f>> = {1} /\ <<f>>[1] = f /\ Len(<<p>>) = 1 /\ SubSeq(<<p>>, 1, 1) = <<p>>
      <4> DEFINE e == SubSeq(<<p>>, 1, 1)
      <4>1. e \in Seq(Portals) /\ Len(e) = 1 /\ e[1] = p
        BY <2>1
      <4>2. <<p>> \in Seq(Portals) /\ Len(<<p>>) = 1 /\ <<p>>[1] = p
        BY <2>1
      <4> HIDE DEF e
      <4>3. \A j \in 1 .. Len(e) : e[j] = <<p>>[j]
        BY <4>1, <4>2
      <4>4. e = <<p>>
        BY <4>1, <4>2, <4>3, SeqEqual
      <4> QED BY <4>2, <4>4 DEF e
    <3>6. ASSUME NEW k \in DOMAIN stack'[t]
          PROVE  k = 1 /\ stack'[t][k] = f /\ \A m \in 1 .. k : stack'[t][m] = f /\ m = 1
      <4>1. k = 1
        BY <3>1, <3>5, <3>6
      <4>2. \A m \in 1 .. 1 : m = 1
        OBVIOUS
      <4> QED BY <3>1, <3>5, <4>1, <4>2
    <3>7. base'[t] = p
      BY <2>1
    <3> QED BY <3>1, <3>2, <3>4, <3>5, <3>6, <3>7, Zenon DEF Nest
  <2> QED BY <2>2, <2>3
<1>4. ASSUME NEW t \in Threads, NextExit(t) PROVE \A u \in Threads : Nest(u)
  <2> DEFINE n == Len(stack[t]) c == Neighbour[Target(t)]
             next == Append(Top(t).chain, Target(t))
             f == Frame(c, next, Might(t))
  <2>0. Working(t) /\ MoreExits(t) /\ UNCHANGED base
    BY <1>4 DEF NextExit
  <2>1. /\ stack[t] \in Seq(Frames) /\ n \in Nat \ {0} /\ n \in DOMAIN stack[t]
        /\ Top(t) = stack[t][n] /\ base[t] \in Portals
    BY <2>0, TopIs
  <2>2. ASSUME NEW p \in Portals PROVE visbits[p] \subseteq visbits'[p]
    BY <1>4, <2>2, SMTT(30) DEF NextExit, TypeOK
  <2>3. ASSUME NEW u \in Threads \ {t} PROVE Nest(u)
    <3>1. stack'[u] = stack[u]
      BY <1>4, <2>3 DEF NextExit, TypeOK
    <3>2. stack[u] # <<>> => base[u] \in Portals
      BY <2>3 DEF TypeOK, Taken
    <3> QED BY <2>0, <2>2, <3>1, <3>2, SameFrames DEF Nest
  <2>4. ASSUME NEW k \in DOMAIN stack[t]
        PROVE  /\ Len(Advanced(t)[k].chain) = k
               /\ \A m \in 1 .. k :
                     Advanced(t)[m].chain = SubSeq(Advanced(t)[k].chain, 1, m)
               /\ Advanced(t)[k].cluster \in visbits'[base'[t]]
               /\ Promising(Advanced(t)[k], k)
    <3>1. /\ Advanced(t)[k].chain = stack[t][k].chain
          /\ Advanced(t)[k].cluster = stack[t][k].cluster
          /\ Advanced(t)[k].prev = stack[t][k].prev
      BY <2>0, <2>4, AdvancedFrames
    <3>2. /\ Len(stack[t][k].chain) = k
          /\ \A m \in 1 .. k : stack[t][m].chain = SubSeq(stack[t][k].chain, 1, m)
          /\ stack[t][k].cluster \in visbits[base[t]]
          /\ Promising(stack[t][k], k)
      BY <2>4 DEF Nested
    <3>3. \A m \in 1 .. k : Advanced(t)[m].chain = stack[t][m].chain
      <4>1. \A m \in 1 .. k : m \in DOMAIN stack[t]
        BY <2>1, <2>4
      <4> QED BY <2>0, <4>1, AdvancedFrames
    <3>4. Promising(Advanced(t)[k], k)
      BY <3>1, <3>2, SamePromise
    <3> QED BY <2>0, <2>1, <2>2, <3>1, <3>2, <3>3, <3>4
  <2>5. CASE ~Flows(t)
    <3>1. stack'[t] = Advanced(t)
      BY <1>4, <2>5 DEF NextExit, TypeOK
    <3>2. DOMAIN Advanced(t) = DOMAIN stack[t]
      BY <2>0, <2>1, AdvancedFrames
    <3>3. Nest(t)
      BY <2>4, <3>1, <3>2 DEF Nest
    <3> QED BY <2>3, <3>3
  <2>6. CASE Flows(t)
    <3>1. /\ DOMAIN stack'[t] = 1 .. n + 1 /\ stack'[t][n + 1] = f
          /\ \A k \in 1 .. n : stack'[t][k] = Advanced(t)[k]
      BY <1>4, <2>6, Followed
    <3>2. f.chain = next /\ f.cluster = c /\ f.prev = Might(t)
      BY DEF Frame
    <3>3. ASSUME NEW k \in 1 .. n
          PROVE  /\ Len(stack'[t][k].chain) = k
                 /\ \A m \in 1 .. k :
                       stack'[t][m].chain = SubSeq(stack'[t][k].chain, 1, m)
                 /\ stack'[t][k].cluster \in visbits'[base'[t]]
                 /\ Promising(stack'[t][k], k)
      <4>1. k \in DOMAIN stack[t] /\ \A m \in 1 .. k : m \in 1 .. n
        BY <2>1, <3>3
      <4> QED BY <2>4, <3>1, <3>3, <4>1
    <3>4. Top(t).chain \in Seq(Portals) /\ Len(Top(t).chain) = n /\ Target(t) \in Portals
      <4>1. Len(Top(t).chain) = n
        BY <2>1 DEF Nested
      <4>2. Top(t) \in Frames
        BY <2>1
      <4> QED BY <2>0, <4>1, <4>2, TopFacts DEF Frames
    <3>5. Len(next) = n + 1 /\ next \in Seq(Portals)
      BY <3>4
    <3>6. ASSUME NEW m \in 1 .. n + 1
          PROVE  stack'[t][m].chain = SubSeq(next, 1, m)
      <4>1. CASE m = n + 1
        <5>1. SubSeq(next, 1, n + 1) = next
          <6> HIDE DEF next
          <6> QED BY <3>5
        <5> QED BY <3>1, <3>2, <4>1, <5>1
      <4>2. CASE m # n + 1
        <5>1. m \in 1 .. n /\ m \in DOMAIN stack[t]
          BY <2>1, <3>6, <4>2
        <5>2. stack'[t][m].chain = stack[t][m].chain
          BY <2>0, <3>1, <5>1, AdvancedFrames
        <5>3. stack[t][m].chain = SubSeq(Top(t).chain, 1, m)
          BY <2>1, <5>1 DEF Nested
        <5>4. SubSeq(Top(t).chain, 1, m) = SubSeq(next, 1, m)
          BY <2>1, <3>4, <5>1
        <5> QED BY <5>2, <5>3, <5>4
      <4> QED BY <4>1, <4>2
    <3>7. c \in visbits'[base[t]]
      BY <1>4, <2>1, <2>6 DEF NextExit, TypeOK
    <3>8. ASSUME NEW chain \in Clear, GoesOn(chain, f, n + 1),
                 NEW m \in (n + 1) + 1 .. Len(chain)
          PROVE  Neighbour[chain[m]] \in f.prev
      <4>1. chain \in Seq(Portals) /\ Len(chain) \in Nat /\ Len(chain) > n + 1
            /\ SubSeq(chain, 1, n + 1) = next
        BY <3>2, <3>8, ClearChain DEF GoesOn
      <4>2. chain[n + 1] = Target(t)
        <5>1. SubSeq(chain, 1, n + 1)[n + 1] = chain[n + 1]
          BY <2>1, <4>1
        <5>2. next[n + 1] = Target(t)
          BY <3>4
        <5> QED BY <4>1, <5>1, <5>2
      <4>3. SubSeq(chain, 1, n) = Top(t).chain
        <5>1. SubSeq(next, 1, n) = Top(t).chain
          BY <2>1, <3>4
        <5>2. SubSeq(SubSeq(chain, 1, n + 1), 1, n) = SubSeq(chain, 1, n)
          BY <2>1, <4>1
        <5> QED BY <4>1, <5>1, <5>2
      <4>4. GoesOn(chain, Top(t), n)
        BY <2>1, <4>1, <4>3 DEF GoesOn
      <4>5. m \in n + 1 .. Len(chain)
        BY <2>1, <4>1
      <4> QED BY <2>0, <3>2, <4>2, <4>4, <4>5, MeetsTarget
    <3>9. Promising(f, n + 1)
      BY <3>8 DEF Promising
    <3>10. Nest(t)
      <4> SUFFICES ASSUME NEW k \in 1 .. n + 1
                   PROVE  /\ Len(stack'[t][k].chain) = k
                          /\ \A m \in 1 .. k :
                                stack'[t][m].chain = SubSeq(stack'[t][k].chain, 1, m)
                          /\ stack'[t][k].cluster \in visbits'[base'[t]]
                          /\ Promising(stack'[t][k], k)
        BY <3>1 DEF Nest
      <4>1. CASE k = n + 1
        BY <2>0, <3>1, <3>2, <3>5, <3>6, <3>7, <3>9, <4>1
      <4>2. CASE k # n + 1
        <5>1. k \in 1 .. n
          BY <2>1, <4>2
        <5> QED BY <3>3, <5>1
      <4> QED BY <4>1, <4>2
    <3> QED BY <2>3, <3>10
  <2> QED BY <2>5, <2>6
<1>5. ASSUME NEW t \in Threads, Return(t) PROVE \A u \in Threads : Nest(u)
  <2>1. /\ stack[t] \in Seq(Frames) /\ Len(stack[t]) > 1
        /\ stack' = [stack EXCEPT ![t] = SubSeq(@, 1, Len(@) - 1)]
        /\ UNCHANGED <<base, visbits>>
    BY <1>5 DEF TypeOK, Return
  <2> DEFINE r == SubSeq(stack[t], 1, Len(stack[t]) - 1)
  <2>2. DOMAIN r = 1 .. Len(stack[t]) - 1 /\ \A k \in DOMAIN r : r[k] = stack[t][k]
    BY <2>1
  <2>3. stack'[t] = r /\ \A u \in Threads \ {t} : stack'[u] = stack[u]
    BY <2>1 DEF TypeOK
  <2> HIDE DEF r
  <2>4. Nest(t)
    <3>1. ASSUME NEW k \in DOMAIN r
          PROVE  /\ Len(r[k].chain) = k
                 /\ \A m \in 1 .. k : r[m].chain = SubSeq(r[k].chain, 1, m)
                 /\ r[k].cluster \in visbits[base[t]]
                 /\ Promising(r[k], k)
      <4>1. k \in DOMAIN stack[t] /\ \A m \in 1 .. k : m \in DOMAIN r
        BY <2>1, <2>2, <3>1
      <4> QED BY <2>2, <3>1, <4>1 DEF Nested
    <3>2. visbits'[base'[t]] = visbits[base[t]]
      BY <2>1, Zenon
    <3>3. stack'[t] = r
      BY <2>3
    <3> QED BY <3>1, <3>2, <3>3 DEF Nest
  <2>5. ASSUME NEW u \in Threads \ {t} PROVE Nest(u)
    <3>1. /\ stack'[u] = stack[u] /\ base'[u] = base[u]
          /\ visbits[base[u]] \subseteq visbits'[base[u]]
      BY <2>1, <2>3, <2>5
    <3> QED BY <3>1, SameFrames DEF Nest
  <2> QED BY <2>4, <2>5
<1>6. ASSUME NEW t \in Threads, PortalCompleted(t) PROVE \A u \in Threads : Nest(u)
  <2>1. /\ stack' = [stack EXCEPT ![t] = <<>>] /\ UNCHANGED visbits
        /\ base' = [base EXCEPT ![t] = NoPortal]
    BY <1>6 DEF PortalCompleted
  <2>2. stack'[t] = <<>> /\ DOMAIN <<>> = {}
    BY <2>1 DEF TypeOK
  <2>3. Nest(t)
    BY <2>2 DEF Nest
  <2>4. \A u \in Threads \ {t} : stack'[u] = stack[u] /\ base'[u] = base[u]
    BY <2>1 DEF TypeOK
  <2> QED BY <2>1, <2>3, <2>4, SameFrames DEF Nest
<1>7. CASE Join
  <2>1. UNCHANGED <<stack, visbits, base>>
    BY <1>7 DEF Join
  <2>2. \A u \in Threads : Nest(u)
    BY <2>1, SameFrames DEF Nest
  <2> QED BY <1>0, <2>2
<1>8. CASE UNCHANGED vars
  <2>1. UNCHANGED <<stack, visbits, base>>
    BY <1>8 DEF vars
  <2>2. \A u \in Threads : Nest(u)
    BY <2>1, SameFrames DEF Nest
  <2> QED BY <1>0, <2>2
<1> QED BY <1>0, <1>1, <1>2, <1>3, <1>4, <1>5, <1>6, <1>7, <1>8
        DEF Next, Thread, Assembled

----------------------------------------------------------------------------
(* Whether a line is still to come does not change with the frame's prev.  *)
LEMMA SameToCome ==
    ASSUME NEW f, NEW g, f.chain = g.chain, f.cluster = g.cluster, f.i = g.i,
           NEW chain, NEW k, ToCome(chain, f, k)
    PROVE  ToCome(chain, g, k)
BY DEF ToCome, GoesOn

(* One round of the loop: a line that was to come still is, or its next    *)
(* portal was this one.                                                    *)
LEMMA StillToCome ==
    ASSUME TypeOK, Taken, NEW t \in Threads, Working(t), MoreExits(t),
           NEW chain, NEW k \in DOMAIN stack[t], ToCome(chain, stack[t][k], k)
    PROVE  \/ ToCome(chain, Advanced(t)[k], k)
           \/ /\ k = Len(stack[t]) /\ GoesOn(chain, Top(t), k)
              /\ chain[k + 1] = Target(t)
<1> DEFINE n == Len(stack[t]) g == Advanced(t)[k] f == stack[t][k]
<1>1. n \in Nat \ {0} /\ Top(t) = stack[t][n] /\ stack[t] \in Seq(Frames)
  BY TopIs
<1>2. /\ g.chain = f.chain /\ g.cluster = f.cluster
      /\ g.i = IF k = n THEN f.i + 1 ELSE f.i
  BY AdvancedFrames
<1>3. CASE k # n
  BY <1>2, <1>3, SameToCome
<1>4. CASE k = n
  <2>1. f \in Frames
    BY <1>1
  <2>2. f.i \in Nat /\ f.cluster \in Clusters /\ f = Top(t)
    BY <1>1, <1>4, <2>1 DEF Frames
  <2>3. Len(Exits[f.cluster]) \in Nat
    BY <2>2, GeometryAssumption
  <2>4. PICK j \in f.i .. Len(Exits[f.cluster]) : Exits[f.cluster][j] = chain[k + 1]
    BY DEF ToCome
  <2>5. GoesOn(chain, f, k)
    BY DEF ToCome
  <2>6. CASE j = f.i
    BY <1>4, <2>2, <2>4, <2>5, <2>6 DEF Target
  <2>7. CASE j # f.i
    <3>1. j \in g.i .. Len(Exits[g.cluster])
      BY <1>2, <1>4, <2>2, <2>3, <2>4, <2>7
    <3>2. GoesOn(chain, g, k)
      BY <1>2, <2>5 DEF GoesOn
    <3>3. Exits[g.cluster][j] = chain[k + 1]
      BY <1>2, <2>4, Zenon
    <3> HIDE DEF f, g
    <3>4. ToCome(chain, g, k)
      BY <3>1, <3>2, <3>3, Zenon DEF ToCome
    <3> QED BY <3>4 DEF g
  <2> QED BY <2>6, <2>7
<1> QED BY <1>3, <1>4

(* For the thread of a step into or past a portal.                         *)
LEMMA NextExitMisses ==
    ASSUME TypeOK, Taken, Lines, Known, Nested, NothingMissed,
           NEW t \in Threads, NextExit(t), NEW chain \in Clear, chain[1] = base[t]
    PROVE  \/ Neighbour[chain[Len(chain)]] \in visbits'[base[t]]
           \/ \E k \in DOMAIN stack'[t] : ToCome(chain, stack'[t][k], k)
<1> DEFINE n == Len(stack[t]) c == Neighbour[Target(t)] end == Neighbour[chain[Len(chain)]]
           f == Frame(c, Append(Top(t).chain, Target(t)), Might(t))
<1>0. Working(t) /\ MoreExits(t) /\ stack[t] # <<>>
  BY DEF NextExit, Working
<1>1. /\ n \in Nat \ {0} /\ DOMAIN stack[t] = 1 .. n /\ base[t] \in Portals
      /\ Advanced(t) \in Seq(Frames) /\ Len(Advanced(t)) = n
  BY <1>0, TopIs, AdvancedFrames
<1>2. visbits[base[t]] \subseteq visbits'[base[t]]
  BY <1>1 DEF NextExit, TypeOK
<1>3. \A k \in 1 .. n : k \in DOMAIN stack'[t] /\ stack'[t][k] = Advanced(t)[k]
  <2>1. CASE Flows(t)
    <3>1. /\ DOMAIN stack'[t] = 1 .. n + 1
          /\ \A k \in 1 .. n : stack'[t][k] = Advanced(t)[k]
      BY <2>1, Followed
    <3> QED BY <1>1, <3>1
  <2>2. CASE ~Flows(t)
    <3>1. stack'[t] = Advanced(t)
      BY <2>2 DEF NextExit, TypeOK
    <3> QED BY <1>1, <3>1
  <2> QED BY <2>1, <2>2
<1>4. CASE end \in visbits[base[t]]
  BY <1>2, <1>4
<1>5. CASE end \notin visbits[base[t]]
  <2>1. PICK k \in 1 .. n : ToCome(chain, stack[t][k], k)
    BY <1>0, <1>1, <1>5 DEF NothingMissed
  <2>2. CASE ToCome(chain, Advanced(t)[k], k)
    BY <1>3, <2>2
  <2>3. CASE /\ k = n /\ GoesOn(chain, Top(t), n) /\ chain[n + 1] = Target(t)
    <3>1. /\ chain \in Seq(Portals) /\ Len(chain) \in Nat /\ n < Len(chain)
      BY <2>3, ClearChain DEF GoesOn
    <3>2. /\ Append(Top(t).chain, Target(t)) = SubSeq(chain, 1, n + 1)
          /\ Append(Top(t).chain, Target(t)) \in Clear
          /\ c \in Top(t).prev /\ ~CheckStack(t, c)
          /\ \A m \in n + 1 .. Len(chain) : Neighbour[chain[m]] \in Might(t)
      BY <1>0, <2>3, MeetsTarget
    <3>3. end \in Might(t)
      <4>1. Len(chain) \in n + 1 .. Len(chain)
        BY <1>1, <3>1
      <4> QED BY <3>2, <4>1
    <3>4. Flows(t)
      BY <1>5, <3>2, <3>3, GeometryAssumption DEF Flows
    <3>5. DOMAIN stack'[t] = 1 .. n + 1 /\ stack'[t][n + 1] = f
      BY <3>4, Followed
    <3>6. CASE Len(chain) = n + 1
      <4>1. end = c
        BY <2>3, <3>6
      <4>2. c \in visbits'[base[t]]
        BY <1>1, <3>4 DEF NextExit, TypeOK
      <4> QED BY <4>1, <4>2
    <3>7. CASE Len(chain) # n + 1
      <4>1. n + 1 \in 1 .. Len(chain) - 1 /\ Len(chain) > n + 1
        BY <1>1, <3>1, <3>7
      <4>2. PICK j \in DOMAIN Exits[Neighbour[chain[n + 1]]] :
                Exits[Neighbour[chain[n + 1]]][j] = chain[(n + 1) + 1]
        BY <4>1, OnTheLine
      <4>3. f.cluster = c /\ f.i = 1 /\ f.chain = SubSeq(chain, 1, n + 1)
        BY <3>2 DEF Frame
      <4> HIDE DEF f
      <4>4. j \in f.i .. Len(Exits[f.cluster])
        <5>1. c \in Clusters
          BY <1>0, TopFacts, GeometryAssumption
        <5>2. Exits[c] \in Seq(Portals)
          BY <5>1, GeometryAssumption
        <5>3. j \in 1 .. Len(Exits[c])
          BY <2>3, <4>2, <5>2
        <5> QED BY <4>3, <5>3
      <4>5. Exits[f.cluster][j] = chain[(n + 1) + 1]
        BY <2>3, <4>2, <4>3
      <4>6. ToCome(chain, f, n + 1)
        BY <4>1, <4>3, <4>4, <4>5 DEF ToCome, GoesOn
      <4>7. n + 1 \in 1 .. n + 1
        BY <1>1
      <4> QED BY <3>5, <4>6, <4>7
    <3> QED BY <3>6, <3>7
  <2> QED BY <1>0, <1>1, <2>1, <2>2, <2>3, StillToCome
<1> QED BY <1>4, <1>5

(* What is left of a line when a call has nothing left to do.              *)
LEMMA NoneToCome ==
    ASSUME TypeOK, Taken, NEW t \in Threads, Working(t), ~MoreExits(t), NEW chain
    PROVE  ~ToCome(chain, Top(t), Len(stack[t]))
<1>1. Top(t) \in Frames
  BY TopIs
<1>2. Top(t).i \in Nat /\ Len(Exits[Top(t).cluster]) \in Nat
  BY <1>1, GeometryAssumption DEF Frames
<1>3. Top(t).i .. Len(Exits[Top(t).cluster]) = {}
  BY <1>2 DEF MoreExits
<1> QED BY <1>3 DEF ToCome

LEMMA StepMissed ==
    TypeOK /\ Taken /\ Progress /\ Lines /\ Known /\ Nested /\ NothingMissed /\ [Next]_vars
        => NothingMissed'
<1> SUFFICES ASSUME TypeOK, Taken, Progress, Lines, Known, Nested, NothingMissed,
                    [Next]_vars
             PROVE  NothingMissed'
  OBVIOUS
<1> DEFINE LinesOf(u) ==
              stack'[u] # <<>> =>
                \A chain \in Clear : chain[1] = base'[u] =>
                    \/ Neighbour[chain[Len(chain)]] \in visbits'[base'[u]]
                    \/ \E k \in DOMAIN stack'[u] : ToCome(chain, stack'[u][k], k)
           Exact(q) == status'[q] = "done" => Ends(Clear, q) \subseteq visbits'[q]
<1>0. (\A u \in Threads : LinesOf(u)) /\ (\A q \in Portals : Exact(q)) => NothingMissed'
  BY DEF NothingMissed, ToCome, GoesOn, Ends
<1>a. ASSUME NEW u \in Threads, stack'[u] = stack[u],
             stack[u] # <<>> => base'[u] = base[u]
                                /\ visbits[base[u]] \subseteq visbits'[base[u]]
      PROVE  LinesOf(u)
  BY <1>a DEF NothingMissed
<1>b. ASSUME NEW q \in Portals, status'[q] = status[q] \/ status'[q] # "done",
             visbits[q] \subseteq visbits'[q] \/ status'[q] # "done"
      PROVE  Exact(q)
  BY <1>b DEF NothingMissed
<1>c. \A u \in Threads : stack[u] # <<>> => base[u] \in Portals
  BY DEF TypeOK, Taken
<1> HIDE DEF LinesOf, Exact
<1>1. ASSUME NEW t \in Threads, GetNextPortal(t) PROVE NothingMissed'
  <2>1. stack[t] = <<>> /\ UNCHANGED <<stack, visbits>>
    BY <1>1 DEF GetNextPortal, Taken
  <2>2. \A u \in Threads \ {t} : base'[u] = base[u]
    BY <1>1 DEF GetNextPortal, TypeOK
  <2>3. \A q \in Portals : status'[q] = status[q] \/ status'[q] # "done"
    BY <1>1 DEF GetNextPortal, TypeOK
  <2>4. \A u \in Threads : LinesOf(u)
    BY <1>a, <2>1, <2>2
  <2>5. \A q \in Portals : Exact(q)
    BY <1>b, <2>1, <2>3
  <2> QED BY <1>0, <2>4, <2>5
<1>2. ASSUME NEW t \in Threads, PortalBase(t) PROVE NothingMissed'
  <2>1. UNCHANGED <<stack, visbits, status>> /\ \A u \in Threads : stack[u] = <<>>
    BY <1>2 DEF PortalBase, Progress
  <2>2. \A u \in Threads : LinesOf(u)
    BY <1>a, <2>1
  <2>3. \A q \in Portals : Exact(q)
    BY <1>b, <2>1
  <2> QED BY <1>0, <2>2, <2>3
<1>3. ASSUME NEW t \in Threads, PortalFlow(t) PROVE NothingMissed'
  <2> DEFINE p == base[t] f == Frame(Neighbour[p], <<p>>, mightsee[p])
  <2>1. /\ p \in Portals /\ UNCHANGED base /\ stack[t] = <<>>
        /\ stack' = [stack EXCEPT ![t] = <<f>>]
        /\ visbits' = [visbits EXCEPT ![p] = {Neighbour[p]}]
        /\ status' = [status EXCEPT ![p] = "working"]
    BY <1>3 DEF PortalFlow, TypeOK
  <2>2. ASSUME NEW u \in Threads \ {t} PROVE LinesOf(u)
    <3>1. stack'[u] = stack[u]
      BY <2>1, <2>2 DEF TypeOK
    <3>2. stack[u] # <<>> => visbits'[base[u]] = visbits[base[u]]
      BY <2>1, <2>2 DEF TypeOK, Taken
    <3> QED BY <1>a, <2>1, <3>1, <3>2
  <2>3. LinesOf(t)
    <3>1. /\ stack'[t] = <<f>> /\ visbits'[p] = {Neighbour[p]} /\ base'[t] = p
      BY <2>1 DEF TypeOK
    <3>2. ASSUME NEW chain \in Clear, chain[1] = p
          PROVE  \/ Neighbour[chain[Len(chain)]] \in visbits'[p]
                 \/ ToCome(chain, f, 1)
      <4>1. chain \in Seq(Portals) /\ Len(chain) \in Nat \ {0}
        BY ClearChain
      <4>2. CASE Len(chain) = 1
        BY <3>1, <3>2, <4>2
      <4>3. CASE Len(chain) # 1
        <5>1. 1 \in 1 .. Len(chain) - 1 /\ Len(chain) > 1
          BY <4>1, <4>3
        <5>2. PICK j \in DOMAIN Exits[Neighbour[chain[1]]] :
                  Exits[Neighbour[chain[1]]][j] = chain[1 + 1]
          BY <5>1, OnTheLine
        <5>3. f.cluster = Neighbour[p] /\ f.i = 1 /\ f.chain = <<p>>
          BY DEF Frame
        <5>4. SubSeq(chain, 1, 1) = <<p>>
          <6> DEFINE e == SubSeq(chain, 1, 1)
          <6>1. e \in Seq(Portals) /\ Len(e) = 1 /\ e[1] = p
            BY <3>2, <4>1
          <6> HIDE DEF e
          <6>2. <<p>> \in Seq(Portals) /\ Len(<<p>>) = 1 /\ <<p>>[1] = p
            BY <2>1
          <6>3. \A k \in 1 .. Len(e) : e[k] = <<p>>[k]
            BY <6>1, <6>2
          <6>4. e = <<p>>
            BY <6>1, <6>2, <6>3, SeqEqual
          <6> QED BY <6>4 DEF e
        <5> HIDE DEF f
        <5>5. j \in f.i .. Len(Exits[f.cluster])
          <6>1. Exits[Neighbour[p]] \in Seq(Portals)
            BY <2>1, GeometryAssumption
          <6>2. j \in 1 .. Len(Exits[Neighbour[p]])
            BY <3>2, <5>2, <6>1
          <6> QED BY <5>3, <6>2
        <5>6. ToCome(chain, f, 1)
          BY <3>2, <5>1, <5>2, <5>3, <5>4, <5>5 DEF ToCome, GoesOn
        <5> QED BY <5>6
      <4> QED BY <4>2, <4>3
    <3> HIDE DEF f
    <3>3. 1 \in DOMAIN <<f>> /\ <<f>>[1] = f
      OBVIOUS
    <3> HIDE DEF p
    <3> QED BY <3>1, <3>2, <3>3 DEF LinesOf
  <2>4. ASSUME NEW q \in Portals PROVE Exact(q)
    <3>1. q = p => status'[q] # "done"
      BY <2>1 DEF TypeOK
    <3>2. q # p => status'[q] = status[q] /\ visbits'[q] = visbits[q]
      BY <2>1 DEF TypeOK
    <3> QED BY <1>b, <3>1, <3>2
  <2> QED BY <1>0, <2>2, <2>3, <2>4
<1>4. ASSUME NEW t \in Threads, NextExit(t) PROVE NothingMissed'
  <2>1. Working(t) /\ UNCHANGED <<base, status>>
    BY <1>4 DEF NextExit
  <2>2. ASSUME NEW q \in Portals PROVE visbits[q] \subseteq visbits'[q]
    BY <1>4, <2>2, SMTT(30) DEF NextExit, TypeOK
  <2>3. ASSUME NEW u \in Threads \ {t} PROVE LinesOf(u)
    <3>1. stack'[u] = stack[u]
      BY <1>4, <2>3 DEF NextExit, TypeOK
    <3> QED BY <1>a, <1>c, <2>1, <2>2, <3>1
  <2>4. LinesOf(t)
    BY <1>4, <2>1, NextExitMisses DEF LinesOf
  <2>5. \A q \in Portals : Exact(q)
    BY <1>b, <2>1, <2>2
  <2> QED BY <1>0, <2>3, <2>4, <2>5
<1>5. ASSUME NEW t \in Threads, Return(t) PROVE NothingMissed'
  <2> DEFINE n == Len(stack[t]) r == SubSeq(stack[t], 1, n - 1)
  <2>1. /\ stack[t] \in Seq(Frames) /\ Len(stack[t]) > 1 /\ Working(t) /\ ~MoreExits(t)
        /\ stack' = [stack EXCEPT ![t] = r] /\ stack[t] # <<>>
        /\ UNCHANGED <<base, visbits, status>>
    BY <1>5 DEF TypeOK, Return, Working
  <2>2. DOMAIN r = 1 .. n - 1 /\ \A k \in 1 .. n - 1 : r[k] = stack[t][k]
    BY <2>1
  <2>3. stack'[t] = r /\ \A u \in Threads \ {t} : stack'[u] = stack[u]
    BY <2>1 DEF TypeOK
  <2> HIDE DEF r
  <2>4. ASSUME NEW chain \in Clear, chain[1] = base[t],
               Neighbour[chain[Len(chain)]] \notin visbits[base[t]]
        PROVE  \E k \in DOMAIN r : ToCome(chain, r[k], k)
    <3>1. PICK k \in DOMAIN stack[t] : ToCome(chain, stack[t][k], k)
      BY <2>1, <2>4 DEF NothingMissed
    <3>2. k # n
      BY <2>1, <3>1, NoneToCome, TopIs
    <3>3. k \in 1 .. n - 1
      BY <2>1, <3>1, <3>2
    <3> QED BY <2>2, <3>1, <3>3
  <2>5. LinesOf(t)
    BY <2>1, <2>3, <2>4 DEF LinesOf
  <2>6. \A u \in Threads : LinesOf(u)
    BY <1>a, <2>1, <2>3, <2>5
  <2>7. \A q \in Portals : Exact(q)
    BY <1>b, <2>1
  <2> QED BY <1>0, <2>6, <2>7
<1>6. ASSUME NEW t \in Threads, PortalCompleted(t) PROVE NothingMissed'
  <2> DEFINE p == base[t]
  <2>1. /\ Working(t) /\ ~MoreExits(t) /\ Len(stack[t]) = 1 /\ stack[t] # <<>>
        /\ stack' = [stack EXCEPT ![t] = <<>>] /\ UNCHANGED visbits
        /\ base' = [base EXCEPT ![t] = NoPortal]
        /\ status' = [status EXCEPT ![p] = "done"]
        /\ p \in Portals
    BY <1>6, <1>c DEF PortalCompleted, Working
  <2>2. stack'[t] = <<>>
    BY <2>1 DEF TypeOK
  <2>3. \A u \in Threads \ {t} : stack'[u] = stack[u] /\ base'[u] = base[u]
    BY <2>1 DEF TypeOK
  <2>4. \A u \in Threads : LinesOf(u)
    <3>1. LinesOf(t)
      BY <2>2 DEF LinesOf
    <3> QED BY <1>a, <2>1, <2>3, <3>1
  <2>5. ASSUME NEW chain \in Clear, chain[1] = p
        PROVE  Neighbour[chain[Len(chain)]] \in visbits[p]
    <3>1. DOMAIN stack[t] = {1} /\ Top(t) = stack[t][1]
      BY <2>1, TopIs
    <3>2. ~ToCome(chain, stack[t][1], 1)
      BY <2>1, <3>1, NoneToCome
    <3> QED BY <2>1, <2>5, <3>1, <3>2 DEF NothingMissed
  <2>6. Exact(p)
    BY <2>1, <2>5 DEF Exact, Ends
  <2>7. \A q \in Portals \ {p} : status'[q] = status[q]
    BY <2>1 DEF TypeOK
  <2>8. \A q \in Portals : Exact(q)
    BY <1>b, <2>1, <2>6, <2>7
  <2> QED BY <1>0, <2>4, <2>8
<1>7. CASE Join
  <2>1. UNCHANGED <<stack, visbits, base, status>>
    BY <1>7 DEF Join
  <2>2. \A u \in Threads : LinesOf(u)
    BY <1>a, <2>1
  <2>3. \A q \in Portals : Exact(q)
    BY <1>b, <2>1
  <2> QED BY <1>0, <2>2, <2>3
<1>8. CASE UNCHANGED vars
  <2>1. UNCHANGED <<stack, visbits, base, status>>
    BY <1>8 DEF vars
  <2>2. \A u \in Threads : LinesOf(u)
    BY <1>a, <2>1
  <2>3. \A q \in Portals : Exact(q)
    BY <1>b, <2>1
  <2> QED BY <1>0, <2>2, <2>3
<1> QED BY <1>1, <1>2, <1>3, <1>4, <1>5, <1>6, <1>7, <1>8
        DEF Next, Thread, Assembled

(* A finished portal sees all that clear lines from it reach, and no       *)
(* portal ever more than the clipping accepts, for any map and any number  *)
(* of threads: cutting a flow short with what other threads have found so  *)
(* far loses no line.                                                      *)
THEOREM SeesEveryLine == Spec => []VisIsConservative
<1>1. Init => TypeOK /\ Taken /\ Progress /\ Lines /\ VisIsSound
              /\ Known /\ Nested /\ NothingMissed
  BY InitType, InitTaken, InitSound, InitMissed
<1>2. VisIsSound /\ NothingMissed => VisIsConservative
  BY DEF VisIsSound, NothingMissed, VisIsConservative
<1> QED BY <1>1, <1>2, StepType, StepTaken, StepProgress, StepSound, StepKnown,
           StepNested, StepMissed, PTL DEF Spec
=============================================================================
