----------------------------- MODULE PortalVis -----------------------------
(***************************************************************************)
(* The visibility compiler qfvis (tools/qfvis/source): several threads     *)
(* take portals from one queue and flow each through the clusters of the   *)
(* map, depth first; a flow is cut short with what is known of the portals *)
(* it meets, which other threads are computing at that very time.          *)
(*                                                                         *)
(* The geometry is abstract.  A chain is a sequence of portals; Open are   *)
(* the chains for which the windings, the planes and the separators of     *)
(* RecursiveClusterFlow leave something, and InFront is what PortalBase    *)
(* finds of pairs of portals.  The clipping is conservative: it works with *)
(* epsilons, and leaves out separators at the lower levels, so that it may *)
(* accept a chain no line passes through, and even one whose end it        *)
(* rejects when it starts from a later portal.  Clear are the chains that  *)
(* some line passes through, away from every edge by more than the         *)
(* epsilons; those it must accept.                                         *)
(***************************************************************************)
EXTENDS Integers, Sequences, FiniteSets

CONSTANTS
    Threads,
    Clusters,
    Portals,         \* the portal_t: one for each side of a portal
    Neighbour,       \* portal_t.cluster: the cluster a portal leads into
    Exits,           \* cluster_t.portals: the portals out of a cluster, in order
    InFront,         \* [Portals -> SUBSET Portals], portalsee of PortalBase
    Open, Clear,
    NoPortal         \* a null pointer

SuffixOf(chain) == SubSeq(chain, 2, Len(chain))

ASSUME GeometryAssumption ==
    /\ Neighbour \in [Portals -> Clusters]
    /\ Exits \in [Clusters -> Seq(Portals)]
    /\ InFront \in [Portals -> SUBSET Portals]
    /\ Open \subseteq Seq(Portals) \ {<<>>} /\ Clear \subseteq Open
    /\ NoPortal \notin Portals
    /\ \A p \in Portals : <<p>> \in Open

(* Without threads to start, RunThreads calls the function itself.         *)
ASSUME ThreadsAssumption == Threads # {}

(* A line that passes through a chain passes through each part of it, goes *)
(* from a cluster through one of its portals, meets a cluster, convex as   *)
(* it is, once, and passes only portals in front of the first.             *)
ASSUME LinesAssumption ==
    \A chain \in Clear : Len(chain) > 1 =>
        /\ SuffixOf(chain) \in Clear
        /\ SubSeq(chain, 1, Len(chain) - 1) \in Clear
        /\ \A i \in 2..Len(chain) :
              /\ \E j \in DOMAIN Exits[Neighbour[chain[i - 1]]] :
                    Exits[Neighbour[chain[i - 1]]][j] = chain[i]
              /\ chain[i] \in InFront[chain[1]]
              /\ \A j \in 1..(i - 1) : Neighbour[chain[i]] # Neighbour[chain[j]]

VARIABLES
    phase,           \* the RunThreads call of CalcVis
    queue,           \* the portals of portal_queue from portal_count on
    status,          \* portal_t.status
    mightsee, visbits,
    base,            \* per thread: the portal it works on, or NoPortal
    stack,           \* per thread: the calls of RecursiveClusterFlow, inmost last
    finished         \* the threads that returned from this RunThreads

vars == <<phase, queue, status, mightsee, visbits, base, stack, finished>>

Statuses == {"none", "selected", "working", "done"}

Init ==
    /\ phase = "base" /\ queue = Portals
    /\ status = [p \in Portals |-> "none"]
    /\ mightsee = [p \in Portals |-> {}] /\ visbits = [p \in Portals |-> {}]
    /\ base = [t \in Threads |-> NoPortal]
    /\ stack = [t \in Threads |-> <<>>]
    /\ finished = {}

----------------------------------------------------------------------------
(* GetNextPortal, under global_lock.  The queue of the full phase is       *)
(* sorted by nummightsee, in no particular order among equals; that of the *)
(* base phase has the order of the map, which nothing depends on.          *)
Nextmost(p) == phase = "full" =>
    \A q \in queue : Cardinality(mightsee[p]) <= Cardinality(mightsee[q])

GetNextPortal_OneShort(t) ==
    /\ phase # "assembled" /\ t \notin finished /\ base[t] = NoPortal
    /\ \/ \E p \in queue :
             /\ Nextmost(p) /\ queue # {p}
             /\ queue' = queue \ {p}
             /\ base' = [base EXCEPT ![t] = p]
             /\ status' = [status EXCEPT ![p] = "selected"]
             /\ UNCHANGED finished
       \/ /\ Cardinality(queue) <= 1
          /\ finished' = finished \cup {t}
          /\ UNCHANGED <<queue, base, status>>
    /\ UNCHANGED <<phase, mightsee, visbits, stack>>

GetNextPortal_LostUpdate(t) ==
    /\ phase # "assembled" /\ t \notin finished /\ base[t] = NoPortal
    /\ \/ \E p \in queue, u \in Threads \ finished :
             /\ Nextmost(p) /\ base[u] = NoPortal
             /\ queue' = queue \ {p}
             /\ base' = [base EXCEPT ![t] = p, ![u] = p]
             /\ status' = [status EXCEPT ![p] = "selected"]
             /\ UNCHANGED finished
       \/ /\ queue = {}
          /\ finished' = finished \cup {t}
          /\ UNCHANGED <<queue, base, status>>
    /\ UNCHANGED <<phase, mightsee, visbits, stack>>

GetNextPortal(t) ==
    /\ phase # "assembled" /\ t \notin finished /\ base[t] = NoPortal
    /\ \/ \E p \in queue :
             /\ Nextmost(p)
             /\ queue' = queue \ {p}
             /\ base' = [base EXCEPT ![t] = p]
             /\ status' = [status EXCEPT ![p] = "selected"]
             /\ UNCHANGED finished
       \/ /\ queue = {}
          /\ finished' = finished \cup {t}
          /\ UNCHANGED <<queue, base, status>>
    /\ UNCHANGED <<phase, mightsee, visbits, stack>>

(* SimpleFlood: what is reached from the portal's cluster through portals  *)
(* in front of it.                                                         *)
Flooded(p) ==
    {c \in Clusters :
        \A S \in SUBSET Clusters :
            (/\ Neighbour[p] \in S
             /\ \A d \in S : \A i \in DOMAIN Exits[d] :
                   Exits[d][i] \in InFront[p] => Neighbour[Exits[d][i]] \in S)
            => c \in S}

PortalBase(t) ==
    /\ phase = "base" /\ base[t] # NoPortal
    /\ mightsee' = [mightsee EXCEPT ![base[t]] = Flooded(base[t])]
    /\ base' = [base EXCEPT ![t] = NoPortal]
    /\ UNCHANGED <<phase, queue, status, visbits, stack, finished>>

(* RunThreads returns when every thread has; CalcPortalVis starts over     *)
(* with the queue, and ClusterFlow comes last.                             *)
Join ==
    /\ phase # "assembled" /\ finished = Threads
    /\ \/ phase = "base" /\ phase' = "full" /\ queue' = Portals
       \/ phase = "full" /\ phase' = "assembled" /\ UNCHANGED queue
    /\ finished' = {}
    /\ UNCHANGED <<status, mightsee, visbits, base, stack>>

----------------------------------------------------------------------------
(* A call of RecursiveClusterFlow: the cluster, the chain of portals it    *)
(* was reached by, prevstack->mightsee and the loop's variable.            *)
Frame(c, chain, might) == [cluster |-> c, chain |-> chain, prev |-> might, i |-> 1]

(* PortalFlow.                                                             *)
PortalFlow(t) ==
    LET p == base[t] IN
    /\ phase = "full" /\ p # NoPortal /\ stack[t] = <<>> /\ status[p] = "selected"
    /\ status' = [status EXCEPT ![p] = "working"]
    /\ visbits' = [visbits EXCEPT ![p] = {Neighbour[p]}]
    /\ stack' = [stack EXCEPT ![t] = <<Frame(Neighbour[p], <<p>>, mightsee[p])>>]
    /\ UNCHANGED <<phase, queue, mightsee, base, finished>>

select_test_set_Early(p) ==
    IF status[p] \in {"working", "done"} THEN visbits[p] ELSE mightsee[p]

(* What is known of a portal that was met: another thread may be at it.    *)
select_test_set(p) == IF status[p] = "done" THEN visbits[p] ELSE mightsee[p]

Top(t) == stack[t][Len(stack[t])]
Target(t) == Exits[Top(t).cluster][Top(t).i]
Might(t) == Top(t).prev \cap select_test_set(Target(t))
CheckStack(t, c) == \E k \in DOMAIN stack[t] : stack[t][k].cluster = c
(* The loop goes through the target: it may see something new, and it is   *)
(* in the way of some line.                                                *)
Flows(t) ==
    /\ Neighbour[Target(t)] \in Top(t).prev
    /\ ~(Might(t) \subseteq visbits[base[t]])
    /\ Append(Top(t).chain, Target(t)) \in Open
    /\ ~CheckStack(t, Neighbour[Target(t)])

Working(t) == phase = "full" /\ stack[t] # <<>>
MoreExits(t) == Top(t).i <= Len(Exits[Top(t).cluster])
Advanced(t) == [stack[t] EXCEPT ![Len(stack[t])].i = @ + 1]

(* One round of the loop in RecursiveClusterFlow.                          *)
NextExit(t) ==
    /\ Working(t) /\ MoreExits(t)
    /\ LET c == Neighbour[Target(t)] IN
       IF Flows(t)
       THEN /\ visbits' = [visbits EXCEPT ![base[t]] = @ \cup {c}]
            /\ stack' = [stack EXCEPT ![t] = Append(Advanced(t),
                  Frame(c, Append(Top(t).chain, Target(t)), Might(t)))]
       ELSE stack' = [stack EXCEPT ![t] = Advanced(t)] /\ UNCHANGED visbits
    /\ UNCHANGED <<phase, queue, status, mightsee, base, finished>>

Return(t) ==
    /\ Working(t) /\ ~MoreExits(t) /\ Len(stack[t]) > 1
    /\ stack' = [stack EXCEPT ![t] = SubSeq(@, 1, Len(@) - 1)]
    /\ UNCHANGED <<phase, queue, status, mightsee, visbits, base, finished>>

(* UpdateMightsee for all that PortalCompleted finds: cluster c, into      *)
(* which the completed portal leads, sees nothing of d any more, so that   *)
(* no portal of d can see c.                                               *)
ExitSet(c) == {Exits[c][i] : i \in DOMAIN Exits[c]}
Lost(c, st) ==
    LET Seen(q) == IF st[q] = "done" THEN visbits[q] ELSE mightsee[q]
    IN UNION {mightsee[p] \ UNION {Seen(q) : q \in ExitSet(c)} :
                 p \in {q \in ExitSet(c) : st[q] = "done"}}
UpdateMightsee(c, st) ==
    [q \in Portals |->
        IF st[q] = "none" /\ (\E d \in Lost(c, st) : q \in ExitSet(d))
        THEN mightsee[q] \ {c} ELSE mightsee[q]]

PortalCompleted(t) ==
    /\ Working(t) /\ ~MoreExits(t) /\ Len(stack[t]) = 1
    /\ LET p == base[t] IN
       /\ status' = [status EXCEPT ![p] = "done"]
       /\ mightsee' = UpdateMightsee(Neighbour[p], status')
    /\ base' = [base EXCEPT ![t] = NoPortal]
    /\ stack' = [stack EXCEPT ![t] = <<>>]
    /\ UNCHANGED <<phase, queue, visbits, finished>>

----------------------------------------------------------------------------
Thread(t) == \/ GetNextPortal(t) \/ PortalBase(t) \/ PortalFlow(t)
             \/ NextExit(t) \/ Return(t) \/ PortalCompleted(t)
Assembled == phase = "assembled" /\ UNCHANGED vars
Next == (\E t \in Threads : Thread(t)) \/ Join \/ Assembled

Spec == Init /\ [][Next]_vars
(* The system schedules every thread.                                      *)
FairSpec == Spec /\ WF_vars(Join) /\ \A t \in Threads : WF_vars(Thread(t))

(* The clusters at the ends of chains that start with a portal.            *)
Ends(chains, p) == {Neighbour[chain[Len(chain)]] : chain \in {ch \in chains : ch[1] = p}}

(* In whatever order the threads took the portals and met each other's     *)
(* results, a portal is never found to see more than the clipping accepts, *)
(* and when it is done nothing that a clear line reaches is missing.       *)
VisIsConservative ==
    \A p \in Portals :
        /\ visbits[p] \subseteq Ends(Open, p)
        /\ status[p] = "done" => Ends(Clear, p) \subseteq visbits[p]

(* No portal is flowed by two threads or twice: PortalFlow stops the       *)
(* program ("reflowed", flow.c:491).                                       *)
NeverReflowed ==
    phase = "full" =>
        \A t \in Threads : base[t] # NoPortal =>
            /\ stack[t] = <<>> => status[base[t]] = "selected"
            /\ \A u \in Threads \ {t} : base[u] # base[t]

(* The program gets to ClusterFlow, and finds every portal done ("portal   *)
(* not done", qfvis.c:630).                                                *)
Finishes ==
    <>(phase = "assembled" /\ \A p \in Portals : status[p] = "done")
=============================================================================
