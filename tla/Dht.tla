-------------------------------- MODULE Dht ---------------------------------
(***************************************************************************)
(* The DHT actor (crates/dht/src/lib.rs): one task that serves the queue   *)
(* of its owner's commands one at a time and, while it waits for answers,  *)
(* the queries of other nodes.  A walk asks ALPHA candidates per round;    *)
(* an answer may be lost, come late, come from another address than the    *)
(* one that was asked, or bear another id than the contact did.  Time is   *)
(* the right of a deadline to pass and of a token to grow old.  A          *)
(* transaction id is the contact the query was for: a walk asks it once,   *)
(* and an answer to an earlier walk finds no entry any more.               *)
(***************************************************************************)
EXTENDS RoutingTable

CONSTANTS
  Alpha,          \* ALPHA: queries per round
  MaxCandidates,  \* MAX_CANDIDATES
  Budget,         \* LOOKUP_BUDGET: queries per walk
  Attempts,       \* BOOTSTRAP_ATTEMPTS
  Addrs,          \* addresses
  AddrOf,         \* [Nodes -> Addrs]
  Hashes,         \* info hashes, as ids
  CacheCap,       \* PEER_CACHE_PER_INFO_HASH
  Seeds,          \* the addresses a bootstrap starts from, in order
  Askers,         \* contacts, as which nodes send us queries
  MaxNodes,       \* bound: contacts in one answer
  MaxCommands     \* bound: commands the owner ever issues

ASSUME DhtAssumption ==
  /\ Alpha \in Nat \ {0} /\ MaxCandidates \in Nat \ {0} /\ Budget \in Nat \ {0}
  /\ Attempts \in Nat \ {0} /\ CacheCap \in Nat \ {0}
  /\ Hashes \subseteq IdSpace /\ Seeds \in Seq(Addrs) /\ Askers \subseteq Nodes
  /\ AddrOf \in [Nodes -> Addrs]
  /\ MaxNodes \in Nat /\ MaxCommands \in Nat

VARIABLES
  table,        \* Actor.table
  commands,     \* cmd_rx and what will be sent to it: commands not started yet
  job,          \* the command being served, or NoJob
  step,         \* where the task stands in it
  any,          \* bootstrap: any
  candidates,   \* lookup: candidates
  asked,        \* lookup: the contacts whose addresses are in queried
  pending,      \* lookup: pending, the contacts the queries were for
  late,         \* lookup: late, likewise
  budget,       \* lookup: budget; while pinging, the attempts left
  heard,        \* history: the contacts this walk knew at its start or took up since
  given,        \* history: addresses whose token this walk was given
  announced,    \* addresses that the last announce was sent to
  received,     \* Actor.received_tokens: address -> "none", "fresh" or "stale"
  issued,       \* Actor.issued_tokens, likewise
  cache         \* Actor.peer_cache: hash -> addresses that announced themselves

walkVars == <<candidates, asked, pending, late, budget, heard, given>>
serverVars == <<issued, cache>>
vars == <<table, commands, job, step, any, walkVars, announced, received, serverVars>>

Ages == {"none", "fresh", "stale"}

Job(op, target, seed) == [op |-> op, target |-> target, seed |-> seed]

NoJob == Job("none", SelfId, <<>>)

AllCommands ==
  {Job("bootstrap", SelfId, Seeds)}
    \cup {Job(op, h, <<>>) : op \in {"find", "announce"}, h \in Hashes}

Init ==
  /\ table = NewTable
  /\ commands \in SeqOf(AllCommands, MaxCommands)
  /\ job = NoJob /\ step = "idle" /\ any = FALSE
  /\ candidates = {} /\ asked = {} /\ pending = {} /\ late = {} /\ budget = 0
  /\ heard = {} /\ given = {} /\ announced = {}
  /\ received = [a \in Addrs |-> "none"]
  /\ issued = [a \in Addrs |-> "none"]
  /\ cache = [h \in Hashes |-> <<>>]

-----------------------------------------------------------------------------
(***************************************************************************)
(* Commands.  The actor looks at the queue only between two commands: when *)
(* one was sent makes no difference to it.                                 *)
(***************************************************************************)
Finish ==
  /\ job' = NoJob /\ step' = "idle" /\ any' = FALSE
  /\ candidates' = {} /\ asked' = {} /\ pending' = {} /\ late' = {} /\ budget' = 0
  /\ heard' = {} /\ given' = {}

\* The start of lookup: without contacts it is an error and the command ends.
BeginWalk(c, t) ==
  IF ContactsOf(t) = {} THEN Finish
  ELSE /\ job' = c /\ step' = "pick" /\ any' = FALSE
       /\ candidates' = Closest(t, c.target, MaxCandidates)
       /\ heard' = ContactsOf(t)
       /\ budget' = Budget
       /\ asked' = {} /\ pending' = {} /\ late' = {} /\ given' = {}

\* The next node of a bootstrap is pinged, or all have been: one answer is enough
\* for a walk to ourselves.
PingNext(c, answered, t) ==
  IF c.seed # <<>>
  THEN /\ job' = c /\ step' = "ping" /\ any' = answered /\ budget' = Attempts
       /\ UNCHANGED <<candidates, asked, pending, late, heard, given>>
  ELSE IF answered THEN BeginWalk(c, t) ELSE Finish

TakeCommand ==
  /\ step = "idle" /\ commands # <<>>
  /\ commands' = Tail(commands)
  /\ LET c == Head(commands)
     IN  IF c.op = "bootstrap" THEN PingNext(c, FALSE, table) ELSE BeginWalk(c, table)
  /\ UNCHANGED <<table, announced, received, serverVars>>

Pinged == [job EXCEPT !.seed = Tail(@)]

\* The ping sent last is answered, by a node with any id.
Pong(n) ==
  /\ step = "ping" /\ AddrOf[n] = Head(job.seed)
  /\ LET t == Upsert(table, n) IN table' = t /\ PingNext(Pinged, TRUE, t)
  /\ UNCHANGED <<commands, announced, received, serverVars>>

\* Up to Attempts pings; an answer to an earlier one is not recognised.
PingTimeout ==
  /\ step = "ping"
  /\ IF budget > 1
     THEN budget' = budget - 1 /\ UNCHANGED <<job, step, any, candidates, asked, pending, late, heard, given>>
     ELSE PingNext(Pinged, any, table)
  /\ UNCHANGED <<table, commands, announced, received, serverVars>>

-----------------------------------------------------------------------------
(***************************************************************************)
(* The walk.                                                               *)
(***************************************************************************)
queried == {AddrOf[n] : n \in asked}

Unasked(S) == {n \in S : AddrOf[n] \notin queried}

LeastOf(a, b) == IF a < b THEN a ELSE b

\* Mutant: the budget is looked at before the round, not at each node of it.
RoundSizeUnchecked == IF budget = 0 THEN 0 ELSE Alpha

\* How many candidates a round takes: each costs one of the budget.
RoundSize == LeastOf(Alpha, budget)

\* Mutant: a query that could not be sent is not paid for.
CostOfSent(round, sentTo) == Cardinality(sentTo)

Cost(round, sentTo) == Cardinality(round)

\* An address that was not asked before the round is asked once for every id it is
\* known under.  Some of the sends may fail: those nodes count as asked all the same.
Pick(round, sentTo) ==
  /\ step = "pick"
  /\ round \in Nearest(Unasked(candidates), job.target, RoundSize)
  /\ round # {} /\ sentTo \subseteq round
  /\ asked' = asked \cup round
  /\ budget' = budget - Cost(round, sentTo)
  /\ pending' = sentTo
  /\ step' = "wait"
  /\ UNCHANGED <<table, commands, job, any, candidates, late, heard, given, announced,
                 received, serverVars>>

\* Of the nodes of an answer a walk takes those whose address was not asked and is
\* no candidate's, under whatever id; of two with one address the first.
New(nodes) ==
  {nodes[i] : i \in {i \in DOMAIN nodes :
     /\ AddrOf[nodes[i]] \notin queried \cup {AddrOf[c] : c \in candidates}
     /\ \A k \in 1 .. i - 1 : AddrOf[nodes[k]] # AddrOf[nodes[i]]}}

\* Mutant: keeps the candidates heard of first, however far they are.
MergeFirstCome(new) ==
  {IF Cardinality(candidates) < MaxCandidates THEN S ELSE candidates
     : S \in Nearest(candidates \cup new, job.target, MaxCandidates)}

\* merge_candidates.  The candidates of this round are still among them and
\* count against the cap until the round ends.
Merge(new) == Nearest(candidates \cup new, job.target, MaxCandidates)

\* Mutant: only an answer in time gives a token.
KeepTokenInTime(n) ==
  received' = IF n \in pending THEN [received EXCEPT ![AddrOf[n]] = "fresh"] ELSE received

KeepToken(n) == received' = [received EXCEPT ![AddrOf[n]] = "fresh"]

\* An answer to the query for n, in time or late, while the round waits for
\* somebody.  Its sender's id is that of m, another one if the node started anew.
Hear(n, m, nodes, token) ==
  /\ step = "wait" /\ pending # {}
  /\ n \in pending \cup late /\ AddrOf[m] = AddrOf[n]
  /\ pending' = pending \ {n} /\ late' = late \ {n}
  /\ table' = UpsertAll(Upsert(table, m), nodes)
  /\ candidates' \in Merge(New(nodes))
  /\ heard' = heard \cup New(nodes)
  /\ IF token THEN KeepToken(n) /\ given' = given \cup {AddrOf[n]}
     ELSE UNCHANGED <<received, given>>
  /\ UNCHANGED <<commands, job, step, any, asked, budget, announced, serverVars>>

\* An answer with the id of the query to n, from another address: the entry is
\* taken out before the addresses are compared, and n is not listened to again.
HearFromElsewhere(n) ==
  /\ step = "wait" /\ pending # {}
  /\ n \in pending \cup late
  /\ pending' = pending \ {n} /\ late' = late \ {n}
  /\ UNCHANGED <<table, commands, job, step, any, candidates, asked, budget, heard, given,
                 announced, received, serverVars>>

\* Mutant: a round lasts until all have answered.
RoundOverWhenAnswered == pending = {}

\* All have answered, or KRPC_TIMEOUT has passed: it may at any time.
RoundOver == TRUE

EndRound ==
  /\ step = "wait" /\ RoundOver
  /\ late' = late \cup pending /\ pending' = {}
  /\ candidates' = Unasked(candidates)
  /\ step' = "pick"
  /\ UNCHANGED <<table, commands, job, any, asked, budget, heard, given, announced, received,
                 serverVars>>

Fresh == {a \in Addrs : received[a] = "fresh"}

WalkOver == step = "pick" /\ (Unasked(candidates) = {} \/ budget = 0)

\* announce is sent to every address whose token is fresh, whichever walk got it.
\* When there is none, or no send succeeds, it is an error and the command ends.
EndWalk ==
  /\ WalkOver
  /\ announced' = IF job.op = "announce" THEN Fresh ELSE announced
  /\ \/ job.op = "announce" /\ Fresh # {} /\ step' = "confirm" /\ UNCHANGED <<job, any, walkVars>>
     \/ Finish
  /\ UNCHANGED <<table, commands, received, serverVars>>

\* announce waits out KRPC_TIMEOUT for refusals.
Confirmed ==
  /\ step = "confirm" /\ Finish
  /\ UNCHANGED <<table, commands, announced, received, serverVars>>

-----------------------------------------------------------------------------
(***************************************************************************)
(* Queries of other nodes, served wherever the actor waits.                *)
(***************************************************************************)
Serve(from) ==
  /\ step # "pick"
  /\ table' = Upsert(table, from)
  /\ UNCHANGED <<commands, job, step, any, walkVars, announced, received>>

\* ping and find_node
ServeLookup(from) == Serve(from) /\ UNCHANGED serverVars

\* get_peers: the answer carries a token for the asker.
ServeGetPeers(from) ==
  /\ Serve(from)
  /\ issued' = [issued EXCEPT ![AddrOf[from]] = "fresh"]
  /\ UNCHANGED cache

Remembered(peers, a) ==
  LET more == IF a \in Range(peers) THEN peers ELSE Append(peers, a)
  IN  IF Len(more) > CacheCap THEN Tail(more) ELSE more

TokenValid(from, right) == issued[AddrOf[from]] = "fresh" /\ right

\* announce_peer, with the token we issued or another one.
ServeAnnounce(from, h, right) ==
  /\ Serve(from)
  /\ cache' = IF TokenValid(from, right) THEN [cache EXCEPT ![h] = Remembered(@, AddrOf[from])]
              ELSE cache
  /\ UNCHANGED issued

\* TOKEN_TTL passes.  Received tokens are read at the end of a walk only, and
\* a walk takes at most Budget rounds of KRPC_TIMEOUT (192 s): a token it was
\* given is fresh then, and another may as well have expired before the walk.
ExpireReceived(a) ==
  /\ received[a] = "fresh" /\ step = "idle"
  /\ received' = [received EXCEPT ![a] = "stale"]
  /\ UNCHANGED <<table, commands, job, step, any, walkVars, announced, serverVars>>

ExpireIssued(a) ==
  /\ issued[a] = "fresh"
  /\ issued' = [issued EXCEPT ![a] = "stale"]
  /\ UNCHANGED <<table, commands, job, step, any, walkVars, announced, received, cache>>

-----------------------------------------------------------------------------
NodeLists == UNION {{s \in [1 .. k -> Nodes] : IsInjective(s)} : k \in 0 .. MaxNodes}

OwnStep ==
  \/ TakeCommand
  \/ \E n \in Nodes : Pong(n)
  \/ PingTimeout
  \/ \E round \in SUBSET candidates : \E sentTo \in SUBSET round : Pick(round, sentTo)
  \/ EndRound
  \/ EndWalk
  \/ Confirmed

AnswerStep ==
  \/ \E n, m \in Nodes, nodes \in NodeLists, token \in BOOLEAN : Hear(n, m, nodes, token)
  \/ \E n \in Nodes : HearFromElsewhere(n)

ServerStep ==
  \E n \in Askers :
    \/ ServeLookup(n)
    \/ ServeGetPeers(n)
    \/ \E h \in Hashes, right \in BOOLEAN : ServeAnnounce(n, h, right)

TimeStep == \E a \in Addrs : ExpireReceived(a) \/ ExpireIssued(a)

Next ==
  \/ OwnStep
  \/ AnswerStep
  \/ ServerStep
  \/ TimeStep

Spec == Init /\ [][Next]_vars

\* The task runs and its deadlines pass; nobody has to answer.
FairSpec == Spec /\ WF_vars(OwnStep)

-----------------------------------------------------------------------------
(***************************************************************************)
(* Properties.                                                             *)
(***************************************************************************)
Walking == step \in {"pick", "wait"}

\* Types of the variables.  budget is a usize: an underflow kills the actor.
TypeOK ==
  /\ \A b \in Buckets : Range(table[b]) \subseteq Nodes
  /\ commands \in Seq(AllCommands)
  /\ job \in [op : {"none", "bootstrap", "find", "announce"}, target : IdSpace, seed : Seq(Addrs)]
  /\ any \in BOOLEAN /\ (step = "ping" => job.seed # <<>>)
  /\ step \in {"idle", "ping", "pick", "wait", "confirm"}
  /\ candidates \subseteq Nodes /\ asked \subseteq Nodes
  /\ pending \subseteq Nodes /\ late \subseteq Nodes
  /\ budget \in Nat
  /\ heard \subseteq Nodes /\ given \subseteq Addrs /\ announced \subseteq Addrs
  /\ received \in [Addrs -> Ages] /\ issued \in [Addrs -> Ages]
  /\ cache \in [Hashes -> Seq(Addrs)]

\* Every contact that a walk asks is paid for once, whether the query left or not,
\* an address known under two ids twice: a walk sends Budget queries at most and
\* goes on for ever neither among silent nodes nor among those that change their
\* ids.
BudgetAccounted ==
  Walking => budget + Cardinality(asked) = Budget

\* The contacts of a walk whose addresses it asked, under these ids or others.
Covered == {n \in heard : AddrOf[n] \in queried}

\* A walk that ends with budget left was thorough: a contact it took up and whose
\* address it did not ask is no nearer to the target than MaxCandidates contacts it
\* covered, whatever order the answers came in and however the cap cut the
\* candidates.
Thorough ==
  WalkOver /\ budget > 0 =>
    \A n \in heard \ Covered :
      Cardinality({q \in Covered : ~ Nearer(IdOf[n], IdOf[q], job.target)}) >= MaxCandidates

\* An announce is sent to every address that gave a token during its walk, those
\* that answered after their round included.
AnnounceReachesGivers == step = "confirm" => given \subseteq announced

Home(n) == IF IdOf[n] = SelfId THEN -1 ELSE BucketIndex(IdOf[n])

C == INSTANCE Contacts WITH contacts <- [b \in Buckets |-> Range(table[b])]

\* The table keeps its promise: contacts join their own bucket while there is
\* room, no id twice, and stay for good, whatever walks and queries do at once.
ContactsKept == C!Spec

\* The actor always comes back to its command queue: no set of silent nodes
\* holds it in a command for ever.
AlwaysReturns == []<>(step = "idle")
=============================================================================
