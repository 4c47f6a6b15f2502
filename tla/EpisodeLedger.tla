---------------------------- MODULE EpisodeLedger ----------------------------
(***************************************************************************)
(* Episodes, their members, and the one experience each may end in.        *)
(*                                                                         *)
(* A mutation opens a deferred transaction: it reads under its request key *)
(* and becomes a writer later.  SQLite refuses the upgrade when any other   *)
(* connection committed in between, so the transaction is two steps, Begin  *)
(* and Write, and every commit makes the open snapshots stale.  The insert  *)
(* of an experience takes the writer slot first and is one step, but the    *)
(* previews it relies on are read earlier, in transactions of their own.    *)
(*                                                                         *)
(* Data abstraction.  Events and episodes share one exact session and task, *)
(* requests outside it are refused by reads of rows that never change.  A   *)
(* proposal is named by what it hashes: the episode, its members and the    *)
(* build that extracts (its contract versions and its code).                *)
(***************************************************************************)
EXTENDS Integers, Sequences, FiniteSets

CONSTANTS
    Writers,      \* callers of the service, in one process or several
    Episodes,     \* identities of episodes
    Facts,        \* identities of events
    MutationKeys, \* request keys
    Contracts,    \* sets of registered decoders, normalizers and extractors
    Codes,        \* what a build extracts under one set of contracts
    MaxVersion,   \* bound: mutations of one episode
    MaxMembers    \* MAX_EPISODE_EVENTS

ASSUME LedgerBounds == MaxVersion \in Nat /\ MaxMembers \in Nat

VARIABLES
    recorded,   \* events
    episode,    \* episodes with episode_events
    committed,  \* episode_mutation_requests
    accepted,   \* experiences
    writer      \* each caller's operation

ledgerVars == <<recorded, episode, committed, accepted, writer>>

Terminal == {"closed", "abandoned"}
Operation == {"add_events", "close", "abandon"}
Builds == [contract : Contracts, code : Codes]

Batch == UNION {[1 .. n -> Facts] : n \in 1 .. MaxMembers}
Elements(s) == {s[i] : i \in DOMAIN s}

EpisodeRow == [status : {"absent", "open"} \cup Terminal, version : 0 .. MaxVersion,
               members : Seq(Facts)]
Mutation == [episode : Episodes, op : Operation, key : MutationKeys,
             expected : 0 .. MaxVersion, events : Batch \cup {<<>>}]
Experience == [episode : Episodes, version : 0 .. MaxVersion, members : Seq(Facts),
               build : Builds]

None == [step |-> "idle"]
Reply == {"ok", "conflict", "invalid"}

LedgerTypeOK ==
    /\ recorded \subseteq Facts
    /\ episode \in [Episodes -> EpisodeRow]
    /\ \A e \in Episodes : Len(episode[e].members) <= MaxMembers
    /\ committed \subseteq Mutation
    /\ accepted \subseteq Experience
    /\ \A w \in Writers :
          \/ writer[w] = None
          \/ writer[w].step \in {"write", "stale"} /\ writer[w].asks \in Mutation
          \/ writer[w].step \in {"preview", "identify", "insert"} /\ writer[w].asks \in Experience
          \/ writer[w].step = "answered" /\ writer[w].answer \in Reply

LedgerInit ==
    /\ recorded = {}
    /\ episode = [e \in Episodes |-> [status |-> "absent", version |-> 0, members |-> <<>>]]
    /\ committed = {}
    /\ accepted = {}
    /\ writer = [w \in Writers |-> None]

\* A commit of another connection leaves an open snapshot without a way to write.
Overtaken(call) == IF call.step = "write" THEN [call EXCEPT !.step = "stale"] ELSE call
Overtake(w, call) == [v \in Writers |-> IF v = w THEN call ELSE Overtaken(writer[v])]

Answered(w, answer) ==
    [step |-> "answered", asks |-> writer[w].asks, answer |-> answer]

Free(w) == writer[w] = None

GiveUpCall(w) ==
    /\ writer' = [writer EXCEPT ![w] = None]
    /\ UNCHANGED <<recorded, episode, committed, accepted>>

\* The caller has its answer, or it got lost.
ForgetReply(w) == writer[w].step = "answered" /\ GiveUpCall(w)

-----------------------------------------------------------------------------
(* Rows that one statement inserts *)

StartEpisode(e) ==
    /\ episode[e].status = "absent"
    /\ episode' = [episode EXCEPT ![e].status = "open"]
    /\ writer' = [v \in Writers |-> Overtaken(writer[v])]
    /\ UNCHANGED <<recorded, committed, accepted>>

Record(x) ==
    /\ x \notin recorded
    /\ recorded' = recorded \cup {x}
    /\ writer' = [v \in Writers |-> Overtaken(writer[v])]
    /\ UNCHANGED <<episode, committed, accepted>>

-----------------------------------------------------------------------------
(* mutate_episode *)

RequestsUnder(m) == {r \in committed : r.episode = m.episode /\ r.key = m.key}

Known(e) == episode[e].status # "absent"

Asks(e, op, key, expected, events) ==
    [episode |-> e, op |-> op, key |-> key, expected |-> expected, events |-> events]

\* The episode and the events exist; the version is one the caller has read.
Mutations(e) ==
    {Asks(e, op, k, v, <<>>) :
        op \in {"close", "abandon"}, k \in MutationKeys, v \in 0 .. episode[e].version}
    \cup {Asks(e, "add_events", k, v, batch) :
             k \in MutationKeys, v \in 0 .. episode[e].version,
             batch \in {b \in Batch : /\ Elements(b) \subseteq recorded
                                     /\ \A i, j \in DOMAIN b : b[i] = b[j] => i = j}}

Replay(m) == m \in RequestsUnder(m)

\* The snapshot is taken by the lookup of the request key.
Begin(w, m) ==
    LET asked == [step |-> "write", asks |-> m]
        answer(a) == [step |-> "answered", asks |-> m, answer |-> a]
    IN  /\ Free(w) /\ Known(m.episode) /\ m.expected < MaxVersion
        /\ writer' = [writer EXCEPT ![w] =
              CASE Replay(m) -> answer("ok")
                [] ~Replay(m) /\ RequestsUnder(m) # {} -> answer("conflict")
                [] OTHER -> asked]
        /\ UNCHANGED <<recorded, episode, committed, accepted>>

\* mutated: the version alone guards the update
CurrentVersion(m) == episode[m.episode].version = m.expected
Updates(m) == episode[m.episode].status = "open" /\ episode[m.episode].version = m.expected

\* PRIMARY KEY(workspace_id, event_id)
Unowned(events) == \A e \in Episodes : Elements(events) \cap Elements(episode[e].members) = {}

Mutated(m) ==
    [status |-> CASE m.op = "close" -> "closed" [] m.op = "abandon" -> "abandoned"
                  [] OTHER -> episode[m.episode].status,
     version |-> m.expected + 1,
     members |-> episode[m.episode].members \o m.events]

\* A refusal rolls the reservation of the key and the new version back.
Refuse(w, answer) ==
    /\ writer' = [writer EXCEPT ![w] = Answered(w, answer)]
    /\ UNCHANGED <<recorded, episode, committed, accepted>>

Write(w) ==
    LET m == writer[w].asks
        full == Len(episode[m.episode].members) + Len(m.events) > MaxMembers
    IN  /\ writer[w].step = "write"
        /\ \/ ~Updates(m) /\ Refuse(w, "conflict")
           \/ Updates(m) /\ full /\ Refuse(w, "invalid")
           \/ Updates(m) /\ ~full /\ ~Unowned(m.events) /\ Refuse(w, "conflict")
           \/ /\ Updates(m) /\ ~full /\ Unowned(m.events)
              /\ episode' = [episode EXCEPT ![m.episode] = Mutated(m)]
              /\ committed' = committed \cup {m}
              /\ writer' = Overtake(w, Answered(w, "ok"))
              /\ UNCHANGED <<recorded, accepted>>

\* SQLITE_BUSY: the upgrade of a stale snapshot, or beside another writer,
\* fails at once, and the same snapshot shows no request under the key: the
\* caller is told of a storage error, which says nothing.
Busy(w) ==
    /\ \/ writer[w].step = "stale"
       \/ writer[w].step = "write"
             /\ \E v \in Writers \ {w} : writer[v].step \in {"write", "insert"}
    /\ GiveUpCall(w)

-----------------------------------------------------------------------------
(* ConsolidationService::accept *)

Of(e) == {x \in accepted : x.episode = e}

Proposal(e, build) ==
    [episode |-> e, version |-> episode[e].version, members |-> episode[e].members,
     build |-> build]

\* consolidation_fingerprint
Fingerprint(x) == <<x.episode, x.version, x.members, x.build.contract>>

\* A caller that has previewed asks for what it saw; another proposal than the
\* accepted one has no result.
AskAcceptance(w, e, build) ==
    LET p == Proposal(e, build)
    IN  /\ Free(w)
        /\ episode[e].status \in Terminal /\ episode[e].members # <<>>
        /\ Of(e) = {} \/ p \in Of(e)
        /\ writer' = [writer EXCEPT ![w] =
              IF Of(e) = {} THEN [step |-> "preview", asks |-> p]
              ELSE [step |-> "answered", asks |-> p, answer |-> "ok"]]
        /\ UNCHANGED <<recorded, episode, committed, accepted>>

\* The build that serves the acceptance extracts again.  Another caller may
\* have accepted meanwhile; this build may see another proposal, one that has
\* to be reviewed, or none, and then there is no result.
Preview(w) ==
    LET p == writer[w].asks
    IN  /\ writer[w].step = "preview"
        /\ \/ p \in Of(p.episode) /\ Refuse(w, "ok")
           \/ p \notin Of(p.episode) /\ GiveUpCall(w)
           \/ /\ Of(p.episode) = {} /\ p = Proposal(p.episode, p.build)
              /\ writer' = [writer EXCEPT ![w].step = "identify"]
              /\ UNCHANGED <<recorded, episode, committed, accepted>>

\* acceptance_input_identity
Identify(w) ==
    /\ writer[w].step = "identify"
    /\ writer' = [writer EXCEPT ![w] =
          [step |-> "insert", asks |-> writer[w].asks,
           identity |-> episode[writer[w].asks.episode].members]]
    /\ UNCHANGED <<recorded, episode, committed, accepted>>

\* mutated: only the fingerprint keeps experiences apart
Unlimited(p) == TRUE
\* enforce_single_episode
SoleOf(p) == Of(p.episode) = {}

Matches(x) == {y \in accepted : Fingerprint(y) = Fingerprint(x)}

Unchanged(w) ==
    LET p == writer[w].asks
    IN  /\ episode[p.episode].version = p.version
        /\ episode[p.episode].members = writer[w].identity
        /\ episode[p.episode].status \in Terminal

\* insert_experience_checked
Insert(w) ==
    LET p == writer[w].asks
    IN  /\ writer[w].step = "insert"
        /\ \/ Unchanged(w) /\ p \in Matches(p) /\ Refuse(w, "ok")
           \/ /\ \/ ~Unchanged(w)
                 \/ Matches(p) # {} /\ p \notin Matches(p)
                 \/ Matches(p) = {} /\ ~SoleOf(p)
              /\ Refuse(w, "conflict")
           \/ /\ Unchanged(w) /\ Matches(p) = {} /\ SoleOf(p)
              /\ accepted' = accepted \cup {p}
              /\ writer' = Overtake(w, Answered(w, "ok"))
              /\ UNCHANGED <<recorded, episode, committed>>

Consolidate(w) ==
    \/ \E e \in Episodes, build \in Builds : AskAcceptance(w, e, build)
    \/ Preview(w) \/ Identify(w) \/ Insert(w)

LedgerNext ==
    \/ \E e \in Episodes : StartEpisode(e)
    \/ \E x \in Facts : Record(x)
    \/ \E w \in Writers :
          \/ \E e \in Episodes : \E m \in Mutations(e) : Begin(w, m)
          \/ Write(w) \/ Busy(w) \/ Consolidate(w) \/ ForgetReply(w)

LedgerSpec == LedgerInit /\ [][LedgerNext]_ledgerVars

-----------------------------------------------------------------------------
(* Properties *)

Row(e, n) == {m \in committed : m.episode = e /\ m.expected = n - 1}

\* The events that the requests for the first n versions brought, by their
\* places in those requests.
Brought(e, n) ==
    UNION {{m} \X DOMAIN m.events : m \in {r \in committed : r.episode = e /\ r.expected < n}}

\* An episode is what its requests made of it, each counted once however often
\* it was sent: one request for every version, the members in the order of the
\* requests, nothing after the request that ended it, and no event in two
\* places.  Lost answers, repeats and races leave no other trace: whoever is told
\* "ok" finds exactly what it asked for in the ledger, also when another caller
\* did it, and whoever is refused will never find it there.
EpisodesReplayRequests ==
    /\ \A e \in Episodes :
          /\ \A n \in 1 .. episode[e].version : Cardinality(Row(e, n)) = 1
          /\ Len(episode[e].members) = Cardinality(Brought(e, episode[e].version))
    /\ \A m \in committed :
          /\ m.expected < episode[m.episode].version
          /\ \A i \in DOMAIN m.events :
                episode[m.episode].members[Cardinality(Brought(m.episode, m.expected)) + i]
                    = m.events[i]
          /\ m.op # "add_events" <=>
                /\ episode[m.episode].status \in Terminal
                /\ m.expected + 1 = episode[m.episode].version
    /\ \A e, f \in Episodes :
          \A i \in DOMAIN episode[e].members, j \in DOMAIN episode[f].members :
             episode[e].members[i] = episode[f].members[j] => e = f /\ i = j
    /\ \A w \in Writers : writer[w].step = "answered" =>
          /\ writer[w].answer = "ok" => writer[w].asks \in committed \cup accepted
          /\ writer[w].answer \in {"conflict", "invalid"} =>
                writer[w].asks \notin committed \cup accepted

\* However many callers and builds consolidate an episode, it yields one
\* experience, whatever fingerprints their decoders give it, and the evidence
\* of that experience is the whole episode as it ended: the reads of the
\* preview, the identity and the insert saw the same, and nothing joined later.
OneExperiencePerEpisode ==
    /\ \A x, y \in accepted : x.episode = y.episode => x = y
    /\ \A x \in accepted :
          /\ episode[x.episode].status \in Terminal
          /\ x = Proposal(x.episode, x.build)
=============================================================================
