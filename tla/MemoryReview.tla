----------------------------- MODULE MemoryReview -----------------------------
(***************************************************************************)
(* Trust of explicit memories, and the memories that replace others.       *)
(*                                                                         *)
(* A verdict compares and sets the trust it has read.  A replacement        *)
(* checks the trust of both memories in reads of their own, then opens a   *)
(* deferred transaction that looks for a cycle and inserts; SQLite refuses *)
(* the insert when another connection has committed after the look.        *)
(*                                                                         *)
(* Data abstraction.  Reviewers, reasons and contents are left out; requests *)
(* without them are refused before anything is read.                       *)
(***************************************************************************)
EXTENDS Integers, Sequences, FiniteSets

CONSTANTS
    Memories,     \* identities of memories
    Curators,     \* callers of the service
    MaxVerdicts   \* bound: trust reviews

ASSUME MemoryBounds == MaxVerdicts \in Nat

VARIABLES
    memory,       \* memories
    verdicts,     \* memory_trust_reviews, in the order of their commits
    replacedBy,   \* memory_supersession
    curator       \* each caller's operation

memoryVars == <<memory, verdicts, replacedBy, curator>>

Origins == {"none", "human", "imported"}
Trust == {"unreviewed", "trusted", "rejected"}
Verdict == [memory : Memories, previous : Trust, new : Trust \ {"unreviewed"}]
Replacement == [old : Memories, new : Memories]

AtRest == [step |-> "idle"]

MemoryTypeOK ==
    /\ memory \in [Memories -> [origin : Origins, trust : Trust]]
    /\ verdicts \in Seq(Verdict) /\ Len(verdicts) <= MaxVerdicts
    /\ replacedBy \subseteq Replacement
    /\ \A c \in Curators :
          \/ curator[c] = AtRest
          \/ curator[c].step = "verdict" /\ curator[c].asks \in Verdict
          \/ curator[c].step \in {"check", "chain", "replace", "overtaken"}
                /\ curator[c].asks \in Replacement

MemoryInit ==
    /\ memory = [m \in Memories |-> [origin |-> "none", trust |-> "unreviewed"]]
    /\ verdicts = <<>>
    /\ replacedBy = {}
    /\ curator = [c \in Curators |-> AtRest]

LosesSnapshot(call) == IF call.step = "replace" THEN [call EXCEPT !.step = "overtaken"] ELSE call
\* A commit by c, which is at rest afterwards, or by a process that is none of
\* the callers.
CommitBy(c) == [d \in Curators |-> IF d = c THEN AtRest ELSE LosesSnapshot(curator[d])]
CommitOutside == [d \in Curators |-> LosesSnapshot(curator[d])]

GoesTo(c, call) ==
    /\ curator' = [curator EXCEPT ![c] = call]
    /\ UNCHANGED <<memory, verdicts, replacedBy>>

Trusted(m) == memory[m].origin # "none" /\ memory[m].trust = "trusted"

\* validate_memory_integrity: a human's memory is trusted, an imported one is
\* not yet.
RecordMemory(m, origin) ==
    /\ memory[m].origin = "none" /\ origin # "none"
    /\ memory' = [memory EXCEPT ![m] =
          [origin |-> origin, trust |-> IF origin = "human" THEN "trusted" ELSE "unreviewed"]]
    /\ curator' = CommitOutside
    /\ UNCHANGED <<verdicts, replacedBy>>

-----------------------------------------------------------------------------
(* review_memory_trust *)

ReadTrust(c, m, new) ==
    /\ curator[c] = AtRest
    /\ memory[m].origin = "imported" /\ memory[m].trust # new
    /\ GoesTo(c, [step |-> "verdict",
                  asks |-> [memory |-> m, previous |-> memory[m].trust, new |-> new]])

\* mutated: the trust is not compared again
Imported(v) == memory[v.memory].origin = "imported"
AsRead(v) == memory[v.memory].origin = "imported" /\ memory[v.memory].trust = v.previous

ApplyVerdict(c) ==
    LET v == curator[c].asks
    IN  /\ curator[c].step = "verdict"
        /\ \/ /\ AsRead(v) /\ Len(verdicts) < MaxVerdicts
              /\ memory' = [memory EXCEPT ![v.memory].trust = v.new]
              /\ verdicts' = Append(verdicts, v)
              /\ curator' = CommitBy(c)
              /\ UNCHANGED replacedBy
           \/ ~AsRead(v) /\ GoesTo(c, AtRest)

-----------------------------------------------------------------------------
(* apply_memory_supersession *)

CheckReplaced(c, r) ==
    /\ curator[c] = AtRest /\ r.old # r.new /\ Trusted(r.old)
    /\ GoesTo(c, [step |-> "check", asks |-> r])

\* mutated: only the memory that goes is looked at
Recorded(m) == memory[m].origin # "none"
Replaces(m) == Trusted(m)

CheckReplacing(c) ==
    /\ curator[c].step = "check"
    /\ GoesTo(c, IF Replaces(curator[c].asks.new) THEN [curator[c] EXCEPT !.step = "chain"]
                 ELSE AtRest)

\* The recursive query: what replaced m, what replaced that, and so on, that is
\* the least set that follows the replacements from m.
FollowsOn(S, m) == \A r \in replacedBy : r.old \in S \cup {m} => r.new \in S
Chain(m) == {x \in Memories : \A S \in SUBSET Memories : FollowsOn(S, m) => x \in S}

ReadChain(c) ==
    /\ curator[c].step = "chain"
    /\ GoesTo(c, IF curator[c].asks.old \in Chain(curator[c].asks.new) THEN AtRest
                 ELSE [curator[c] EXCEPT !.step = "replace"])

\* PRIMARY KEY(superseded_memory_id)
AlreadyReplaced(m) == \E r \in replacedBy : r.old = m

Replace(c) ==
    LET r == curator[c].asks
    IN  /\ curator[c].step = "replace"
        /\ \/ /\ ~AlreadyReplaced(r.old)
              /\ replacedBy' = replacedBy \cup {r}
              /\ curator' = CommitBy(c)
              /\ UNCHANGED <<memory, verdicts>>
           \/ AlreadyReplaced(r.old) /\ GoesTo(c, AtRest)

\* SQLITE_BUSY_SNAPSHOT
LoseReplacement(c) == curator[c].step = "overtaken" /\ GoesTo(c, AtRest)

MemoryNext ==
    \/ \E m \in Memories, origin \in Origins : RecordMemory(m, origin)
    \/ \E c \in Curators :
          \/ \E m \in Memories, new \in Trust \ {"unreviewed"} : ReadTrust(c, m, new)
          \/ \E r \in Replacement : CheckReplaced(c, r)
          \/ ApplyVerdict(c) \/ CheckReplacing(c) \/ ReadChain(c)
          \/ Replace(c) \/ LoseReplacement(c)

MemorySpec == MemoryInit /\ [][MemoryNext]_memoryVars

-----------------------------------------------------------------------------
(* Properties *)

VerdictsOn(m) == {i \in 1 .. Len(verdicts) : verdicts[i].memory = m}

\* What the first n verdicts leave of the trust in m.
LeftBy(n, m, trust) ==
    \/ trust = "unreviewed" /\ \A i \in VerdictsOn(m) : i > n
    \/ \E i \in VerdictsOn(m) : /\ i <= n /\ verdicts[i].new = trust
                                /\ \A j \in VerdictsOn(m) : j <= n => j <= i

\* The reviews of a memory are its whole history: each starts from the trust
\* that the one before it left, the last one is in force, and what a human
\* authorised was never reviewed.  Two reviewers who decide at once leave no
\* gap in it.
TrustFollowsReviews ==
    \A m \in Memories :
        /\ memory[m].origin # "imported" => VerdictsOn(m) = {}
        /\ memory[m].origin = "imported" =>
              /\ LeftBy(Len(verdicts), m, memory[m].trust)
              /\ \A i \in VerdictsOn(m) : LeftBy(i - 1, m, verdicts[i].previous)

\* resume_memories, and the sources of a context packet
Resumable == {m \in Memories : Trusted(m) /\ ~AlreadyReplaced(m)}

Leads(m) == {m} \cup Chain(m)

OnceTrusted(m) ==
    \/ memory[m].origin = "human"
    \/ \E i \in 1 .. Len(verdicts) : verdicts[i].memory = m /\ verdicts[i].new = "trusted"

\* A trusted memory that a session does not resume was replaced by one that has
\* been trusted as well, and the replacements lead to a memory that nothing
\* replaces: no two curators close a circle in which everything is hidden by
\* something else.  What replaced it may have been rejected since, also before
\* the replacement was inserted: the checks are older than the transaction.
HiddenForTrusted ==
    \A m \in Memories : Trusted(m) /\ m \notin Resumable =>
        \E r \in replacedBy :
            /\ r.old = m /\ OnceTrusted(r.new)
            /\ \E n \in Leads(r.new) : ~AlreadyReplaced(n)
=============================================================================
