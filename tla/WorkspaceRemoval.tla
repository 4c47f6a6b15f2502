--------------------------- MODULE WorkspaceRemoval ---------------------------
(***************************************************************************)
(* Registration and deregistration of the workspace of one source root.    *)
(*                                                                         *)
(* A preview stores a plan with a snapshot of the workspace; a request     *)
(* under a key confirms the plan.  Both are BEGIN IMMEDIATE transactions,  *)
(* one step each.  Answers get lost, requests are repeated, plans expire,  *)
(* and other processes register, deregister and write rows all the while.  *)
(* The MCP server stops its watcher before it confirms, and starts it      *)
(* again when the workspace stays.                                         *)
(*                                                                         *)
(* Data abstraction.  The snapshot is a number of rows: the counts and the *)
(* state it holds besides are further numbers, treated alike.  A change    *)
(* that alters no count is not part of the snapshot and left out.  The     *)
(* service reads the list of workspaces without failing.                   *)
(***************************************************************************)
EXTENDS Integers, Sequences, FiniteSets

CONSTANTS
    RemovalKeys,  \* request keys
    Resolvers,    \* other calls that resolve the workspace and write a row
    Ttl,          \* WORKSPACE_DEREGISTRATION_PLAN_TTL_SECONDS
    MaxIds,       \* bound: registrations of the root
    MaxRowCount,  \* bound: rows of a workspace
    MaxPlans,     \* bound: previews
    MaxTime       \* bound: clock

ASSUME RemovalBounds == {Ttl, MaxIds, MaxRowCount, MaxPlans, MaxTime} \subseteq Nat

VARIABLES
    current,   \* the registered workspace of the root, or NoOne
    born,      \* registrations so far; identities are never used again
    held,      \* rows of every workspace that ever was
    resolved,  \* the workspace each tool has resolved
    plans,     \* workspace_deregistration_plans
    receipts,  \* workspace_deregistration_receipts
    now,
    mcp        \* watchers and the tool call of the MCP server

removalVars == <<current, born, held, resolved, plans, receipts, now, mcp>>

NoOne == 0
Ids == 1 .. MaxIds

Plan == [workspace : Ids, count : 0 .. MaxRowCount, expires : Nat, consumed : BOOLEAN]
Confirmation == [workspace : Ids, plan : 1 .. MaxPlans, key : RemovalKeys]
Receipt == [request : Confirmation, count : 0 .. MaxRowCount, at : Nat]
WatcherState == {"none", "starting", "ready", "failed", "stopped"}

RemovalTypeOK ==
    /\ current \in 0 .. born /\ born \in 0 .. MaxIds
    /\ held \in [Ids -> 0 .. MaxRowCount]
    /\ resolved \in [Resolvers -> Ids \cup {NoOne}]
    /\ plans \in Seq(Plan) /\ Len(plans) <= MaxPlans
    /\ receipts \subseteq Receipt
    /\ now \in 0 .. MaxTime
    /\ mcp.state \in [Ids -> WatcherState] /\ mcp.handles \subseteq Ids
    /\ mcp.step \in {"down", "up", "listed", "stopped", "decided"}

ServerDown == [step |-> "down", state |-> [w \in Ids |-> "none"], handles |-> {}]

RemovalInit ==
    /\ current = NoOne /\ born = 0
    /\ held = [w \in Ids |-> 0]
    /\ resolved = [t \in Resolvers |-> NoOne]
    /\ plans = <<>> /\ receipts = {} /\ now = 0
    /\ mcp = ServerDown

tables == <<current, born, held, plans, receipts>>

-----------------------------------------------------------------------------
(* Registration, rows and previews *)

\* register_workspace returns the registered workspace when there is one, also
\* to the one who loses ON CONFLICT(root_path).
Register ==
    /\ current = NoOne /\ born < MaxIds
    /\ born' = born + 1 /\ current' = born + 1
    /\ UNCHANGED <<held, resolved, plans, receipts, now, mcp>>

ResolveWatched(t) ==
    /\ resolved[t] = NoOne /\ current # NoOne
    /\ resolved' = [resolved EXCEPT ![t] = current]
    /\ UNCHANGED <<tables, now, mcp>>

\* mutated: rows go in without their workspace
Anywhere(w) == w \in Ids
\* REFERENCES workspaces(id)
Referable(w) == w = current

WriteRow(t) ==
    LET w == resolved[t]
    IN  /\ w # NoOne
        /\ resolved' = [resolved EXCEPT ![t] = NoOne]
        /\ \/ /\ Referable(w) /\ held[w] < MaxRowCount
              /\ held' = [held EXCEPT ![w] = @ + 1]
           \/ ~Referable(w) /\ UNCHANGED held
        /\ UNCHANGED <<current, born, plans, receipts, now, mcp>>

\* An entry of the working set is cleared.
ClearRow ==
    /\ current # NoOne /\ held[current] > 0
    /\ held' = [held EXCEPT ![current] = @ - 1]
    /\ UNCHANGED <<current, born, resolved, plans, receipts, now, mcp>>

\* create_workspace_deregistration_plan
PreviewRemoval ==
    /\ current # NoOne /\ Len(plans) < MaxPlans
    /\ plans' = Append(plans, [workspace |-> current, count |-> held[current],
                               expires |-> now + Ttl, consumed |-> FALSE])
    /\ UNCHANGED <<current, born, held, resolved, receipts, now, mcp>>

Tick ==
    /\ now < MaxTime /\ now' = now + 1
    /\ UNCHANGED <<tables, resolved, mcp>>

-----------------------------------------------------------------------------
(* deregister_workspace *)

ReceiptOf(r) ==
    {x \in receipts : x.request.workspace = r.workspace /\ x.request.key = r.key}

Valid(r) == ~plans[r.plan].consumed /\ now <= plans[r.plan].expires

\* mutated: the workspace is looked for, not compared
Present(r) == r.workspace = current
AsPreviewed(r) == r.workspace = current /\ held[r.workspace] = plans[r.plan].count

Outcome(r) ==
    CASE \E x \in ReceiptOf(r) : x.request = r -> "replay"
      [] ReceiptOf(r) # {} /\ \A x \in ReceiptOf(r) : x.request # r -> "conflict"
      [] ReceiptOf(r) = {} /\ (plans[r.plan].workspace # r.workspace
                                 \/ plans[r.plan].consumed) -> "conflict"
      [] ReceiptOf(r) = {} /\ plans[r.plan].workspace = r.workspace
            /\ Valid(r) /\ AsPreviewed(r) -> "delete"
      [] OTHER -> "stale"

\* The cascade, the receipt and the consumption of the plan commit together.
ConfirmPlan(r) ==
    IF Outcome(r) = "delete"
    THEN /\ current' = NoOne
         /\ held' = [held EXCEPT ![r.workspace] = 0]
         /\ plans' = [plans EXCEPT ![r.plan].consumed = TRUE]
         /\ receipts' = receipts \cup
               {[request |-> r, count |-> held[r.workspace], at |-> now]}
         /\ UNCHANGED born
    ELSE UNCHANGED tables

Told(r) == IF Outcome(r) \in {"delete", "replay"} THEN "deregistered" ELSE Outcome(r)

\* A request names a workspace and a plan that exist or existed.  Whoever got
\* no answer sends it again, through the CLI or the server.
Requests == [workspace : 1 .. born, plan : 1 .. Len(plans), key : RemovalKeys]

\* The CLI: a process of its own.
ConfirmByCli(r) ==
    /\ ConfirmPlan(r)
    /\ UNCHANGED <<resolved, now, mcp>>

-----------------------------------------------------------------------------
(* The MCP server *)

\* It serves one request at a time; the lifecycle lock keeps the start of the
\* watchers, which runs beside it, out of a deregistration.
ListForWatchers ==
    /\ mcp.step = "down"
    /\ mcp' = [mcp EXCEPT !.step = "listed",
                          !.state = [w \in Ids |-> IF w = current THEN "starting" ELSE "none"]]
    /\ UNCHANGED <<tables, resolved, now>>

Started(w, srv) ==
    {[srv EXCEPT !.step = "up", !.state[w] = "ready", !.handles = @ \cup {w}],
     [srv EXCEPT !.step = "up", !.state[w] = "failed"]}

StartWatchers ==
    /\ mcp.step = "listed"
    /\ LET listed == {w \in Ids : mcp.state[w] = "starting"}
       IN  \/ listed = {} /\ mcp' = [mcp EXCEPT !.step = "up"]
           \/ \E w \in listed : mcp' \in Started(w, mcp)
    /\ UNCHANGED <<tables, resolved, now>>

StopWatcher(r) ==
    LET w == r.workspace
    IN  /\ mcp.step = "up"
        /\ mcp' = [step |-> "stopped", request |-> r, handles |-> mcp.handles \ {w},
                   state |-> [mcp.state EXCEPT
                                 ![w] = IF w \in mcp.handles THEN "stopped" ELSE @]]
        /\ UNCHANGED <<tables, resolved, now>>

Decide ==
    /\ mcp.step = "stopped"
    /\ ConfirmPlan(mcp.request)
    /\ mcp' = [step |-> "decided", request |-> mcp.request, told |-> Told(mcp.request),
               state |-> mcp.state, handles |-> mcp.handles]
    /\ UNCHANGED <<resolved, now>>

\* mutated: a stale plan leaves the watcher stopped
RestartsOnConflict(told) == told = "conflict"
Restarts(told) == told # "deregistered"

Answer ==
    LET w == mcp.request.workspace
        up == [step |-> "up", state |-> mcp.state, handles |-> mcp.handles]
    IN  /\ mcp.step = "decided"
        /\ IF Restarts(mcp.told) /\ w = current THEN mcp' \in Started(w, up)
           ELSE mcp' = up
        /\ UNCHANGED <<tables, resolved, now>>

\* The answer is lost with the server.
Crash ==
    /\ mcp.step # "down"
    /\ mcp' = ServerDown
    /\ UNCHANGED <<tables, resolved, now>>

RemovalNext ==
    \/ Register \/ PreviewRemoval \/ ClearRow \/ Tick
    \/ \E t \in Resolvers : ResolveWatched(t) \/ WriteRow(t)
    \/ \E r \in Requests : ConfirmByCli(r) \/ StopWatcher(r)
    \/ ListForWatchers \/ StartWatchers \/ Decide \/ Answer \/ Crash

RemovalSpec == RemovalInit /\ [][RemovalNext]_removalVars

-----------------------------------------------------------------------------
(* Properties *)

\* A workspace disappears only by a confirmed plan, and then once: whoever
\* confirmed it saw the size of what was deleted and was in time, the plan is
\* spent and the receipt is there.  No crash or race of the server, the CLI
\* and other processes leaves one without the others.
RemovedAsPreviewed ==
    /\ \A w \in 1 .. born :
          Cardinality({x \in receipts : x.request.workspace = w}) = (IF w = current THEN 0 ELSE 1)
    /\ \A p \in 1 .. Len(plans) :
          Cardinality({x \in receipts : x.request.plan = p}) = (IF plans[p].consumed THEN 1 ELSE 0)
    /\ \A x \in receipts :
          LET plan == plans[x.request.plan]
          IN  /\ plan.workspace = x.request.workspace
              /\ plan.count = x.count /\ x.at <= plan.expires

\* A request that was carried out is answered with its receipt for ever: after
\* the plan is spent or expired, and after the root was registered again.  And
\* a tool that resolved the workspace before it was deleted leaves no row in
\* it, nor in the one that was registered for the root afterwards.
RemovedForEver ==
    /\ \A x \in receipts : Told(x.request) = "deregistered"
    /\ \A w \in Ids : held[w] > 0 => w = current

\* Between two requests, a workspace that is still registered has not lost its
\* watcher to a deregistration that did not happen.
WatchersReturn ==
    mcp.step = "up" =>
        \A w \in Ids : /\ w \in mcp.handles <=> mcp.state[w] = "ready"
                       /\ mcp.state[w] = "stopped" => w # current
=============================================================================
