---------------------------- MODULE McpToolGate ----------------------------
(***************************************************************************)
(* What stands between the agent and a tool of an external MCP server: the *)
(* reviewed exposure policy of the tool (platform/mcp/tool-policy.ts), the *)
(* one-time confirmation of a call (platform/mcp/tool-confirmation.ts) and *)
(* the handler that consults both (tools/mcp-tools.ts).                    *)
(*                                                                         *)
(* One tool of one server in one workspace, one user.  A schema stands for *)
(* the fingerprint of the tool's name, description, schemas and annotations*)
(* as tools/list returns them.  Every SQL statement and every tools/list is*)
(* one step.  The MCP server is external: it may change, hide and restore  *)
(* its tool at any time.                                                   *)
(***************************************************************************)
EXTENDS Naturals, FiniteSets

CONSTANTS
    Schemas,       \* fingerprints the tool may have
    Destructive,   \* those whose annotations say destructiveHint
    Threads,       \* conversations of the user
    Args,          \* canonical arguments of a call
    Runs,          \* runs at work
    Confirmations, \* ids of mcp_tool_confirmations rows; bounds their number
    Listings,      \* concurrent GET .../tools requests
    Reviews,       \* concurrent PATCH .../tools/:toolName requests
    Deciders,      \* concurrent POST .../decision requests
    None,
    MaxMoves       \* bound on changes of the tool and its connection, and
                   \* on reviews and imports; listings are not bounded

ASSUME DestructiveAssumption == Destructive \subseteq Schemas
ASSUME NoneAssumption ==
    None \notin Schemas \cup Threads \cup Args \cup Confirmations
ASSUME RunsAssumption == IsFiniteSet(Runs)
ASSUME MovesAssumption == MaxMoves \in Nat

VARIABLES
    moves,    \* changes, reviews and imports so far
    live,     \* the fingerprint tools/list returns, None: not listed
    server,   \* the mcp_servers row
    policy,   \* the mcp_tool_policies row of the tool, hash None: no row
    conf,     \* the mcp_tool_confirmations rows
    lapsed,   \* confirmations whose expires_at has passed
    listing,  \* progress of each listing
    review,   \* progress of each review
    decider,  \* progress of each decision
    run,      \* each run's copy of the catalog and the call it is making
    choice,   \* history: the last review of each schema that was saved
    granted,  \* history: confirmations whose approval was saved
    used      \* history: how many calls each confirmation was spent on

store == <<moves, live, server, policy>>
requests == <<listing, review, decider>>
history == <<choice, granted, used>>
vars == <<store, conf, lapsed, requests, run, history>>

Mode == {"automatic", "confirm_each_time"}
Policy == [hash : Schemas \cup {None}, enabled : BOOLEAN, mode : Mode]
NoPolicy == [hash |-> None, enabled |-> FALSE, mode |-> "confirm_each_time"]
Unreviewed(s) == [hash |-> s, enabled |-> FALSE, mode |-> "confirm_each_time"]

Status == {"absent", "pending", "approved", "denied", "consumed", "expired"}
Conf == [status : Status, thread : Threads \cup {None}, args : Args \cup {None},
         hash : Schemas \cup {None}]
NoConf == [status |-> "absent", thread |-> None, args |-> None, hash |-> None]

Listing == [pc : {"idle", "read", "write"}, seen : Schemas \cup {None},
            had : Schemas \cup {None}]
Review == [pc : {"idle", "select", "update"}, hash : Schemas \cup {None},
           enabled : BOOLEAN, mode : Mode]
Decider == [pc : {"idle", "write"}, conf : Confirmations \cup {None},
            status : {"approved", "denied"}]
Run == [pc : {"new", "list", "policies", "ready", "schema", "policy", "expire",
              "match", "consume", "insert", "call"},
        thread : Threads \cup {None}, args : Args \cup {None},
        hash : Schemas \cup {None}, mode : Mode, now : SUBSET Confirmations,
        using : Confirmations \cup {None}, else : {"stop", "insert"}]
Choice == [enabled : BOOLEAN, mode : Mode]

IdleListing == [pc |-> "idle", seen |-> None, had |-> None]
IdleReview == [pc |-> "idle", hash |-> None, enabled |-> FALSE,
               mode |-> "confirm_each_time"]
IdleDecider == [pc |-> "idle", conf |-> None, status |-> "denied"]
NewRun == [pc |-> "new", thread |-> None, args |-> None, hash |-> None,
           mode |-> "confirm_each_time", now |-> {}, using |-> None,
           else |-> "stop"]

TypeOK ==
    /\ moves \in 0..MaxMoves
    /\ live \in Schemas \cup {None}
    /\ server \in {"enabled", "disabled", "deleted"}
    /\ policy \in Policy
    /\ conf \in [Confirmations -> Conf]
    /\ lapsed \subseteq Confirmations
    /\ listing \in [Listings -> Listing]
    /\ review \in [Reviews -> Review]
    /\ decider \in [Deciders -> Decider]
    /\ run \in [Runs -> Run]
    /\ choice \in [Schemas -> Choice]
    /\ granted \subseteq Confirmations
    /\ used \in [Confirmations -> Nat]

\* An enabled connection whose tool nobody has looked at yet.
Init ==
    /\ moves = 0
    /\ live \in Schemas \cup {None}
    /\ server = "enabled"
    /\ policy = NoPolicy
    /\ conf = [c \in Confirmations |-> NoConf]
    /\ lapsed = {}
    /\ listing = [l \in Listings |-> IdleListing]
    /\ review = [v \in Reviews |-> IdleReview]
    /\ decider = [d \in Deciders |-> IdleDecider]
    /\ run = [r \in Runs |-> NewRun]
    /\ choice = [s \in Schemas |-> [enabled |-> FALSE,
                                    mode |-> "confirm_each_time"]]
    /\ granted = {}
    /\ used = [c \in Confirmations |-> 0]

Move == moves < MaxMoves /\ moves' = moves + 1

(***************************************************************************)
(* The server, the connection and the clock.                               *)
(***************************************************************************)

\* External: the server changes, hides or restores its tool.
ChangeTool ==
    /\ Move
    /\ live' \in (Schemas \cup {None}) \ {live}
    /\ UNCHANGED <<server, policy, conf, lapsed, requests, run, history>>

\* updateMcpServer: the connection is switched on or off.
SwitchServer ==
    /\ Move
    /\ server # "deleted"
    /\ server' \in {"enabled", "disabled"} \ {server}
    /\ UNCHANGED <<live, policy, conf, lapsed, requests, run, history>>

\* deleteMcpServer; the foreign key of mcp_tool_policies cascades.
DeleteServer ==
    /\ Move
    /\ server # "deleted"
    /\ server' = "deleted"
    /\ policy' = NoPolicy
    /\ UNCHANGED <<live, conf, lapsed, requests, run, history>>

\* CONFIRMATION_TTL_MS after its insertion.
Lapse(c) ==
    /\ conf[c].status # "absent"
    /\ c \notin lapsed
    /\ lapsed' = lapsed \cup {c}
    /\ UNCHANGED <<store, conf, requests, run, history>>

(***************************************************************************)
(* Exposure policy: listing, review, import.                               *)
(***************************************************************************)

ListingFrame ==
    UNCHANGED <<live, server, conf, lapsed, review, decider, run, history>>

\* listCurrentServerTools and snapshotMcpTools.  When the tool is not listed
\* the request has nothing to say about it.
ListTools(l) ==
    /\ listing[l].pc = "idle"
    /\ server # "deleted"
    /\ live # None
    /\ listing' = [listing EXCEPT ![l].pc = "read", ![l].seen = live]
    /\ UNCHANGED <<moves, policy>>
    /\ ListingFrame

\* assertExternalServerInWorkspace and listMcpToolPolicies.
ReadPolicies(l) ==
    /\ listing[l].pc = "read"
    /\ listing' = [listing EXCEPT ![l] =
                     IF server = "deleted" THEN IdleListing
                     ELSE [@ EXCEPT !.pc = "write", !.had = policy.hash]]
    /\ UNCHANGED <<moves, policy>>
    /\ ListingFrame

\* The row after the loop body of reconcileExternalMcpToolPolicies for a
\* snapshot `seen` when the request has read `had`: INSERT ... ON CONFLICT DO
\* NOTHING, last_seen_at only, or an UPDATE by the key alone.
Reconciled(seen, had) ==
    IF had = None
    THEN IF policy.hash = None /\ server # "deleted"
         THEN Unreviewed(seen) ELSE policy
    ELSE IF had # seen /\ policy.hash # None THEN Unreviewed(seen)
    ELSE policy

Reconcile(l) ==
    /\ listing[l].pc = "write"
    /\ policy' = Reconciled(listing[l].seen, listing[l].had)
    /\ listing' = [listing EXCEPT ![l] = IdleListing]
    /\ UNCHANGED moves
    /\ ListingFrame

\* stageImportedToolPolicies: the file names the snapshot and the mode.
ImportPolicy(s, mode) ==
    /\ Move
    /\ server # "deleted"
    /\ policy.hash = None
    /\ policy' = [hash |-> s, enabled |-> FALSE, mode |-> mode]
    /\ UNCHANGED <<live, server, conf, lapsed, requests, run, history>>

ReviewFrame == UNCHANGED <<live, server, conf, lapsed, listing, decider, run,
                           granted, used>>

\* PATCH: tools/list must still show the snapshot the reviewer saw.
StartReview(v, s, enabled, mode) ==
    /\ Move
    /\ review[v].pc = "idle"
    /\ server # "deleted"
    /\ live = s
    /\ review' = [review EXCEPT ![v] =
                    [pc |-> "select", hash |-> s, enabled |-> enabled,
                     mode |-> mode]]
    /\ UNCHANGED <<policy, choice>>
    /\ ReviewFrame

\* updateExternalMcpToolPolicy: the exact snapshot must be the stored one.
SelectSnapshot(v) ==
    /\ review[v].pc = "select"
    /\ review' = [review EXCEPT ![v] =
                    IF policy.hash = review[v].hash
                    THEN [@ EXCEPT !.pc = "update"] ELSE IdleReview]
    /\ UNCHANGED <<moves, policy, choice>>
    /\ ReviewFrame

\* Mutant: the UPDATE of a review goes by the key of the row alone.
RowExists(v) == policy.hash # None

\* UPDATE ... WHERE schema_hash = the reviewed one.
ReviewApplies(v) == policy.hash = review[v].hash

UpdatePolicy(v) ==
    /\ review[v].pc = "update"
    /\ IF ReviewApplies(v)
       THEN /\ policy' = [policy EXCEPT !.enabled = review[v].enabled,
                                        !.mode = review[v].mode]
            /\ choice' = [choice EXCEPT ![review[v].hash] =
                            [enabled |-> review[v].enabled,
                             mode |-> review[v].mode]]
       ELSE UNCHANGED <<policy, choice>>
    /\ review' = [review EXCEPT ![v] = IdleReview]
    /\ UNCHANGED moves
    /\ ReviewFrame

(***************************************************************************)
(* The user's decisions.                                                   *)
(***************************************************************************)

\* expireOldConfirmations, given what has lapsed.
Expired(now) ==
    [c \in Confirmations |->
        IF c \in now /\ conf[c].status \in {"pending", "approved"}
        THEN [conf[c] EXCEPT !.status = "expired"] ELSE conf[c]]

\* listPendingMcpToolConfirmations expires before it lists.
ListPending ==
    /\ conf' = Expired(lapsed)
    /\ UNCHANGED <<store, lapsed, requests, run, history>>

\* decideMcpToolConfirmation reads a row that is pending and still valid ...
ReadDecision(d, c, status) ==
    /\ decider[d].pc = "idle"
    /\ conf[c].status = "pending"
    /\ c \notin lapsed
    /\ decider' = [decider EXCEPT ![d] =
                     [pc |-> "write", conf |-> c, status |-> status]]
    /\ UNCHANGED <<store, conf, lapsed, listing, review, run, history>>

\* Mutant: a decision may be changed as long as no call has used it.
NotUsedYet(d) ==
    conf[decider[d].conf].status \in {"pending", "approved", "denied"}

\* ... and writes the decision if the row is still pending.
StillPending(d) == conf[decider[d].conf].status = "pending"

WriteDecision(d) ==
    /\ decider[d].pc = "write"
    /\ IF StillPending(d)
       THEN /\ conf' = [conf EXCEPT ![decider[d].conf].status =
                                        decider[d].status]
            /\ granted' = IF decider[d].status = "approved"
                          THEN granted \cup {decider[d].conf} ELSE granted
       ELSE UNCHANGED <<conf, granted>>
    /\ decider' = [decider EXCEPT ![d] = IdleDecider]
    /\ UNCHANGED <<store, lapsed, listing, review, run,
                   choice, used>>

(***************************************************************************)
(* A run: loadMcpTools once, then calls of the handler.                    *)
(***************************************************************************)

RunFrame == UNCHANGED <<store, lapsed, requests, choice, granted>>
Quiet == RunFrame /\ UNCHANGED <<conf, used>>

\* loadMcpTools selects the enabled servers ...
LoadServer(r, t) ==
    /\ run[r].pc = "new"
    /\ server = "enabled"
    /\ run' = [run EXCEPT ![r].pc = "list", ![r].thread = t]
    /\ Quiet

\* ... asks each for its tools ...
LoadCatalog(r) ==
    /\ run[r].pc = "list"
    /\ run' = [run EXCEPT ![r] =
                 IF live = None THEN NewRun
                 ELSE [@ EXCEPT !.pc = "policies", !.hash = live]]
    /\ Quiet

\* isMcpToolSnapshotEnabled
SnapshotEnabled(s) == policy.hash = s /\ policy.enabled

\* ... and exposes the tool if its current snapshot is enabled; the snapshot
\* and its invocation policy are kept for the whole run.
LoadPolicies(r) ==
    /\ run[r].pc = "policies"
    /\ run' = [run EXCEPT ![r] =
                 IF SnapshotEnabled(run[r].hash)
                 THEN [@ EXCEPT !.pc = "ready", !.mode = policy.mode]
                 ELSE NewRun]
    /\ Quiet

\* The model calls the tool; the handler connects to the server.
StartCall(r, a) ==
    /\ run[r].pc = "ready"
    /\ run' = [run EXCEPT ![r].pc = "schema", ![r].args = a]
    /\ Quiet

\* The handler throws and the run goes on.
Refused(rec) == [rec EXCEPT !.pc = "ready", !.args = None, !.now = {},
                            !.using = None, !.else = "stop"]

\* assertExternalMcpToolExecutionStillApproved: first the live snapshot ...
CheckSchema(r) ==
    /\ run[r].pc = "schema"
    /\ run' = [run EXCEPT ![r] = IF live = run[r].hash
                                 THEN [@ EXCEPT !.pc = "policy"] ELSE Refused(@)]
    /\ Quiet

\* requiresMcpToolInvocationConfirmation of an external tool, with the mode
\* that was current when the run loaded its tools.
NeedsConfirmation(r) ==
    run[r].hash \in Destructive \/ run[r].mode = "confirm_each_time"

\* ... then the connection and the stored policy.
CheckPolicy(r) ==
    /\ run[r].pc = "policy"
    /\ run' = [run EXCEPT ![r] =
                 IF server = "enabled" /\ SnapshotEnabled(run[r].hash)
                 THEN [@ EXCEPT !.pc = IF NeedsConfirmation(r)
                                       THEN "expire" ELSE "call"]
                 ELSE Refused(@)]
    /\ Quiet

\* requireMcpToolInvocationConfirmation takes the time, expires old rows ...
ExpireOld(r) ==
    /\ run[r].pc = "expire"
    /\ conf' = Expired(lapsed)
    /\ run' = [run EXCEPT ![r].pc = "match", ![r].now = lapsed]
    /\ RunFrame
    /\ UNCHANGED used

\* The open decisions on exactly this call in this conversation.
Matches(r) ==
    {c \in Confirmations :
        /\ conf[c].thread = run[r].thread
        /\ conf[c].args = run[r].args
        /\ conf[c].hash = run[r].hash
        /\ c \notin run[r].now
        /\ conf[c].status \in {"approved", "pending", "denied"}}

WithStatus(cs, statuses) == {c \in cs : conf[c].status \in statuses}

\* ... selects the matching rows: an approved one is tried first (the code
\* takes the newest; creation times are not modelled), a denied or pending
\* one ends the call, and with none a new row is inserted.
Match(r) ==
    LET approved == WithStatus(Matches(r), {"approved"})
        decided == WithStatus(Matches(r), {"denied", "pending"})
        otherwise == IF decided = {} THEN "insert" ELSE "stop"
    IN /\ run[r].pc = "match"
       /\ \/ \E c \in approved :
                run' = [run EXCEPT ![r] = [@ EXCEPT !.pc = "consume",
                                            !.using = c, !.else = otherwise]]
          \/ /\ approved = {}
             /\ run' = [run EXCEPT ![r] =
                          IF decided = {} THEN [@ EXCEPT !.pc = "insert"]
                          ELSE Refused(@)]
       /\ Quiet

\* Mutant: the UPDATE that consumes also accepts a row consumed meanwhile.
WasApproved(r) == conf[run[r].using].status \in {"approved", "consumed"}

\* UPDATE ... SET status = 'consumed' WHERE id = ? AND status = 'approved'
StillApproved(r) == conf[run[r].using].status = "approved"

\* Mutant: the live snapshot is compared after the approval is consumed.
ConsumeThenCheck(r) ==
    /\ run[r].pc = "consume"
    /\ StillApproved(r)
    /\ conf' = [conf EXCEPT ![run[r].using].status = "consumed"]
    /\ run' = [run EXCEPT ![r] = IF live = run[r].hash
                                 THEN [@ EXCEPT !.pc = "call"] ELSE Refused(@)]
    /\ RunFrame
    /\ UNCHANGED used

Consume(r) ==
    /\ run[r].pc = "consume"
    /\ IF StillApproved(r)
       THEN /\ conf' = [conf EXCEPT ![run[r].using].status = "consumed"]
            /\ run' = [run EXCEPT ![r].pc = "call"]
       ELSE /\ run' = [run EXCEPT ![r] =
                         IF run[r].else = "insert"
                         THEN [@ EXCEPT !.pc = "insert", !.using = None]
                         ELSE Refused(@)]
            /\ UNCHANGED conf
    /\ RunFrame
    /\ UNCHANGED used

\* INSERT of a new pending row; the call is refused until it is decided.
InsertPending(r, c) ==
    /\ run[r].pc = "insert"
    /\ conf[c].status = "absent"
    /\ conf' = [conf EXCEPT ![c] =
                  [status |-> "pending", thread |-> run[r].thread,
                   args |-> run[r].args, hash |-> run[r].hash]]
    /\ run' = [run EXCEPT ![r] = Refused(@)]
    /\ RunFrame
    /\ UNCHANGED used

\* The call of run r is over: a confirmation it holds has been spent.
Spend(r) ==
    used' = IF run[r].pc = "call" /\ run[r].using # None
            THEN [used EXCEPT ![run[r].using] = @ + 1] ELSE used

\* callTool
CallTool(r) ==
    /\ run[r].pc = "call"
    /\ Spend(r)
    /\ run' = [run EXCEPT ![r] = Refused(@)]
    /\ RunFrame
    /\ UNCHANGED conf

\* The run ends, its worker dies or the call is aborted, at any point; a
\* fresh run may continue the conversation.  A call cut off after its
\* confirmation was consumed may have reached the server: it counts.
EndOfRun(r) ==
    /\ run[r].pc # "new"
    /\ Spend(r)
    /\ run' = [run EXCEPT ![r] = NewRun]
    /\ RunFrame
    /\ UNCHANGED conf

(***************************************************************************)
(* The specification.                                                      *)
(***************************************************************************)

PolicyNext ==
    \/ \E l \in Listings : ListTools(l) \/ ReadPolicies(l) \/ Reconcile(l)
    \/ \E s \in Schemas, mode \in Mode : ImportPolicy(s, mode)
    \/ \E v \in Reviews, s \in Schemas, enabled \in BOOLEAN, mode \in Mode :
          StartReview(v, s, enabled, mode)
    \/ \E v \in Reviews : SelectSnapshot(v) \/ UpdatePolicy(v)

UserNext ==
    \/ ListPending
    \/ \E d \in Deciders, c \in Confirmations, s \in {"approved", "denied"} :
          ReadDecision(d, c, s)
    \/ \E d \in Deciders : WriteDecision(d)

RunNext(r) ==
    \/ \E t \in Threads : LoadServer(r, t)
    \/ LoadCatalog(r) \/ LoadPolicies(r)
    \/ \E a \in Args : StartCall(r, a)
    \/ CheckSchema(r) \/ CheckPolicy(r) \/ ExpireOld(r) \/ Match(r)
    \/ Consume(r)
    \/ \E c \in Confirmations : InsertPending(r, c)
    \/ CallTool(r) \/ EndOfRun(r)

Next ==
    \/ ChangeTool \/ SwitchServer \/ DeleteServer
    \/ \E c \in Confirmations : Lapse(c)
    \/ PolicyNext \/ UserNext
    \/ \E r \in Runs : RunNext(r)

Spec == Init /\ [][Next]_vars

(***************************************************************************)
(* Properties.                                                             *)
(***************************************************************************)

\* Runs that hold confirmation c and are about to call.
Calling(c) == {r \in Runs : run[r].pc = "call" /\ run[r].using = c}

\* A confirmation is worth one call of exactly the tool, arguments and
\* conversation the user approved, however many runs retry the call at once
\* (requireMcpToolInvocationConfirmation consumes it before the call), and a
\* destructive tool is never called without one.
OneCallPerApproval ==
    /\ \A r \in Calling(None) : run[r].hash \notin Destructive
    /\ \A c \in Confirmations :
        /\ used[c] + Cardinality(Calling(c)) <= (IF c \in granted THEN 1 ELSE 0)
        /\ \A r \in Calling(c) :
              /\ conf[c].thread = run[r].thread
              /\ conf[c].args = run[r].args
              /\ conf[c].hash = run[r].hash

\* A confirmation is consumed only by a call that passed every other check
\* and is then attempted: "A stale catalog must not burn the user's decision
\* without attempting the reviewed operation".
ApprovalIsSpentOnACall ==
    \A c \in Confirmations :
        conf[c].status = "consumed" => used[c] = 1 \/ Calling(c) # {}

\* A stored policy that exposes a snapshot is the last review of that very
\* snapshot, whatever listings, reviews and imports overlapped: a row that
\* moves to another fingerprint is never enabled by a review of the old one.
EnabledIsReviewed ==
    policy.enabled =>
        /\ policy.hash # None
        /\ choice[policy.hash] = [enabled |-> TRUE, mode |-> policy.mode]

\* A decision on a confirmation is never replaced by another decision, and
\* what was consumed or has expired stays so.
DecisionIsFinal ==
    [][\A c \in Confirmations :
          conf'[c].status # conf[c].status =>
            <<conf[c].status, conf'[c].status>> \in
               {<<"absent", "pending">>, <<"pending", "approved">>,
                <<"pending", "denied">>, <<"pending", "expired">>,
                <<"approved", "consumed">>, <<"approved", "expired">>}]_vars

\* docs/architecture/runtime-service.md:89 says that the current schema and
\* policy are verified again right before execution: the check that lets a call
\* through unasked finds a policy that is automatic at that time.
CurrentPolicyDecides ==
    [][\A r \in Runs : run[r].pc = "policy" /\ run'[r].pc = "call" =>
          policy.mode = "automatic"]_vars
=============================================================================
