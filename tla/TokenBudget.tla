---------------------------- MODULE TokenBudget ----------------------------
(***************************************************************************)
(* The hourly token budget of one tenant: run creation and the             *)
(* OpenAI-compatible endpoint call Check, the agent loop calls Record      *)
(* after every model call. Windows are an hour from their first use; the   *)
(* usage store counts by clock hour.                                       *)
(***************************************************************************)
EXTENDS Integers

CONSTANTS
    Requests,  \* requests that are checked and then record what they used
    Limit,     \* AGENTOS_QUOTA_HOURLY_TOKENS, positive
    Hour,      \* ticks in an hour
    Amounts,   \* token counts a model call reports
    MaxClock,  \* bound: ticks explored
    MaxUsage   \* bound: tokens counted in a window or an hour

ASSUME BudgetConstants ==
    /\ Limit \in Nat \ {0} /\ Hour \in Nat \ {0} /\ Amounts \subseteq Nat
    /\ MaxClock \in Nat /\ MaxUsage \in Nat

VARIABLES
    clock,
    hasStore,  \* was WithStore called?
    window,    \* TokenBudget.windows[tenant]
    usage,     \* usage[h]: what the store holds for clock hour h
    req,       \* req[r]: progress of a request
    lossy      \* history: usage may have been missed (no store, or one that failed)

budgetVars == <<clock, hasStore, window, usage, req, lossy>>

HourOf(time) == time \div Hour

NoWindow == [open |-> FALSE, tokens |-> 0, end |-> 0]

BudgetInit ==
    /\ clock = 0 /\ window = NoWindow
    /\ hasStore \in BOOLEAN /\ lossy = ~hasStore
    /\ usage = [h \in 0..HourOf(MaxClock) |-> 0]
    /\ req = [r \in Requests |-> "idle"]

-----------------------------------------------------------------------------
Live == window.open /\ clock <= window.end

\* getOrCreateWindow when the window must be replaced: what the store has for this
\* clock hour, nothing without a store or when the query fails.
FreshWindowAnyway(loaded) == [open |-> TRUE, tokens |-> 0, end |-> clock + Hour]

FreshWindow(loaded) ==
    [open |-> TRUE, end |-> clock + Hour,
     tokens |-> IF hasStore /\ loaded THEN usage[HourOf(clock)] ELSE 0]

Window(loaded) == IF Live THEN window ELSE FreshWindow(loaded)

Missed(ok) == lossy' = (lossy \/ ~ok)

WithinBudget(tokens) == tokens < Limit

CheckBudget(r) ==
    /\ req[r] = "idle"
    /\ \E loaded \in BOOLEAN :
          /\ window' = Window(loaded)
          /\ Missed(loaded \/ Live)
    /\ req' = [req EXCEPT ![r] = IF WithinBudget(window'.tokens) THEN "admitted" ELSE "refused"]
    /\ UNCHANGED <<clock, hasStore, usage>>

\* After a model call of an admitted request, which may make further ones.
RecordUsage(r, n) ==
    /\ req[r] = "admitted"
    /\ \E loaded, stored \in BOOLEAN :
          /\ Window(loaded).tokens + n <= MaxUsage /\ usage[HourOf(clock)] + n <= MaxUsage
          /\ window' = [Window(loaded) EXCEPT !.tokens = @ + n]
          /\ usage' = IF hasStore /\ stored THEN [usage EXCEPT ![HourOf(clock)] = @ + n] ELSE usage
          /\ Missed((loaded \/ Live) /\ stored)
    /\ \E pc \in {"admitted", "done"} : req' = [req EXCEPT ![r] = pc]
    /\ UNCHANGED <<clock, hasStore>>

RestartBudget ==
    /\ window.open
    /\ window' = NoWindow
    /\ req' = [r \in Requests |-> IF req[r] = "admitted" THEN "done" ELSE req[r]]
    /\ UNCHANGED <<clock, hasStore, usage, lossy>>

BudgetTick ==
    /\ clock < MaxClock
    /\ clock' = clock + 1
    /\ UNCHANGED <<hasStore, window, usage, req, lossy>>

BudgetNext ==
    \/ BudgetTick \/ RestartBudget
    \/ \E r \in Requests : CheckBudget(r) \/ \E n \in Amounts : RecordUsage(r, n)

BudgetSpec == BudgetInit /\ [][BudgetNext]_budgetVars

-----------------------------------------------------------------------------
(* Properties *)

\* Type invariant of the budget's windows, the usage table and the requests.
BudgetTypeOK ==
    /\ clock \in 0..MaxClock /\ hasStore \in BOOLEAN /\ lossy \in BOOLEAN
    /\ window \in [open : BOOLEAN, tokens : Nat, end : Nat]
    /\ usage \in [0..HourOf(MaxClock) -> 0..MaxUsage]
    /\ req \in [Requests -> {"idle", "admitted", "refused", "done"}]

\* With a store that works, the window never counts less than the tenant used in
\* the current clock hour, although windows do not start on the hour and a restart
\* forgets them.
WindowCoversHour == ~lossy /\ Live => window.tokens >= usage[HourOf(clock)]

\* Check admits no request of a tenant that has used up its budget for the hour.
AdmittedWithinBudget ==
    \A r \in Requests : req[r] = "idle" /\ req'[r] = "admitted" /\ ~lossy'
        => usage[HourOf(clock)] < Limit

\* The budget of a tenant is kept hour by hour, over restarts and window changes.
BudgetIsKept == [][WindowCoversHour' /\ AdmittedWithinBudget]_budgetVars
=============================================================================
