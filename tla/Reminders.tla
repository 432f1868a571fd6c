------------------------------ MODULE Reminders ------------------------------
(***************************************************************************)
(* The harness reminders of src/src/reminder.c that ride a user message of *)
(* their own, and how src/src/agent.c evaluates them: the TURN rules after *)
(* the user's message (nm_agent_start), the ROUND rules before each        *)
(* request is built (begin_round).                                         *)
(*                                                                         *)
(* A rule has a signature; it fires when its signature is there and is not *)
(* the latched one.  A signature is a sequence here, empty when there is   *)
(* nothing to say (0 in the code); the hash of the job rule is taken to be *)
(* injective.  The per-result rules keep no state and are left out.  What  *)
(* else a turn does is module Agent's.                                     *)
(***************************************************************************)
EXTENDS Integers, Sequences, FiniteSets

CONSTANTS
    Cap,        \* the `rounds` key
    Slots,      \* NM_PROC_MAX_JOBS: slots of the process registry
    Listed,     \* NM_REMINDER_MAX_JOBS: jobs the facts can hold
    MaxJobs,    \* bound: jobs started in a behaviour
    MaxTurns,   \* bound: turns
    MaxCuts     \* bound: rounds cut by the output limit

ASSUME RemindersAssumption ==
    /\ Cap \in Nat \ {0} /\ Slots \in Nat \ {0} /\ Listed \in Nat \ {0}
    /\ MaxJobs \in Nat /\ MaxTurns \in Nat /\ MaxCuts \in Nat

VARIABLES
    enabled,    \* the `reminders` key
    stage,      \* "rest", "open" (a round streams) or "tools"
    turn, round,\* the agent's counters
    tier,       \* nm_agent_context_tier: 0, 1 (warn), 2 (hot)
    cuts,       \* output_cuts
    slot,       \* the process registry: a job id per slot, 0 when free
    alive,       \* jobs whose child runs
    unread,     \* jobs holding output the model has not read
    jobs,       \* jobs started so far (the last id)
    latch,      \* the latched signature of each rule
    \* what the transcript holds, for the properties
    said,       \* the rules fired by the last step
    told,       \* the signature each rule last fired with
    gone,       \* rules evaluated with nothing to say since they last fired
    nudges      \* firings of round-budget in this turn

procs  == <<slot, alive, unread, jobs>>
memory == <<latch, told, gone>>
reminders   == <<enabled, stage, turn, round, tier, cuts, procs, memory, said,
           nudges>>

TurnRules  == {"context-pressure", "background-jobs"}
RoundRules == {"round-budget", "output-cut"}
Rules      == TurnRules \cup RoundRules
Nothing    == <<>>

-----------------------------------------------------------------------------
(* Signatures, at counters t (turn) and r (rounds opened in it).            *)

(* The first Listed live jobs, in registry order.                           *)
ListedJobs == {slot[s] : s \in
                {q \in 1 .. Slots :
                   /\ slot[q] \in alive
                   /\ Cardinality({p \in 1 .. q : slot[p] \in alive}) <= Listed}}

ContextSig == IF tier = 0 THEN Nothing ELSE <<tier>>

JobsSig == IF ListedJobs = {} THEN Nothing
           ELSE <<ListedJobs, ListedJobs \cap unread # {}>>

(* Mutant: the nudge comes for a round past the last one.                   *)
BudgetSigLate(t, r) == IF r < Cap THEN Nothing ELSE <<t>>

BudgetSig(t, r) == IF r + 1 < Cap THEN Nothing ELSE <<t>>

(* Mutant: a further cut is not a new event.                                *)
CutSigOnce == IF cuts = 0 THEN Nothing ELSE <<1>>

CutSig == IF cuts = 0 THEN Nothing ELSE <<cuts>>

Sig(rule, t, r) == CASE rule = "context-pressure" -> ContextSig
                     [] rule = "background-jobs"  -> JobsSig
                     [] rule = "round-budget"     -> BudgetSig(t, r)
                     [] rule = "output-cut"       -> CutSig

-----------------------------------------------------------------------------
(* nm_reminder_eval, for the rules of a point; with the key off nothing is  *)
(* evaluated.                                                               *)

(* Mutant: what was said before is said again.                              *)
FiresAlways(rule, t, r) == Sig(rule, t, r) # Nothing

(* A state that is there and is not the latched one.                        *)
Fires(rule, t, r) == Sig(rule, t, r) \notin {Nothing, latch[rule]}

(* Mutant: the latch outlives the state it was set for.                     *)
RelatchSticky(rule, t, r) ==
    IF Sig(rule, t, r) = Nothing THEN latch[rule] ELSE Sig(rule, t, r)

(* The latch follows the state, and clears when it goes away.               *)
Relatch(rule, t, r) == Sig(rule, t, r)

Eval(point, t, r) ==
    LET on     == IF enabled THEN point ELSE {}
        firing == {rule \in on : Fires(rule, t, r)}
        silent == {rule \in on : Sig(rule, t, r) = Nothing}
    IN /\ latch' = [rule \in Rules |-> IF rule \in on THEN Relatch(rule, t, r)
                                                      ELSE latch[rule]]
       /\ said'  = firing
       /\ told'  = [rule \in Rules |-> IF rule \in firing
                                       THEN Sig(rule, t, r) ELSE told[rule]]
       /\ gone'  = (gone \cup silent) \ firing

-----------------------------------------------------------------------------
RemindersInit ==
    /\ enabled \in BOOLEAN /\ stage = "rest"
    /\ turn = 0 /\ round = 0 /\ tier = 0 /\ cuts = 0
    /\ slot = [s \in 1 .. Slots |-> 0]
    /\ alive = {} /\ unread = {} /\ jobs = 0
    /\ latch = [rule \in Rules |-> Nothing]
    /\ told = [rule \in Rules |-> Nothing] /\ gone = Rules
    /\ said = {} /\ nudges = 0

(* chat_begin accepts the request, or the turn ends in an error.            *)
ChatBegin(r) == \/ stage' = "open" /\ round' = r + 1
                \/ stage' = "rest" /\ round' = r

(* nm_agent_start: the TURN rules, then begin_round and its ROUND rules;    *)
(* while the first turn waits for the git stage between the two, none of    *)
(* the facts they read moves.                                               *)
OpenTurn ==
    /\ stage = "rest" /\ turn < MaxTurns
    /\ turn' = turn + 1
    /\ Eval(Rules, turn + 1, 0)
    /\ nudges' = IF "round-budget" \in said' THEN 1 ELSE 0
    /\ ChatBegin(0)
    /\ UNCHANGED <<enabled, tier, cuts, procs>>

(* The turn is cancelled during that wait: no round was composed.           *)
StartCancelled ==
    /\ stage = "rest" /\ turn = 0 /\ turn < MaxTurns
    /\ turn' = turn + 1 /\ round' = 0
    /\ Eval(TurnRules, turn + 1, 0)
    /\ UNCHANGED <<enabled, stage, tier, cuts, procs, nudges>>

(* Mutant: the cap is tested one round late.                                *)
OpenRoundPastCap ==
    /\ stage = "tools" /\ round <= Cap
    /\ Eval(RoundRules, turn, round)
    /\ nudges' = IF "round-budget" \in said' THEN nudges + 1 ELSE nudges
    /\ ChatBegin(round)
    /\ UNCHANGED <<enabled, turn, tier, cuts, procs>>

(* begin_round of a later round of the turn.                                *)
OpenRound ==
    /\ stage = "tools" /\ round < Cap
    /\ Eval(RoundRules, turn, round)
    /\ nudges' = IF "round-budget" \in said' THEN nudges + 1 ELSE nudges
    /\ ChatBegin(round)
    /\ UNCHANGED <<enabled, turn, tier, cuts, procs>>

(* finish_round: the answer or the tool calls of a round, perhaps cut by    *)
(* the output limit; its usage report may move the gauge.                   *)
FinishRound ==
    /\ stage = "open"
    /\ stage' \in {"rest", "tools"}
    /\ cuts' \in {cuts, cuts + 1} /\ cuts' <= MaxCuts
    /\ tier' \in 0 .. 2
    /\ said' = {}
    /\ UNCHANGED <<enabled, turn, round, procs, memory, nudges>>

(* A failed, void or timed-out round; the cap; a cancelled turn.            *)
CloseTurn ==
    /\ stage # "rest"
    /\ stage' = "rest"
    /\ \/ stage = "open" /\ round' = round
       \/ stage = "tools" /\ round >= Cap /\ round' = round
       \/ round' = 0
    /\ said' = {}
    /\ UNCHANGED <<enabled, turn, tier, cuts, procs, memory, nudges>>

(* At rest the user may change the key, or the model and with it the        *)
(* window the gauge is measured against.                                    *)
Configure ==
    /\ stage = "rest"
    /\ enabled' \in BOOLEAN /\ tier' \in 0 .. 2
    /\ said' = {}
    /\ UNCHANGED <<stage, turn, round, cuts, procs, memory, nudges>>

(* A tool call leaves a job running: it takes the first free slot.          *)
StartJob ==
    /\ stage = "tools" /\ jobs < MaxJobs
    /\ \E s \in 1 .. Slots :
         /\ slot[s] = 0 /\ \A q \in 1 .. (s - 1) : slot[q] # 0
         /\ slot' = [slot EXCEPT ![s] = jobs + 1]
    /\ jobs' = jobs + 1
    /\ alive' = alive \cup {jobs + 1}
    /\ said' = {}
    /\ UNCHANGED <<enabled, stage, turn, round, tier, cuts, unread, memory,
                   nudges>>

(* A job writes, is polled, exits, or is closed.                            *)
JobMoves ==
    /\ \/ \E j \in alive : unread' = unread \cup {j} /\ UNCHANGED <<slot, alive>>
       \/ \E j \in unread : unread' = unread \ {j} /\ UNCHANGED <<slot, alive>>
       \/ \E j \in alive : alive' = alive \ {j} /\ UNCHANGED <<slot, unread>>
       \/ \E s \in 1 .. Slots :
            /\ slot[s] # 0
            /\ slot' = [slot EXCEPT ![s] = 0]
            /\ alive' = alive \ {slot[s]} /\ unread' = unread \ {slot[s]}
    /\ said' = {}
    /\ UNCHANGED <<enabled, stage, turn, round, tier, cuts, jobs, memory,
                   nudges>>

RemindersNext == \/ OpenTurn \/ StartCancelled \/ OpenRound \/ FinishRound \/ CloseTurn
        \/ Configure \/ StartJob \/ JobMoves

RemindersSpec == RemindersInit /\ [][RemindersNext]_reminders

-----------------------------------------------------------------------------
(* Properties *)

(* Every variable has its type.                                             *)
RemindersTyped ==
    /\ enabled \in BOOLEAN /\ stage \in {"rest", "open", "tools"}
    /\ turn \in Nat /\ round \in 0 .. Cap
    /\ tier \in 0 .. 2 /\ cuts \in Nat /\ nudges \in Nat /\ jobs \in Nat
    /\ slot \in [1 .. Slots -> 0 .. jobs]
    /\ alive \subseteq 1 .. jobs /\ unread \subseteq 1 .. jobs
    /\ said \subseteq Rules /\ gone \subseteq Rules
    /\ DOMAIN latch = Rules /\ DOMAIN told = Rules

(* Evaluations in a step, and the counters they are made with.              *)
Evaluated(rule) ==
    /\ enabled
    /\ \/ OpenTurn
       \/ StartCancelled /\ rule \in TurnRules
       \/ OpenRound /\ rule \in RoundRules
SigNow(rule)    == IF stage = "rest" THEN Sig(rule, turn + 1, 0)
                                     ELSE Sig(rule, turn, round)

(* A state that is there when its rule is evaluated has been told in its    *)
(* present form, and since it last went away: a re-crossing is told again,  *)
(* also when turns without reminders, failed requests or cancels lie        *)
(* between.                                                                 *)
StateIsTold ==
    [][\A rule \in Rules : Evaluated(rule) /\ SigNow(rule) # Nothing =>
         told'[rule] = SigNow(rule) /\ rule \notin gone']_reminders

(* What has been told is not told again while it holds: a reminder changes  *)
(* the request, so one per round would defeat the provider's prefix cache.  *)
NoChurn ==
    [][\A rule \in said' : told'[rule] # told[rule] \/ rule \in gone]_reminders

(* The last round the cap allows is announced to the model exactly once in  *)
(* its turn, and no other round is, whatever became of the nudge of an      *)
(* earlier turn.                                                            *)
LastRoundNudged ==
    stage # "rest" /\ enabled => nudges = IF round = Cap THEN 1 ELSE 0

(* No request goes out with a cut round the model has not been told of.     *)
CutTold ==
    stage = "open" /\ enabled /\ cuts > 0 => told["output-cut"] = <<cuts>>

(* What a round's request says in front of it: both rules of the round.     *)
RoundRulesTold == LastRoundNudged /\ CutTold

(* Every edge of a state is told, and nothing but edges.                    *)
EdgesTold == StateIsTold /\ NoChurn
=============================================================================
