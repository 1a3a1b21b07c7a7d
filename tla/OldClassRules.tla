----------------------------- MODULE OldClassRules -----------------------------
(***************************************************************************)
(* What a dormant old class gains when it catches up with its experience   *)
(* (research/xp-banking-native/dual_native_proficiency.cpp, `uncapped` of  *)
(* dual_old_hla.cpp, and the callbacks of dual_combined_preview.cpp that   *)
(* bring the gains into the game's level-up screen).  The tables are the   *)
(* installed game's; a cell that does not parse is Bad.  The interval of   *)
(* one screen is the levels it catches up; the old class may take several  *)
(* screens for what it could have taken in one.                            *)
(***************************************************************************)
EXTENDS Integers, FiniteSetsExt

CONSTANTS
    MaxByte,    \* 255: a level is one byte and the column after it is 0
    Bad,        \* a table cell that is no number
    RuleSets,   \* the rule tables the game may be installed with
    Skills,     \* the seven thief skills
    MaxSkill,   \* 255: a skill is one byte
    Words,      \* 2^32: experience is an unsigned word, a cell of the table a signed one
    XpLimit     \* bound on the old class's experience

ASSUME ByteAssumption == MaxByte \in Nat \ {0} /\ MaxSkill \in Nat /\ IsFiniteSet(Skills)
ASSUME WordAssumption == Words \in Nat \ {0}

\* What the parsers let through; a rate of no levels is refused (CBMDP_GetSlots).
ASSUME RulesAssumption ==
    \A r \in RuleSets :
        /\ r.next \in [0..MaxByte -> {Bad} \cup {n \in Int : -Words <= 2 * n /\ 2 * n < Words}]
        /\ r.first \in Nat /\ r.rate \in Nat \ {0} /\ r.per_level \in Nat
        /\ r.hla.first \in Int /\ r.hla.rate \in Int
        /\ r.hla.change \in Int /\ r.hla.new_rate \in Int

VARIABLES
    rules,   \* the installed tables; never changes
    patched, \* the game's routines are no longer the ones that were audited
    old,     \* the old class: level, experience, thief skills
    plan,    \* what the screen was opened with; `stage` "none" when there is none
    answer,  \* of the last query
    gained   \* history: what committed screens gave

rulesVars == <<rules, patched, old, plan, answer, gained>>

Levels == 0..MaxByte
Ok == "OK"
-----------------------------------------------------------------------------
(* The queries.                                                             *)

\* A threshold is read as a signed word and compared as an unsigned one: -1
\* ends the table, and any other negative cell is a very high threshold.
\* Mutant: the comparison is signed.
Reaches_Signed(threshold, xp) == threshold # -1 /\ xp >= threshold

Unsigned(n) == IF n < 0 THEN n + Words ELSE n
Reaches(threshold, xp) == threshold # -1 /\ xp >= Unsigned(threshold)

\* CBMDP_GetOldTarget climbs the experience table; 0 is the invalid answer.
\* Column MaxByte + 1 is written as column 0.
OldTarget(prior, xp) ==
    LET climb[t \in Levels] ==
            LET column == (t + 1) % (MaxByte + 1)
                cell == rules.next[column]
            IN  IF cell = Bad THEN 0
                ELSE IF ~Reaches(cell, xp) THEN t
                ELSE IF column = 0 THEN 0
                ELSE climb[t + 1]
    IN  climb[prior]

\* CBMDP_GetSlots and CBMDP_GetSkillBudget for the interval.
\* Mutant: an interval counts its picks from nothing.
Slots_Levels(before, after) == (after - before) \div rules.rate

Slots(before, after) ==
    IF before = 0 /\ after = 1 THEN rules.first
    ELSE (after \div rules.rate) - (before \div rules.rate)
SkillBudget(before, after) == rules.per_level * (after - before)

\* The abilities' rates are floats: half points here, and each term is
\* truncated toward zero (native_term).  A negative total is refused.
Term(levels, halves) ==
    IF levels * halves < 0 THEN -(((-levels) * halves) \div 2) ELSE (levels * halves) \div 2
Since(level, before, after) ==
    IF after < level THEN 0 ELSE IF before >= level THEN after - before ELSE after - level + 1

Uncapped(before, after) ==
    LET h == rules.hla
    IN  Term(Since(h.first, before, after), h.rate)
          + Term(Since(h.change, before, after), h.new_rate - h.rate)

\* CBMDP_RollOldHP: one roll for each level of the interval, in order.
Rolls(before, after) == (before + 1)..after

NoPlan == [stage |-> "none", xp |-> 0, before |-> 0, target |-> 0, picks |-> 0, points |-> 0,
           abilities |-> 0, bound |-> FALSE, asked |-> FALSE, applied |-> FALSE, from |-> [s \in Skills |-> 0],
           selected |-> [s \in Skills |-> 0], unused |-> 0, rolls |-> {}]

RulesInit ==
    /\ rules \in RuleSets
    /\ patched = FALSE
    /\ old = [level |-> 1, xp |-> 0, skills |-> [s \in Skills |-> 0]]
    /\ plan = NoPlan
    /\ answer = Ok
    /\ gained = [picks |-> 0, points |-> 0, abilities |-> 0,
                 rolls |-> [n \in Levels |-> 0]]

\* The old class earns experience between screens.
Earn ==
    /\ plan.stage = "none"
    /\ old.xp < XpLimit
    /\ old' = [old EXCEPT !.xp = @ + 1]
    /\ UNCHANGED <<rules, patched, plan, answer, gained>>

\* Another mod writes over an audited routine.
HotPatch ==
    /\ ~patched
    /\ patched' = TRUE
    /\ UNCHANGED <<rules, old, plan, answer, gained>>

\* CBMDP_GetOldPlan, CBMDP_RollOldPlan, CBMDHLA_Open and CBMDL_Select: the
\* answer of each query, and a plan when all agree with the game's own.
Answer(native) ==
    LET target == OldTarget(old.level, old.xp)
    IN  IF patched THEN "UNSUPPORTED_IMAGE"
        ELSE IF target = 0 THEN "INVALID_PROFS"
        ELSE IF native # target THEN "NATIVE_MISMATCH"
        ELSE IF Uncapped(old.level, target) < 0 THEN "INVALID_PROFS"
        ELSE Ok

Open(native) ==
    LET before == old.level
    IN  /\ plan.stage = "none"
        /\ answer' = Answer(native)
        /\ plan' = IF answer' # Ok THEN NoPlan
                   ELSE [NoPlan EXCEPT !.stage = "preparing", !.xp = old.xp, !.before = before,
                             !.target = native,
                             !.picks = Slots(before, native), !.points = SkillBudget(before, native),
                             !.abilities = Uncapped(before, native),
                             !.rolls = Rolls(before, native), !.from = old.skills]
        /\ UNCHANGED <<rules, patched, old, gained>>

\* CBMDL_SelectSkills binds a selection, whole or too large, once; the bank
\* calls it before the game's reset.
SelectSkills(selected) ==
    /\ plan.stage = "preparing"
    /\ ~plan.bound
    /\ ~plan.asked
    /\ \A s \in Skills : selected[s] >= plan.from[s]
    /\ plan' = [plan EXCEPT !.bound = TRUE, !.selected = selected]
    /\ UNCHANGED <<rules, patched, old, answer, gained>>

\* The game writes a skill between the preview and its reset.
SkillDrift ==
    /\ plan.stage = "preparing"
    /\ ~plan.applied
    /\ \E s \in Skills :
          /\ old.skills[s] < MaxSkill
          /\ old' = [old EXCEPT !.skills[s] = @ + 1]
    /\ UNCHANGED <<rules, patched, plan, answer, gained>>

\* CBMDP_ApplyOldSkills: all seven checked before the first is written.
Spent == MapThenSumSet(LAMBDA s : plan.selected[s] - plan.from[s], Skills)
\* Mutant: the budget is not compared.
SkillAnswer_Unbounded ==
    IF patched THEN "UNSUPPORTED_IMAGE"
    ELSE IF OldTarget(old.level, plan.xp) = 0 THEN "INVALID_PROFS"
    ELSE IF \E s \in Skills : old.skills[s] # plan.from[s] THEN "INVALID_PROJECTION"
    ELSE Ok

SkillAnswer ==
    LET target == OldTarget(old.level, plan.xp)
    IN  IF patched THEN "UNSUPPORTED_IMAGE"
        ELSE IF target = 0 THEN "INVALID_PROFS"
        ELSE IF \E s \in Skills : old.skills[s] # plan.from[s] THEN "INVALID_PROJECTION"
        ELSE IF Spent > SkillBudget(old.level, target) THEN "INVALID_PROJECTION"
        ELSE Ok

\* CBMDL_GetNextLevel: the game asks for the next level as often as it likes
\* while it resets the screen; the skills go in the first time.  A refusal
\* throws through the game's reset.
NextLevel ==
    LET first == plan.bound /\ ~plan.applied
    IN  /\ plan.stage = "preparing"
        /\ answer' = IF first /\ SkillAnswer # Ok THEN "THROWN" ELSE Ok
        /\ IF answer' = Ok
           THEN /\ old' = [old EXCEPT !.level = plan.target,
                                          !.skills = IF first THEN plan.selected ELSE @]
                /\ plan' = [plan EXCEPT !.asked = TRUE, !.applied = @ \/ first,
                                        !.unused = IF first THEN plan.points - Spent ELSE @]
           ELSE plan' = [plan EXCEPT !.stage = "failed"] /\ UNCHANGED old
        /\ UNCHANGED <<rules, patched, gained>>

\* CBMDL_GetHitPoints, which the game asks after the level: the screen shows.
HitPoints ==
    /\ plan.stage = "preparing"
    /\ plan.asked
    /\ answer' = IF old.level = plan.target THEN Ok ELSE "THROWN"
    /\ plan' = [plan EXCEPT !.stage = IF answer' = Ok THEN "preview" ELSE "failed"]
    /\ UNCHANGED <<rules, patched, old, gained>>

\* The commit, with CBMDL_AddSpecial's check of the level it grants up to.
Commit ==
    /\ plan.stage = "preview"
    /\ old.level = plan.target
    /\ gained' = [picks |-> gained.picks + plan.picks,
                  points |-> gained.points + plan.points,
                  abilities |-> gained.abilities + plan.abilities,
                  rolls |-> [n \in Levels |-> gained.rolls[n] + IF n \in plan.rolls THEN 1 ELSE 0]]
    /\ plan' = NoPlan
    /\ UNCHANGED <<rules, patched, old, answer>>

\* The game's own cancel puts its backup back.
Cancel ==
    /\ plan.stage \in {"preview", "preparing"}
    /\ old' = [old EXCEPT !.level = plan.before,
                              !.skills = IF plan.applied THEN plan.from ELSE @]
    /\ plan' = NoPlan
    /\ UNCHANGED <<rules, patched, answer, gained>>

RulesNext ==
    \/ Earn \/ HotPatch \/ SkillDrift \/ NextLevel \/ HitPoints \/ Commit \/ Cancel
    \/ \E native \in Levels : Open(native)
    \/ \E selected \in [Skills -> 0..MaxSkill] : SelectSkills(selected)

RulesSpec == RulesInit /\ [][RulesNext]_rulesVars
-----------------------------------------------------------------------------
\* However the old class divides its catch-up into screens, it gets what one
\* screen would give: the same picks and points, each level's hit points
\* rolled exactly once, and with whole rates the same abilities
\* (CBMDP_GetSlots, GetSkillBudget, RollOldHP, uncapped).
Whole == rules.hla.rate % 2 = 0 /\ rules.hla.new_rate % 2 = 0
SplitFree ==
    plan.stage = "none" =>
        /\ gained.picks = (old.level \div rules.rate) - (1 \div rules.rate)
        /\ gained.points = rules.per_level * (old.level - 1)
        /\ \A n \in Levels : gained.rolls[n] = IF n \in 2..old.level THEN 1 ELSE 0
        /\ Whole => 2 * gained.abilities =
               rules.hla.rate * Cardinality({n \in 2..old.level : n >= rules.hla.first})
                 + (rules.hla.new_rate - rules.hla.rate)
                     * Cardinality({n \in 2..old.level : n >= rules.hla.change})

\* A plan is exactly what the tables and the experience allow: its target is
\* the highest level every threshold up to which the experience meets, and
\* nothing is planned from a table that does not end there; the skills go in
\* whole and within the plan's budget, with the rest kept as unused
\* (CBMDP_GetOldTarget, CBMDP_ApplyOldSkills, CBMDL_GetNextLevel).
Met(n, xp) == rules.next[n] # Bad /\ rules.next[n] # -1 /\ Unsigned(rules.next[n]) <= xp
Reachable(prior, xp) == {n \in prior..MaxByte : \A m \in (prior + 1)..n : Met(m, xp)}
TargetIsReachable ==
    plan.stage # "none" =>
        LET column == (plan.target + 1) % (MaxByte + 1)
        IN  /\ plan.target = Max(Reachable(plan.before, plan.xp))
            /\ rules.next[column] # Bad /\ ~Met(column, plan.xp)
SkillsWithinBudget ==
    /\ plan.applied => /\ Spent <= plan.points
                       /\ Spent + plan.unused = plan.points
                       /\ old.skills = plan.selected
    /\ plan.stage = "preview" /\ plan.bound => plan.applied
PlanIsExact == TargetIsReachable /\ SkillsWithinBudget
=============================================================================
