# TLA+ verification of chriz-bg-modpack

chriz-bg-modpack changes the Baldur's Gate games (BG1/SoD to BG2/ToB) through
EEex: C++ libraries hook the engine, Lua runs inside it. Two of its parts carry
state whose correctness depends on what happens *between* two steps:

- **campaign XP banking** (`research/xp-banking`, `research/xp-banking-native`):
  XP beyond a campaign's ceiling is kept in a bank beside the engine's own XP
  word, and released when a later campaign permits it;
- **scroll casting** (`research/scroll-runtime`): a spell cast from a scroll uses
  the reader's caster level, through queued messages, child effects and saves.

The rest of the repository writes tables, edits resources at install time, or
builds releases. This directory models the core of both. Of banking: the
arithmetic of the account, the bridges that change it from inside the engine,
dual-classing, and what a dual-classed character's old class gains: the
coordinator of a manual level, the level-up screen with its proficiency records,
the rules and the abilities. Of scrolls: who owns what a scroll sets in motion,
how that survives saves and loads, and how the hooks come and go.

Source paths below are relative to the repository; `xpn/` stands for
`research/xp-banking-native/`, `scr/` for `research/scroll-runtime/`.

## Inventory

| Component | State | Operations | Interacts with | What is hard | What makes it correct | Modelled in |
|---|---|---|---|---|---|---|
| Account arithmetic (`xp-banking/native_account.lua`, `xpn/cap_hook.lua`) | the account: policy, phase, floor, overflow, frozen old class | Adopt, CompleteAward, PrepareWrite, PrepareDual, Advance, Ceiling; the cap hook | called by the runtime; hook called by the engine | ends of the 32-bit word, percent and catch-up writes, order of release | total exact; old class first; hook and account agree; usable XP never taken | `NativeAccount`, `CampaignAccount` |
| Award bridge (`xpn/award_native.cpp`) | open and uncertain award records | ApplyEffect (opcode 104) | calls identity, Lua, the engine leaf | re-entry, actor or effect replaced while Lua runs, failure after the store | an effect counts once; nothing is lost | `XpBridge` |
| Writer bridge (`xpn/writer_native.cpp`) | open and uncertain write records, deferred writes, retry table | ApplyEffect, the stat 44 setter, owned party SET | as above | deferral, drift on every pass, full retry table | each write lands once; none waits for good (the order of several that wait is not covered) | `XpBridge` (owned SET is not) |
| Identity bridge (`xpn/identity_native.cpp`) | actor address -> incarnation; foreign events; serialising scope | births, deaths, Query, Lifetime, CanMutate, serialise begin/end | asked by all bridges | other threads create and destroy actors; saves | a lost identity is never written to | `XpBridge` |
| Bank runtime (`xpn/bank_runtime.lua`) | carrier and journal per actor | before/complete/uncertain, Snapshot, Export, Adopt, dual and CHR completion | called by bridges, saves and screens | crash or save with an open journal | a journal freezes its account | `XpBridge`, `CampaignAccount` |
| Manual progression coordinator (`xpn/dual_transaction.cpp`) | contexts, screen owner, transaction sequence, engine thread | CBMD_Create .. CBMD_Destroy | engine adapter by callbacks that may re-enter | re-entry, unknown outcome, two threads, saturation | a level is applied once and as reviewed | `DualTransaction`, `ManualLevel` |
| Dual-class reset (`xpn/reset_native.cpp`) | reset records, previews, the journal of a dual-classing | MakeDualClass; RemoveAbilities and MakeDualClass of the creation screen | runtime callbacks, the game's reset | second call never comes, nested screens, failures after the reset | what the game cleared is the old class's, once | `DualReset` |
| Manual screen session (`xpn/dual_manual_session.cpp`, the two observers, `dual_manual_receipts.lua`) | the open view, backups, hit-point batches, the journal of a level | Reset, Commit, Cancel, OnHP | the game's screen, bank callbacks, the preview adapter | nested screens, failed completion, stale rolls | every gain has its receipt; an unknown outcome stays open; a screen is a transaction | `CombinedScreen`, `LevelScreen` |
| Preview and proficiency adapters (`xpn/dual_combined_preview.cpp`, `dual_prof_commit.cpp`, `dual_native_proficiency.cpp`) | the plan of the old class, the proficiency transaction | Select, ApplyPreview, AfterCommit, Restore, GetSlots, RollOldHP | the session, the game's effect list and tables | a failure between two records, tables that fall or run over | no pips lost, cancel restores; gains do not depend on the division into screens | `ProfRecords`, `CombinedScreen`, `OldClassRules` |
| Old-class ability queue and its page (`xpn/dual_old_hla*`, `dual_retired_picker.lua`, `dual_retired_flow.lua`) | selections, queue, delivery journal | CanChoose, Prepare, Commit, Deliver | runtime, the screen, saves | crash between intent and delivery, awards inside it | each selection granted once or still queued; reward XP kept | `OldAbilities` |
| Completed reward ledger, other retired-class screens, skill rows, entry points | packed records, menus | codecs, layout | coordinator | none that interleaves | codec round trip (unit tests) | no |
| Party and recruitment writes (`xpn/party_native.cpp`) | owned SET origins | ApplyOwnedSet, recruitment | writer bridge | consumed origin, deferred write | each party share lands once | planned |
| Player notices (`xpn/bank_notice.lua`) | stored notices | show, acknowledge | runtime, saves | crash between show and save | shown at least once | planned |
| Bank startup (`xpn/bank_bootstrap.lua`, hooks) | patch sites | install, roll back | every bridge | partial installation | all hooks or none | planned |
| Campaign policy (`xp-banking/cbmbank_policy.lua`) | phase in a save | Campaign, ChapterPhase | runtime | flags that go back | the phase never falls | planned |
| Prototype store and dual account (`xp-banking/cbmbank_store.lua`, `cbmbank_dual.lua`) | pending imports | Begin, Commit, Abort | none installed | busy callbacks | commit or abort once | store planned |
| Scroll context registry (`scr/scroll_context.hpp`) | contexts of effects, messages, actions; cast frames; the latch | born, destroyed, copy, dispatch, capture, enter, select, child, linked177, disable | called by the carriers through `native_api.cpp` | reused addresses, nested casts, a provider that runs other casts, disabling at any moment | a scroll's level reaches exactly its own effects | `ScrollCast` |
| Scroll action witnesses (`scr/action_witness.hpp`) | issued and live blocks with reference counts | stamp, contains, sweep | engine strings count references | holders the engine does not count, the last block | a block never names two uses, nor none too early | `ScrollCast` |
| Scroll carriers (`scr/*_carrier_api.cpp`, `linked177_api.cpp`, `conditional_api.cpp`, `carrier_gate.hpp`) | scopes of the open native calls | item use, apply, queue, run, cast, child, destroy | engine hooks, registry | re-entry, other threads | the innermost call owns what is made | `ScrollCast` (not contingencies and repeating effects) |
| Scroll effect archive (`scr/effect_archive.hpp`, `eeex_save_bridge.cpp`, `CBMS_ScrollMarshal.lua`) | envelopes beside saved effects, open imports and exports, UUIDs of readers | prepare, validate, import, bind, finish | saves, registry | stale and foreign envelopes, processes with overrides off, readers that come later | only what was owned is owned again, and all of it | `ScrollArchive`, `ScrollArchiveProofs` |
| Scroll hook hosts, startup (`scr/*_hook_host.cpp`, `*_hook_group.hpp`, `startup.cpp`) | patched routines, pages, unwind tables, carriers | install, remove, roll back | every carrier | failure between two writes, threads inside that no gate counts, other owners | no patched byte leads to what was freed, nor is freed what a thread runs on that a check can see; the outcome is true | `HookHost` |
| Scroll policy builder, utility XP, Imoen and unidentified items, installer, tools | tables and files | build, install | the game's resources | none at run time | tests of the repository | no |

### How the banking parts interact

The engine's thread runs everything that changes an actor. When the engine
resolves an XP effect or calls the stat 44 setter, a hook enters the award or
writer bridge. The bridge asks the identity bridge for the actor's incarnation,
asks Lua (`before`) what to store, checks that the world it asked about is still
there, stores one word (or lets the engine's leaf store it) and tells Lua
(`complete`, or `uncertain`). Lua journals the intended account before the store
and drops the journal after it. Lua callbacks may run arbitrary engine code:
other effects, setters, births, deaths. Saves serialise an actor inside a scope
in which no account may change. Other threads may create and destroy actors;
the identity bridge then records the address as foreign and no bridge touches it
again. Independently, a dual-classed character's old class levels through a
manual screen: the coordinator captures, previews and commits a detached object
through an engine adapter whose source is not in the repository.

When a character dual-classes, the reset bridge wraps the game's own reset and
journals what it clears. Later, on the game's level-up screen, the session lets
the dormant old class take its levels beside the active one: the plan is computed
from the installed tables, the proficiency records of both classes are rewritten
in place, and the session's commit, cancel and journal bracket the game's own.
Abilities of the old class are chosen on a page of their own, queued in the
carrier, and granted in batches by the commit that finds the class reactivated.

### How the scroll parts interact

The startup installs eight groups of hooks and takes all of them out again when
one fails. The hooks tell the registry of every use, cast, message, action, copy
and destruction. When the game saves a character, the Marshal hook and EEex's
exporter write an envelope beside the effects; when it loads one, the decode hook
collects the records, the importer stages the envelope, and EEex's UUID binds the
character before the ancestry is put back.

### Hazards

`PROJECT.json` lists them at their lines. They fall into six groups: the world
changes inside a callback; a step after the store fails; a call nests in another
of the same actor; a save or a crash falls between two steps; addresses are used
again by other objects; counters and words at their ends. Seven have no property;
each says why.

## Modules

| Module | Models | Lines |
|---|---|---|
| `NativeAccount` | the pure functions of `native_account.lua` and `cap_hook.lua` | operators only |
| `CampaignAccount` | one adopted account over awards, writes, dual-classing, phases and new runs, each as one atomic step | EXTENDS `NativeAccount` |
| `XpBridge` | award, writer and identity bridges with the runtime's journals | EXTENDS `NativeAccount` |
| `BankProofs` | the theorems about the account alone and under the bridges | EXTENDS both |
| `DualTransaction` | the coordinator, split at its callbacks | |
| `ManualLevel` | what the coordinator promises: an attempt is open, then applied or dropped, one at a time | abstract |
| `DualTransactionProofs` | the theorems about the coordinator, the refinement among them | |
| `ScrollCast` | registry, witnesses and carriers of scroll casting as one system, against the true origin of every object | |
| `ScrollCastProofs` | ownership, levels, the ends of contexts and the latch, for any addresses and nesting | |
| `ScrollArchive` | envelopes through saves, loads, other processes and rewritten effects, against the true origin | |
| `ScrollArchiveProofs` | ancestry through saves and loads, for any characters, processes and envelopes | |
| `HookHost` | a start of the scroll runtime: eight groups of patches, installed or rolled back | |
| `HookHostProofs` | patched bytes lead to whole groups, seen threads keep what they run on, a start tells the truth | |
| `DualReset` | dual-classing: nested calls of the wrappers, journals, saves and loads | |
| `DualClassProofs` | the experience cleared by a reset is accounted for; the old class's gains and plans | EXTENDS `DualReset` and `OldClassRules` |
| `ProfRecords` | the proficiency records and their transaction | operators only |
| `CombinedScreen` | the level-up screen: session, previews, hit points, journal | EXTENDS `ProfRecords` |
| `LevelScreen` | what the level-up screen promises: applied, dropped or in doubt, through saves and loads | abstract |
| `CombinedScreenProofs` | receipts of what a screen gains, unknown outcomes, pips and cancels for any records, the refinement of `LevelScreen` | |
| `OldClassRules` | what the old class gains, and one plan of it | |
| `OldAbilities` | abilities of the old class: page, queue, delivery | |
| `OldAbilitiesProofs` | no ability granted twice or lost, the page's rules are the game's | |
| `MC*` | constants of the runs | |

### NativeAccount and CampaignAccount

An account is the record of `native_account.lua` with the fields its arithmetic
reads (`policy`, `phase`, `revision`, `floor`, `overflow`, `kind`, and for a
dual-classed character the total and usable XP of the old class). `Ceiling`,
`Advance`, `CompleteAward`, `PrepareWrite` and `PrepareDual` are operators of the
same names; a refusal (`nil, reason`) is an enabling condition `...Fits` that does
not hold. `Select` is the cap hook. The word ends at `U32`; the largest exact
integer of a Lua number is `ExactMax`; `S32` splits positive amounts from losses.
`CampaignAccount` keeps the account, the word `base` and two history variables:
`earned`, the exact XP of the active class, and `imported`. Every action is one
call of the runtime taken as atomic; `XpBridge` opens it up.

### XpBridge

| Variable | Code |
|---|---|
| `actors` | the identity registry's entries and the engine's XP word; `owed` is history |
| `aux` | the actor's EEex aux: account, the incarnation it is bound to, journal |
| `disk` | what the last serialisation of the actor wrote |
| `effects` | the effect at an address, its done flag, how often its leaf ran |
| `calls` | the C++ stack: open bridge calls and serialisations |
| `uncertain` | records that outlive their call because it ended unknown |
| `retries` | the retry table of the writer bridge |
| `deferred` | queued and kept setter writes |
| `foreign` | addresses with lifetime events from other threads |

A call is split where Lua runs. `EnterEffect` and `EnterSet` take every decision
up to `before`; `Refuse`, `PassOn` and `Track` are its outcomes; then `Store`,
`Complete`, `CompleteFailed` and the `Close...` actions follow the code's order
of checks. Between any two of them the game may run another call, `Drift` the
word, `Reshape` the effect, save, or another thread may take the actor.
`Restart` ends the process at any point and loads the last saves. Decisions:

- an in-flight record is the frame of its call; the maps keep uncertain records;
- a save opens between changes, and changes may arrive while it is open;
- a sprite is not saved inside its own save, and its word and carrier are written
  by one step (the scope keeps them from changing in between, as `NoXpLost`
  and `SaveIsQuiet` check of the accounts);
- a list is not re-entered for the effect it is resolving, unless its actor ended;
- where Lua or an allocation may fail, both outcomes are taken; the allocation of
  a deferral is the exception;
- `DeferEffect` leaves the effect for the next pass, a step that changes nothing
  when the table already holds it;
- calls on another thread (refused by the code), adoptions that are still
  pending, a dual transaction inside a change, a leaf that throws, and character
  files are not modelled. An export of an actor without an identity sets its
  carrier aside, as `docs/campaign-xp-banking.md` says; such a carrier is
  `excluded` and no property speaks of it.

### DualTransaction

An entry point is one action up to its first adapter callback (`Begin`,
`Choose`, `GetPreview`, `Commit`, `Cancel`, `Resolve`, `Destroy`), and one action
for every callback that returns (`BeginCaptured`, `CommitReturned`, ...). `pc` is
the callback a context waits in, `running` and `caller` the call stack, so
another context, or the same one where the code allows it, can be entered from
inside a callback. `CBMD_Create` is split between its load and its
compare-and-swap because two threads may race there. A refused call leaves
everything as it was and is a stutter. The adapter follows the contract stated in
`dual_transaction.h`: callbacks may fail or throw, `commit` is one
compare-and-swap against the captured snapshot, APPLIED and UNCHANGED are true,
UNKNOWN says nothing. It is the one external part. `CommitIsReviewed` is about choices: what was
shown last is what is committed. The world's revision is in the guard of the commit
(`dual_transaction.cpp:287`) and no property speaks of it; after that comparison the
snapshot is the adapter's own to check.

### ScrollCast

| Variable | Code |
|---|---|
| `life`, `known` | which actor is at a sprite address; the life the registry's `Kind::Actor` entry was born for |
| `uses` | `Origin`s, with the true life of the reader as history |
| `objects` | effects and `CMessageFireSpell`s of the engine: alive, `m_casterLevel`, and the true `use` |
| `fields` | `CAIAction`s (queue entries and each sprite's `m_curAction`): what they do, `m_source`, the true `use` |
| `contexts` | `Entry::context` of effects, messages and witness keys |
| `refs`, `witnesses` | reference counts above the baseline; `issued_` and `live_` |
| `working` | the sprites' shared working level (`+4C8Ah`) |
| `stack` | the open native calls: `Invocation`, `Apply`, `Applying`, `Running` and the registry's frames |
| `disabled` | `disabled_` or `foreign_entry` |
| `late` | history: another thread set the latch behind the last check of a hook at work |

The engine shows the hooks addresses and return addresses only. The model keeps
the truth beside what they record: `use` is the scroll an object really comes
from, 0 for none, and moves with the engine's own steps, whatever the hooks do.
The properties compare the registry with it in both directions: `OwnedIsTrue`
(nothing is credited to a scroll it does not come from), `OwnedIsFound` (nothing
of a scroll is missed while overrides are on), `OwnedExactly` (both). A level is named by the reader
and life it belongs to, so `LevelIsReaders` sees a level of a later actor at the
same address. Between two steps of a call any other call may run inside it, and
the provider of the reader's level runs between `Preselect` and `Resolved`.
Decisions:

- a hook's own code is one step, except for what another thread can put into it.
  Between the last check of a hook and its write (for a cast
  `scroll_context.hpp:326-327` and `cast_carrier_api.cpp:140-154`) another thread can
  set the latch: `ForeignEntry` does that, and the next step of the engine's thread
  goes on as if it had not (`Latched`) and ends the window. So the one cast being
  chosen or passed on can still get the reader's level, as
  `docs/scroll-casting.md:166-170` and
  `research/scroll-runtime/action-witness-evidence.md:496-499` say.
  `NothingAfterDisable` excepts exactly that hook, and `LevelIsTrue` says that the
  level it gives is the right reader's. A store of the registry asks again
  under its lock (`LateOr`: it may come before or after the latch). The other call
  of such a thread, which runs the original unrecorded, is `ForeignCall`;
- the point twins (`FirePoint`, `ForcePoint`, `SpellPoint`) behave as the others;
- an item's extra targets share the frame of its use, as the code shares
  `UseState`; casts of extra targets are `CastFurther`;
- an effect is not destroyed or overwritten while it is applied, nor a message
  while it runs, nor the reader while its own item use is open on the owner's
  thread; whether another cast stores the native working level is open
  (`NativeWorking`);
- every sweep audits all retired blocks (the batch of 64 covers them within the
  bounds); a witness written into is one of the failures of `Disable`;
- `ScrollAssumption` keeps the addresses of effects and messages and the numbers
  of witnesses apart and the set of actions finite: the registry keys its entries
  by kind and address (`Registry::Key`), so entries of different kinds never meet;
- contingency and repeating effects are not modelled; saves and the binding of
  readers by UUID are `ScrollArchive`, the patching of the hooks is `HookHost`.

### ScrollArchive

| Variable | Code |
|---|---|
| `sprite` | a loaded character: its effects with their contexts, `actor_uuid`, and the UDAux state `raw`, `error`, `finished` of the adapter |
| `record` | what the game last wrote of it: effect records and envelope |
| `scopes` | `DecodeCarrier::scopes_`: loads nest |
| `import`, `export` | `effect_imports`, `effect_exports` of the runtime |
| `disabled` | the latch, and with it the bridge's fault |

An effect's bytes are abstracted to its level, and those of a character to the
levels and the time of the last change, so that a rewritten effect and a changed
list can both be told from the saved ones. This takes for granted that a change
moves the time a record holds: one that is made and saved again within the same tick
of the clock is not covered, and `AncestryIsTrue` says nothing of it. As in `ScrollCast` the truth is kept
beside the records: `use` of an effect is the scroll it comes from, and `whole`
says whether a process without overrides ever handled it, since nobody promises
anything about those. `Marshal` is prepare and export, `Written` the native writer
and the check; between them another exporter may write into an effect (`Meddle`).
`Load`, `Decode`, `Import`, `Decoded`, `Bind` and `Loaded` are the steps of a load
in the order EEex takes them; `Fault` turns the overrides off anywhere. One
character holds effects, both can be readers. Effects that a save filters out, the
hexadecimal text and EEex's fallback storage are left out.

### HookHost

`held` says which parts a group has acquired (page, unwind table, carriers),
`bytes` what stands at each routine, `written` which routines the group counts as
its own, `loose` where the page protection or the code cache is not restored,
`thread` where each other thread is: in which group's hook, for which carrier, and
whether the carrier's gate has yet to count it, counts it, or counts it no longer.
`pc` is the place of the start: it acquires a group's parts, writes each routine, or
takes out what was written, group by group in reverse; each of these can fail.
Another owner can patch the same routines over ours and take its patch off again.

Nothing keeps a thread out: it follows a jump of ours at any time (`Enter`), also
while the group is undone, removed or given back. `CarrierGate::Outside` counts it
only while it runs the native original (`scr/carrier_gate.hpp:29-38`); in its first
and last instructions in the hook no idle check can see it, as lines 15-17 there and
`docs/scroll-casting.md:149-157` say: "Such a call could then run freed code and crash
the game". `unseen` records the threads whom a check that let a removal go on has so
overlooked, and those that come to a CALL group after its last check. `NothingDangles`
is what the code does promise: bytes of the engine lead to whole groups only, and
every thread that is not `unseen` keeps what it runs on. To `unseen` threads it
promises nothing, and they do run on what was freed. `OutcomeIsTrue` says that the
reported outcome is what was left behind: a refused start has no thread in a hook but
`unseen` ones, a ready one has overlooked nobody.

While a start writes a jump, another thread at that very place could also execute a
half-written instruction (`docs/scroll-casting.md:158-165`). That is not modelled: a
routine is compared and written in one step.

The document says that a failed start "waits for any call it can see". A CALL group
(`conditionalCalls`, `selectors`) whose own install fails restores its bytes and frees
its page without an idle check (`scr/selection_hook_group.hpp:63-67`), so there a
thread that the gate of its entry group counts is not waited for either. The model
does the same (`Abandoned`), and counts such threads as `unseen`.

### DualReset

`stack` holds the calls of the game's code under way from `CBMR_MakeDualClass` and
the creation screen's pair; inside them the game can make another of these calls, and
foreign code can write. Awards, levels, saves, loads and a restart come between
calls.
`record` is the `CBMR_View` of the one sprite address, which a load can give to
another incarnation; `carrier` is the saved account with its preview and journal;
`actor.was` is history, what the game cleared. `saved` is both as last saved.

### ProfRecords and CombinedScreen

A proficiency record is an entry with a `node` (its identity in the game's list),
a kind (a class SET that packs both classes' pips, a carrier that holds pips the
old class has earned, or an alien of an unknown schema) and the pips. Each
operator of `dual_prof_commit.cpp` returns the list, the transaction and the
outcome `ok`, `no` or `uncertain`, the -1 of the code. `CombinedScreen` runs the
session's handlers, each as one action with every outcome of its callbacks, since
they hold the engine's thread; the records can be replaced and recalculated by the
game while the screen is open. `actor` is the character with its saved carrier,
`view` the session, `batch`, `cache` and `unread` the hit-point rolls. A stat is read
from its last class record (`LastSet`), as the code's loop leaves it.

The +/- buttons go through the choice guard before the session sees the choice
(`xpn/dual_choice_observer.cpp:36`). On a screen that is uncertain, or whose sprite was
loaded anew, the guard falls through to the game's own setter
(`xpn/dual_combined_preview.cpp:22-26`, `68-71`) and only then
`CBMDS_OnChoice` (`xpn/dual_manual_session.cpp:141-146`) calls `uncertain()`:
`ChooseUntracked`. So the code does not freeze such a character's records. What it
keeps, and what `UnresolvedIsFinal` and `LevelScreen` say, is that the screen stays
uncertain, no level is given, the journal stays, no record is added or dropped, and
what the records hold of the old class stays; active pips may change, and only
by the buttons of the stuck screen. `NotBelowOpened` is an assumption on the game's
screen: its − button takes back only what was chosen on it. A load closes the game's
screen, which opens again on the loaded character (`opened`), whatever the session
thinks.

### OldClassRules

`OldTarget`, `Slots`, `SkillBudget`, `Rolls` and `Uncapped` are the functions of
`dual_native_proficiency.cpp` and `dual_old_hla.cpp`, over tables that are
functions from columns to cells, with `Bad` for one that does not parse. A byte
wraps at `MaxByte`. The state is one plan at a time, opened, its skills selected,
applied, over an old class that goes on earning; `gained` is the history of what
the committed screens gave. `patched` covers the code's check that the game's
routines are the audited ones.

### OldAbilities

A selection is a ticket, so that two picks of one ability differ. `account` is the
carrier (queue, two journals, XP), `actor` what the character has; `page` and
`screen` the two user interfaces, `projection` what the screen's predicate adds to
the actor, `call` the commit handler under way. `Deliver` is split into its
batches, and the game's code runs inside each. `Failed` is the code's estimate of what a batch that
threw has granted.

## Runs

| Run | Question | Bounds and why they are enough |
|---|---|---|
| `campaign_account` | Does any sequence of changes keep the total, the order of release and the agreement with the hook? | the real cap tables; four revisions, so that a class can bank, dual, bank again and be released; the word ends at 8,900,003, just above the largest ceiling, so that wrapping, truncation and refusal are all met; amounts that land below, on and above ceilings; stops when revisions end, hence no deadlock check |
| `campaign_import` | Do both balances become usable after an import, as the document says? | same; fails, see *Findings* |
| `xp_bridge` | Is XP lost or doubled by failures, nesting, saves, drifts, other threads, restarts; does every listed effect get done? | words 0..7 (1..3 awards, 4..7 losses) cross the end of the word in one change; call depth 2, so a change or a save can run inside another; two changes; the run joins three slices (`Slices` of `MCXpBridge`): one actor and one effect address with a SET, awards, a loss that is set and one external event (a load, a crash, a new actor, another thread); one actor with two effects that compete for a retry table of one entry; two actors that share an effect address. Two actors are interchangeable, so one of them has the first incarnation |
| `dual_transaction` | Are the screen, the outcome and the detached objects consistent under re-entry and races; does the coordinator implement `ManualLevel`? | two contexts and two threads; two transactions and the saturated number; two revisions of the world, so a snapshot can be stale; two choice revisions, so a preview can be out of date |
| `scroll_cast` | Are exactly a scroll's effects its own, at its reader's level, through copies, links, messages, actions and casts, and does a Spell find its level again? | the run joins four slices (`Slices` of `MCScrollCast`). Effects: two addresses and two lives of the reader, so both can be reused; two scrolls that could be mixed up; two open calls, three for one scroll (a cast, an apply in it, a cast in that); depth limit 2, where a child of a child fails. Messages: one, reused. Actions: a queue entry and a current action, two scrolls, three blocks, two of them live, so both limits are met; one uncounted holder. Nested casts: two open calls on one sprite. Another thread may set the latch behind any hook's check. Symmetric in the effects |
| `scroll_archive` | Does every owned effect keep its scroll and its reader, and no other, through saves and loads? | two characters, one of them with up to two effects; one scroll, so that the reader can be either; three changes, so that an envelope can be outdated while it is kept; three sprites per process (holder, reader, one of them again), two processes, so that the first may save unread and the second read |
| `hook_host` | Does a patched byte, or a thread that a check can see, ever lead to what was freed, and is the reported outcome true? | all eight groups in the order of the start; two routines in one of them, a CALL group, so that a part can be written and no carrier stops the failure; two threads, so that one can be waited for while the other is overlooked; two changes by other owners, put on and taken off |
| `dual_reset` | Is the experience a reset clears accounted for? | two screens, calls two deep, two classes, two incarnations at the address, two loads |
| `combined_screen` | Do pips, gains and cancels hold over several screens, does an unknown outcome stay open, and does the screen implement `LevelScreen`? | three screens; five shapes of the records of one stat; two pips a class at most, so that sums meet the limit; two slices (`Slices` of `MCCombinedScreen`): two rolls and three levels without a save, the third screen only while the observers missed nothing; one roll, one level and two screens with a save and a load in the same process or a restart |
| `old_class_rules` | Do the gains depend on how the catch-up is divided, and is each plan what the tables allow? | levels 0..4 where the byte wraps; eight tables (two hold a negative cell, which is compared unsigned) by three rates by two point values by four ability tables |
| `old_abilities` | Is each selection granted once, is reward XP kept, is every selection legal? | a catalogue with each kind of relation; batches of two, so that three selections need two; two sessions; one load or crash |
| `scroll_working` | A Spell's level with casts on other receivers between | three open calls; fails, see *Findings* |

A run with slices restricts its states by a `CONSTRAINT` of its MC module: each
slice gives some dimensions their full size and keeps the others small, where
the product would be out of reach. A behaviour may pass from one slice to
another where both admit the state. The invariants are checked on every state a
slice reaches in one step, too.

`CHECK_DEADLOCK FALSE` stands in the runs whose bounds end the story: nothing is
left to do when all sessions, loads or revisions are used up, or a start is over.

Every property has at least one mutant in `PROJECT.json`: a changed definition
(a dropped re-check, a record forgotten, a wrong order) under which the run
reports that property violated. The mutants are defined next to the definitions
they replace.

### Fairness

Only `xp_bridge` assumes any. The game's thread runs the stack: a call or a save
that is open is resumed and returns, also when others run inside it again and
again; hence, for each depth of the stack, `SF` of the steps of the call that is
innermost there. `SF(Resolve(e))` says the engine passes over an actor's effect
list again and again and resolves each entry that is not done; strong, because at
any given moment another call or a save may be in the way, and the engine does
come back afterwards. Nothing is assumed of events of other threads, drifts, or
new changes. The slices cut only such events, never a step that fairness
promises.

### Findings

`campaign_import`: `docs/campaign-xp-banking.md:68` says "When a later campaign
permits progression, both balances become usable within the shared cap".
`ReconcileCHR` (`xpn/bank_runtime.lua:316`) gives an imported dual-classed
character the new phase directly and does not release the old class's bank; the
release runs only in `Advance`, when the phase changes again. The trace has two
or three steps: bank as a single class, dual-class, import into a later campaign. The
ceiling then holds the old balance and it stays banked. `UsableNeverTaken` and
`OldReleasedFirst` exempt this state.

`scroll_working`: `scr/cast_carrier_api.cpp:63` says "A nested cast on the same
sprite can overwrite the shared native working level. Restore only an owned outer
Spell/Point scalar." The destructor (`:65`) restores only when the invocation
*directly* around the ended one is that outer Spell. In the trace a Spell has
selected its reader's level; inside it a cast on another receiver runs, and
inside that one a cast on the first sprite, which stores the engine's level.
Neither return writes the level back, so the Spell goes on with the engine's.
With casts on the one sprite only (`scroll_cast`) `WorkingLevel` holds, which
is what `tests/test_scroll_runtime_cast_carriers.py:152` tests.

## Proofs

The eight proof modules hold for every value of the constants that the named
assumptions of their modules allow: any word size, amounts, number of contexts,
threads, transactions, hook groups, classes, screens, addresses and depth of
calls. The bounds of the runs (`MaxUses`, `MaxStack`, `SeqMax` ...) are constants
too: the theorems hold for each of them. Every inductive invariant was given to
TLC as an invariant of the run first.

**Account.** `AccountInv == TypeOK /\ ExactTotal /\ Canonical /\ Frozen` is
inductive. `Canonical` says that overflow is never kept while the ceiling has
room, which is what makes the word and the overflow a unique split of the total;
without it a release could be computed twice. `Frozen` bounds the old class's
usable part by its total and ties it to the active class being held back. Lemmas
give the range and the total of each operator (what `Split`, `Advance`,
`PrepareWrite` and `PrepareDual` return); the step proof has one case per action.
Proved from it: `AccountTypeCorrect`, `TotalIsExact`, `HookMatchesAccount`,
`ReleasedInOrder`, and the action properties `UsableIsNeverTaken` and
`EntitlementIsKept` (a later release never gives the old class less than an
earlier one: `Frozen` again).

**Bridges.** `BridgeInv` of `BankProofs` is the types and: calls and saves are never
open together and an actor has one open call (`Stack`); no incarnation is used
before it is given, and no call or account names one to come (`NotAhead`); every
actor and its account are even (`Books`, from `Even`: with a known account the
word and the account miss nothing of what is owed, or just what the journal names;
without one the word alone is owed); while no other thread's event has happened, a
call with a published journal still finds the actor and the account that it
prepared (`Dues`, from `Due`); and what was saved belongs together (`SavedEven`).
`NoXpLost` alone is not inductive. A store is right only because the journal
still fits the word it was prepared for, and the completion only because the
account has not moved since (`Due`); that no other step moves them needs `Stack`.
A new actor at an old address must not take the account left there for its own
(`NotAhead`), and a load may bring back an account whose word was saved with it
(`SavedEven`). `NotAhead` is why `BridgeAssumption` asks for incarnations enough
for the actors of a new process. The lemmas before it give the arithmetic the code
does in `native_account.lua` and in the engine's store (`NativeFact`, `AwardPlan`,
`WritePlan`: target and overflow add up to what is owed), and `SettlingFact`, by
induction over the writes that waited, what closing a call makes of an actor.
The step proof has a lemma per action; those that close a call rest on `CloseKeeps`,
the others on `AnswerKeeps`, `QuietKeeps` and `NewActorKeeps`. TLC checked the whole
of `BridgeInv` on the run's instance. Proved for any actors, effects, changes, depth
of nesting and table limits: `NothingIsLost`, and the action properties
`NothingIsTouched` (`HandsOff`) and `SavesAreQuiet`.

`ChangesCountOnce` needs `PaidInv` beside it: the effect that an open call holds is
its sprite's and is not done (`InHand`); a listed effect ran once or a record names it
(`Paid`); a record of a living actor and an open call of it exclude each other
(`OnRecord`), so that no later call can overwrite the record that vouches for an
effect; every setter write is stored, waiting, open or ended with its actor
(`Squared`), and a write that waits does so behind an open call (`Waits`). The lemmas
before the step proof say how opening, nesting and closing calls move the set of
setter calls that have not stored (`SettersFact` to `ClosePays`), and `SettlingFact`
again tells what a closing call does with the writes that wait. TLC checked
`PaidInv` on the run's instance too. Proved: `EachCountsOnce`.

**Coordinator.** `ScreenInv == TypeOK /\ PhaseAtCallback /\ AttemptIdentity /\
ScreenOwnership`: which phase a context can be in while it waits in a callback,
and that an open attempt's number is below the sequence and is held by the screen
owner alone. `ScreenOwnership` alone is not inductive because a callback's
return decides on the phase. `OutcomeInv` adds the adapter's contract seen from
the coordinator: an applied transaction is that of an attempt not yet closed as
unchanged. `ObjectInv` says which object an attempt has at each callback
(`ObjectOfAttempt`), that none was discarded twice and that what exists belongs to
the screen owner; the discard of one callback and the re-entry of another meet in
it. `ReviewInv` says that a reviewed revision was shown and that from the
inspection in `CBMD_Commit` to the adapter's commit the attempt stays committable
(`ReviewedIsShown`). Proved: `TypeCorrect`, `ScreenOwned`, `OutcomesRecorded`,
`AppliedAtMostOnce`, `OneThread`, `ObjectsAreDetached`, `CommitsAreReviewed`, and
`PromiseKept`, the refinement of `ManualLevel` (every initial state maps to an
initial state, every step to a step or a stutter).

**Hooks.** `IInv` of `HookHostProofs` is the types and: every routine that leads to
the runtime is counted as written (`Counted`), a group with a counted routine holds
all its parts (`WrittenKept`), one with a thread that is not `unseen` what that thread
needs (`InsideKept`, from `Carried`), under a group that exists every earlier one is
whole (`Stacked`), and what each step of the start may rely on (`Control`; that
whoever is in a CALL group being taken out is `unseen` is its `Missed`).
`NothingDangles` is not inductive: it does not say that a rollback has finished the
later groups before it frees an earlier one, nor that a routine another owner wrote
over still counts. The step proof has a lemma per
action; the lemmas on `AfterInstall`, `RemoveFails` and `Given` say what the
failure paths hand on. `OutcomeInv` adds that a group which is not active holds
nothing (`Forgotten`), what the start may report (`Reported`), and that nobody is
overlooked before something is taken out (`Overseen`). Proved for any order of groups,
any number of routines in each, any threads and any number of foreign changes:
`NeverDangles` and `OutcomeIsTold`. The only assumption is the module's, on the
constants.

**Dual-classing.** `IInv` of `DualClassProofs` is the types, `Sound` of the living
character with its carrier and of the saved pair, and `Recorded`, which says what
the record and the journal have in common while the game's code runs and while the
creation screen is between its two calls. `ResetAccounted` follows from `Sound`;
the record is needed because the completing call trusts it and not the journal.
Proved for any classes, screens and bounds: `ResetIsAccounted`.

**The old class's gains.** `RulesInv` of the same module says that an old class of
level *l* has been given what *l* is due (`Given`), and that an open screen's plan is
that of the level and experience it was opened with (`Planned`) and has been told to
the game step by step: the level with the first question, and with it the skills
(`Answered`). `SplitFree` alone is not inductive, since while a screen is open the
class has the new level and not yet the gains. A commit gives the difference between
what two levels are due, so the proof is arithmetic: quotients telescope, `Since`
counts the levels that `Past` has not counted yet (`PastFact`), and half points lose
nothing when the rates are whole (`HalvesFact`). Two inductions are made by hand,
over a set of numbers without a counterexample (`CountingUp`) and over the sizes of
finite sets (`SizeInduction`): the climb of the experience table is defined for every
level from the last one down (`ClimbDefined`) and ends where the table stops being
met (`TargetFact`), and the sum of the chosen skill points is a number (`AddedFact`).
Proved for any tables `RulesAssumption` admits (also ones that fall, break off or
never end, or hold negative cells, which the code compares unsigned and so seldom
reaches), any byte and any experience: `GainsDoNotSplit` and `PlansAreExact`.

**Combined screen.** `IInv` of `CombinedScreenProofs` is the types and: the books
of the living and of the saved character (`Ledger`: balanced until the choices are
handed to the game, after that one level may be without its receipt), no screen is
open for an incarnation that is yet to come (`NotAhead`), and the batch of a screen
that may commit holds what the game will give (`BatchGiven`). `GainsAccounted`
alone is not inductive: a load puts the saved character in the living one's place,
and a commit adds what the batch was told, not what the game gives. Proved:
`GainsHaveReceipts` and the action property `UnknownStaysOpen`. The latter goes
through the handlers: those of an unresolved screen write no records at all
(`TouchedFact`, `SameParts`), and a button of it writes active pips only
(`OnlyActivePips`).

**Old-class pips.** `PipsInv` of the same module says what the records are at each
moment. A character without an open journal reads what it has earned, the living
and the saved one alike (`Kept`). On an open screen the records differ from those
the screen found only as the plan says: without an old class to restore the game
has written active bits of class records and nothing else (`Unbound`); with one,
while the transaction is whole, it *frames* them (`Framed`): the first records are
the ones found, node by node, with the bits they had in the transaction, and every
record after them was made by it. A merged screen's active pips, and the floor
below which the choice guard lets no button go, are at least what was earned and
chosen (`Reactivated`, from `AtLeast`); on any other the old class reads as before
and the transaction owns no carrier (`Dormant`). `OldPipsKept` alone is not inductive:
the next button press may lower what is shown, and a failed restore or a replaced
record must leave the screen uncertain instead of closing it. A replaced record has
a node no transaction has seen, so the transaction is not whole any more and
`Restore` refuses; this is why `Framed` is asked only of a whole one. A stuck screen
without a journal still takes clicks, so `Kept` needs `Floor`: it was opened on records
that hold what was earned, and the game's button goes no lower than those
(`UntrackedPips`).

What records read is computed by folds (`Carried`, `Without`, `AddSets`,
`AddCarriers`) and by the last record of a stat. A fold is unrolled by hand:
`FoldDefined` shows by well-founded induction over sets of numbers that the fold's
function exists, `FoldWalks` that it is a walk along the list, one entry at a
time, and one lemma for each fold says what the walk ends with (`CarriedFact`,
`WithoutReads`, `AddSetsFact`, `AddCarriersFact`). On these rests one lemma for each
function of `dual_prof_commit.cpp`: `BeginFact`, `MergeFact`, `SetActiveFact`,
`RestoreFact`, `CompleteFact`, `PersistFact`. Proved for any stats, any records with
places of their own (`ListAssumption`; `entries` refuses a list that visits a node
twice) and any pips a class can have: `NoPipIsLost` and
the action property `CancelPutsBack`. TLC checked `PipsInv` on the run's instance
first.

**The screen as a transaction.** `LevelScreen` knows a *book* (level, hit points,
receipts, earned pips and the content of the records), whether it is sure, and
whether a screen is open. The screen opens on a sure book, and it is applied (one
level, one receipt, no earned pip fewer), dropped (the book it was opened with) or
in doubt; a doubt has no book and only a load ends it; what is saved while a screen
is open is in doubt. A screen that failed is *stuck*: it can only be touched, which
changes the active pips of a sure book (kept apart from its `records`) and nothing
else. `CombinedScreen` implements it under this map: a character
without an open journal has the book of what it is; one whose screen is open has
the book the screen found (its level and `opened`), whatever the preview has written
since; any other open journal is a doubt. `LevelIsTransaction` proves it from
`IInv` and `PipsInv`, one lemma per handler: a handler whose callbacks fail always
leaves a published journal or has changed nothing (`FailingFact`), a click on a stuck
screen is a touch (`UntrackedMaps`), a commit gives
the level of the book with its receipt (`CommitMaps`), a cancel puts `opened` back
(`CancelMaps`, from `CancelPips`), and a load finds in the saved character's
journal whether its book is sure (`LoadedMaps`). A preview that reaches the records
before its journal is published breaks the map: a failure would leave a changed book
that claims to be sure. What the map does not say: that a doubt is ever resolved,
since the code leaves that to the player.

**Old abilities.** `IInv` of `OldAbilitiesProofs` says of the living and of the
saved character that their books are right (`Books`: nothing twice, what was
earned is granted or queued, with no open journal not both, and an uncertain
delivery left one batch in doubt), what the handler under way may rely on at each
of its steps (`Doing`: the selections joined the queue; the delivery grants it from
the front, whole batches at a time) and what an open page or screen says of the
journal (`Shown`). The proof needs the arithmetic of whole batches, which
`AbilityAssumption` allows (`Batch` is not 0). Proved: `AbilitiesKept`, and
`RewardXpIsKept` with the saved pair. `RulesInv` adds that every pick on the page was
allowed when its predecessors are counted (`LegalPicks`) and that what a screen was
prepared with is what its journal will queue. Its lemmas show why the reduced
question of `CBMDHLA_CanChoose` is enough: the game counts a row by its maximum, so a
representative of each effect and the number of picks of the row itself decide, and
taking back the last pick of a row another does not need leaves the rest allowed.
Proved for any catalogue: `SelectionsAreLegal`.

**Scroll casts.** The run checks slices of the paths; the theorems are about all
of them together. `IInv` of `ScrollCastProofs` says: a scroll read while the
overrides are on has its reader's life (`Readers`); an effect's or a message's
context, level and true use agree (`ObjectOk`); a witness has a context only while
it is live (`KeysOk`), and one an action carries is that action's (`FieldOk`);
references are counted exactly (`Counted`), which is why a sweep retires no witness
that an action still needs; and a call's object stays while it runs and what a
cast captured stays true (`FrameOk`). None of the properties is inductive without
the others: a cast hands its captured context to the effects it makes, an effect
to the messages and actions it queues, and those to the next cast. The step proof
has a lemma per action over lemmas on what calls (`CallKeeps`), holders
(`HolderKeeps`) and actions (`ActionsKeep`) leave alone. Proved: `OwnershipIsExact`
(both directions), `LevelsAreReaders`, `NothingIsLeftBehind` and the action
property `NothingAfterTheLatch`, which excepts the one hook at work when another
thread set the latch (`late`) and says that the exception ends with the next step. `WorkingLevel` has no theorem: see Findings.

**Scroll archive.** The hard case is an envelope that outlives the process that
wrote it: a later process with the overrides off rewrites the effects and hands the
envelope on unread, and one after that must neither trust it nor lose what it still
says. `IInv` of `ScrollArchiveProofs` says: no two sprites share a life
(`Distinct`, with lives that only grow); a load that is being decoded is open once
(`ScopesOk`); the export under way describes its sprite (`ExportOk`); and, for each
character (`EachSound`), the ancestry of what it carries is that of its scroll
(`Belongs`) and is there when the effect is whole (`Kept`), an open load has what
the record gives it, and the last record's envelope (`RecordOk`) *tells* the truth
about the effects it was written with and is *complete* for those among them that
only processes with the overrides on have handled. Neither property is inductive
alone: what is owned tomorrow is what an envelope says today. `Tells` survives a
rewrite by other processes because an envelope handed on unread keeps the time at
which it was written, and the rewritten record has a later one (`Current` compares
the two); `Complete` survives it because effects handled there are no longer whole.
What live sprites and open loads and exports need holds while the overrides are on,
and any failure turns them off; what a record says holds always, since a later
process reads it. The step proof has a lemma per action. Proved, from
`ScrollArchiveAssumption` alone: `OwnedAncestryIsTrue` and `AncestryIsKept`. TLC
checked every part of `IInv` except the types (their sequences are unbounded) on
the run's instance first.

Only model-checked:

- liveness under fairness (`EffectsResolve`) and ENABLED, which are beyond the prover.
  There are no recursive operators; `Settling` is a recursive function.

Every other property of a passing run is a theorem but `WorkingLevel` of the casts
on one sprite, which holds only on that slice (see Findings).

## Plan

1. Coordinator and its promise, with proofs: done.
2. Account arithmetic and its life, with proofs: done.
3. Bridges with identity, journals and saves, with proofs: done.
4. `ScrollCast` and `ScrollArchive`, with proofs: done.
5. `DualReset`, `HookHost`, `CombinedScreen`, `OldAbilities` and `OldClassRules`,
   with proofs: done.
6. Open: owned party SETs in `XpBridge`, `CampaignPhase`, `Notices`, the bank's own
   bootstrap, character files, contingency and repeating effects.
7. Proofs of the coordinator, the account, the bridges, the hooks, dual-classing, the combined
   screen, the ability queue, scroll casts and the scroll archive: done.
8. `OldPipsKept` and `CancelRestores`, by an induction over the records, and the
   refinement of `LevelScreen`: done.

Abstract specifications worth stating next: an atomic bank (`CampaignAccount`'s
steps) implemented by `XpBridge` for one actor; at-most-once delivery implemented
by the ability queue.

## Not modelled

Menus, rows, codecs, offline builders, installers and build tools: they keep no
state that two steps could disagree about, or they are pure input and output. The
bytes of relays and unwind tables, the certification of the game binary and the
layout of engine objects are what the hosts check against the installed game, not
behaviour of the program. The prototype store and dual account are not installed.
