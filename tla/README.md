# TLA+ models of the Lion microkernel core

`crates/lion-core` is a capability microkernel written as a sequential state
machine: a `Kernel` owns one `State`, and every operation is a step on it. This
directory models that state machine, checks it with TLC on small instances and
proves the central properties with TLAPS for every instance.

The code runs single-threaded under `&mut self`. What is hard about it is not
locking but *order*: authorization tokens are built against one state and
executed against a later one; the same operation exists twice, in a pure form
(`execute`) and in an in-place form (`execute_mut`), over redundant data
structures; and callers (senders, receivers, node executors, supervisors)
interleave freely.

## 1. Inventory

| Component | Source | State | Operations | Status |
|---|---|---|---|---|
| Capability table | `state/kernel.rs`, `types/capability.rs`, `kernel.rs`, `state/state.rs` | `caps`, `children_index`, `next_cap_id`, `held_caps` | `register_plugin`, `insert_cap_raw`, `delegate_cap`, `revoke_cap`, `Step::CapRevoke` (two paths) | `Capabilities` |
| Kernel steps and authorization | `step/mod.rs`, `step/authorization.rs`, `step/host_call.rs`, `step/plugin_internal.rs`, `step/kernel_op.rs` | outstanding `Authorized` tokens, plugin level, accepted messages | `host_call_atomic`, `execute`/`execute_mut` of every `Step`, the host functions | `Kernel`, `System` |
| Resource history | `state/memory.rs`, `state/state.rs` | `resources`, `freed_set` | `alloc`, `free` (two paths) | `Kernel` |
| Plugin state | `state/plugin.rs` | level, handles, memory account | quota check, accounting, region checks | `Capabilities`, `Kernel`, `System`, partly |
| Actor runtimes | `state/actor.rs`, `step/kernel_op.rs`, `step/plugin_internal.rs` | `pending`, `mailbox`, `capacity`, `blocked_on` | insert, enqueue, `RouteOne`, consume, block, `UnblockSend` | `Actors`, `MessageQueue`, `System` |
| Workflow instances | `state/workflow.rs` | node states, counters, retries, status | `start_node`, `complete_node`, `fail_node`, `apply_timeout`, `WorkflowTick` | `Workflow` |
| Seals and keys | `state/kernel.rs` (`KeyState`), `crypto.rs` | current and previous key, epochs | seal, verify, rotate, `clear_previous` | `Keys` |
| `KernelStateCore` / `kernel_dispatch` | `state/kernel.rs` | a second capability state machine with metadata, keys and clock | dispatch of six requests | `KernelCore` |
| Rights bitset | `types/rights.rs` | the bits of a word | constructors, set operations, tests, iteration | `Rights` |
| Linear memory | `state/memory.rs` | pages, bounds; private to a plugin | byte and range reads and writes | `LinearMemory` |
| Policy decisions | `types/policy.rs` | the policy of the kernel | `eval`, `check`, the combinators | `Policy`, `Kernel` |
| Security levels | `types/security.rs` | none | a total order of four | numbers 0..3 in `System`, partly |
| Threads, runtime types, errors, extraction anchors | `state/thread.rs`, `types/runtime.rs`, `error.rs`, `extract_anchor.rs` | none | stubs (`NotImplemented`), wording | not modelled |
| Lean development, archived documents | `proofs/`, `archive/` | - | - | read as documentation |

How they interact: a host call names a capability; `host_call_atomic` checks it
against the table, the plugin's handles, the policy and the resource history,
and copies it into a token. Executing the token repeats the checks on the
current state and then changes the table (revoke), the history (alloc, free) or
the plugin (declassify, memory account). Freeing an address consults the table.
Actors have the id of their plugin; a plugin step consumes from the mailbox of
its own actor and is refused while that actor is blocked. `cap_send` looks at
the destination's mailbox and keeps nothing: the embedding has to enqueue what
was accepted. `kernel_dispatch` is a second way to run the capability table,
below a shell that approves requests beforehand. Workflows depend on nothing
but the clock.

What makes each part correct: authority is never amplified and never outlives the
revocation of an ancestor; no valid capability targets freed memory; an effect
needs a right that is live when it happens, not when the token was built; a step
touches nobody but its subject and shows nothing below its level; the pure and
the in-place executor do the same; messages are neither lost nor reordered; an
approval that is overtaken or repeated gives nobody more than it was meant to;
policies decide nothing that a missing answer could change; workflow bookkeeping
matches the nodes and a workflow without cycles ends; a seal verifies in its
window and never after. `PROJECT.json` lists the hazards behind these, each at
its line.

## 2. Modules

**`Capabilities`**. Sorted vectors searched by key become functions and sets.
Every action is one `Kernel` operation. `DelegateCap` and `DelegateCapFails`
split `delegate_cap` at the point where the id has been allocated: sealing
panics on the largest parent id, `Capability::new` rejects holder 0 and the
insertion may collide, and then the id stays consumed. `HasAncestor` is the
fuelled walk of the pure revocation, stated as the existence of a parent chain
of at most *k* links; `CollectDescendants` is the breadth-first walk of the
in-place one, stated as a least closed set. Two constants fix the environment:

* `RawInputs`: `insert_cap_raw` is public, "kernel-internal / test use only",
  and checks nothing but a collision. `"any"` lets it receive anything,
  `"roots"` only capabilities without a parent, at any id, handed to their
  holder, `"checked"` is what a careful caller ensures (the id is not ahead of
  the counter; a parent is older, valid and covers the new authority).
* `Paths`: which of the two revocation and free paths are used.

**`Kernel`** extends `Capabilities` with the resource history, plugin levels
and memory accounts, and tokens. A token keeps the copied capability, as the
code does, and may be executed any number of times, by any call that requires
the same action. Tokens come from `host_call_atomic`, which copies the table's
entry. `Authorized::validate_atomic` (`authorization.rs:258`) is public too and
takes any `Capability` value, which it compares neither with the entry of its id
nor with its seal; tokens made that way from a capability the caller built are
not modelled, and `TokensFresh`, `HostFreeRefused` and `EffectsMediated` say
nothing about them. `check_liveness` truncates the target to 64 bits, which
changes nothing for the actions of host calls, whose targets are 64-bit
arguments. The policy is the constant `Policy`, one of the fixed decisions
a `PolicyDecisionFn` can be (no policy of the code looks at the action). Of a
call's arguments only `args[0]` is read by any host function. `cap_send` and the
bounds checks of memory regions leave the kernel's own state alone; they are in
`System`. The default policy denies everything and can only be replaced inside
the crate: from outside no token can be obtained at present, by either function,
and the host-call actions describe the code as its own tests drive it.

**`System`** composes `Kernel` and `Actors` (an actor has the id of its plugin)
and models `Step` with its two executors, as different objects, because the code
writes them separately. `Execute(st)` is `Step::execute`: a function from the
record `Here` of the current state to a new record or `Err`, one operator per
function of the code; `KernelExecute` is `Kernel::execute`, which installs the
result (`Become`).
`ExecuteMut(st)` is `Step::execute_mut`: an action put together from the actions
of `Kernel` and `Actors`. `ExecutorsAgree` and `StepConfinement` compare the two
and look at what each can do with ENABLED, from every reachable state and for
every step, taken or not. All checks of `execute_mut` come before its first
change, so a refused step changes nothing and needs no action. `SystemInit` is
the state after boot: every plugin registered, every actor created, one resource
and one capability per plugin, independent or delegated from the first, with all
rights or only some; `SystemAssumption` asks that the id space and the allocation
bound have room for that boot. The messages of a host call's result have one
destination, so `SourcesFor` is either all of them or none. `outbox` and
`Forward` are the embedding, which enqueues accepted messages in order;
`accepted` is a history variable. Thread operations are steps that both executors
refuse. `SystemNext` has no guard of its own: either executor takes every step in
every state, direct frees of addresses that were never handed out included. Of
the operations of `KernelOp` it has those on actors and threads; `TimeTick` and
`WorkflowTick` change nothing that plugins, actors or capabilities have and are
actions of `Workflow`. The agreement of the executors is substantial for
revocation, allocation, declassification, plugin steps and routing, which
the two forms write over different update functions; of `cap_send`, `cap_call`
and the admission of a host call only the checks are at stake, the two texts are
the same and share operators here.

**`KernelCore`** models `KernelStateCore` and `kernel_dispatch`. It reuses the
table of `Capabilities` and `INSTANCE`s `Keys` for the key state, with the set of
seals in the table as `minted`. `kernel_dispatch` checks a delegation for nothing
but an id collision; policy and authorization are the business of a shell outside
the repository. The shell of the model is careful when it approves, but between
approval and dispatch anything else may be dispatched, and a request may
be dispatched again. `Usable` is the conjunction of the core's queries
that a shell asks before it lets a capability be used. A plain "valid capabilities
have valid parents" does not hold of the core: a revocation that overtakes an
approved delegation leaves an orphan. `OrphansOvertaken` says that this is the
only way to get one, and `UsableEntitled` that an orphan gives nothing its
ancestors did not.

**`Policy`** has the combinators of `PolicyDecision` and builds a decision from
the answers of sources, of which some have not arrived and count as
`Indeterminate`. `known` is the decision from the answers at hand, `actual` the
one from all answers. `override_policy` is the one combinator that is not
monotone: an answer that arrives late for its first argument replaces a decision
already taken. `implies_policy` is weaker than Kleene's implication
(`Indeterminate` implies `Permit` is `Indeterminate`), which is harmless.

**`Actors`** and **`MessageQueue`**. `Actors` has one action per operation on an
`ActorRuntime`. `MessageQueue` is what the runtime promises: one FIFO queue per
actor. The refinement maps `queue` to `mailbox \o pending`; `consumed` is a
history variable. `pending_send` is left out: it has a setter and a getter, and
nothing reads it.

**`Workflow`** has one instance with every edge set over its nodes, because
`WorkflowDef::validated` accepts every edge set. Definitions built by the
unchecked `WorkflowDef::new`, whose nodes may repeat, are not modelled. The
counters are updated as `transition` does it, with saturation; `Measure` is the
saturating sum of the code, over `RetriesLeft`, the retries all nodes still have,
counted as a set of (node, attempt) pairs. `WorkflowTick` requires a running
workflow and changes nothing. Only the end of a node updates the status, so a
definition without nodes stays `Running`; `DagTerminates` is about definitions
that have one.

**`Keys`** models `KeyState`. HMAC-SHA256 is external and taken as injective in
key and data; the serialization of the parent (0 for none, id + 1 otherwise) is
modelled as it is. Rotation may reuse a key value: nothing in the code forbids
it.

**`Rights`** and **`LinearMemory`** are data types. `MC_Parts` checks them
together with `Actors`, `Keys` and `Policy`; the five share no state, so each
behaviour exercises one of them and leaves the others alone. Fairness is that of
`Actors`, which demands nothing where there is no actor. Rights and memory each keep a history
variable with the mathematical value (a set of rights, a flat map of bytes) that
the operations update as their documentation says, beside the representation that
the code updates: the bits of a word, of which some are no right, and a sparse
map of pages, read and written in chunks. `write_mut` and `write_range_mut` are
public and check no bounds; the position of the latter wraps at the top of the
address space in a release build (a debug build panics), and so does the model. A
word of `Rights` is the function from bit numbers to bits; `Decrement` propagates
its borrow, so that `remaining & (remaining - 1)` is computed as in the code and
not assumed to clear the lowest bit. The loops of `to_vec`, the iterator,
`read_range` and `write_range_mut` keep their rounds: each has its loop state, an
operator for one round (`ToVecRound`, `IterNext`, `ReadChunk`, `WriteChunk`) and
the sequence of states that **`Loops`** builds from it; a round is only taken
while the loop condition holds, and the state after as many rounds as there are
bits or bytes is the one the loop ends in. `MemoryAssumption` asks that the
address space be a whole number of pages (2^64 and 4096) and the data of one call
shorter than it, as every slice is.

Operators whose comment starts with "Mutant" are deliberate faults; each is
used to show that a property can fail.

`MC_*` modules and `.cfg` files instantiate the modules for TLC.
`CapabilitiesProofs`, `KernelProofs`, `SystemProofs`, `KernelCoreProofs`,
`WorkflowProofs`, `ActorsProofs`, `SealsAndPolicyProofs` (about `Keys` and
`Policy`) and `DataProofs` (about `Rights` and `LinearMemory`) hold the theorems.

## 3. Runs

| Run | Expect | Properties | Bounds |
|---|---|---|---|
| `caps_checked` | pass | `CapTypeOK`, `ParentLt`, `RevocationPathsAgree`, `AuthorityConfined` | 4 ids, so chains of three delegations; 2 resources, 2 rights, 1 plugin |
| `caps_roots` | pass | `IndexConsistent`, `AuthorityConfined`, `HandlesSound`, `RevocationPermanent` | 3 ids, 2 plugins, 2 rights; roots at any id |
| `caps_roots_pure` | violation | `RevocationPathsAgree` | as above with the pure path |
| `kernel_memory` | pass | `KernelTypeOK`, `NoDangling`, `TokensFresh`, `HostFreeRefused`, `ResourceLifecycle` | 3 ids, 2 addresses, 1 token, both paths |
| `system` | pass | `StepConfinement`, `ExecutorsAgree`, `QuotaSound`, `MailMediated`, `EffectsMediated`, `ResourceLifecycle` | 2 plugins on different levels, one of them an actor with a mailbox of 1; 2 capabilities, 1 token, 2 messages, 3 addresses; sizes up to the word limit 3 = quota; a region that overflows and an empty one at the end |
| `kernel_core` | pass | `UsableEntitled`, `OrphansOvertaken`, `UsabilityFinal` | 3 ids, 2 plugins, 2 rights, 2 keys, 2 rotations, 1 approved request |
| `kernel_free_paths` | violation | `FreePathsAgree` | 1 address |
| `workflow` | pass | `WfTypeOK`, `CountersExact`, `DependencyOrder`, `StatusSound`, `MeasureDecreases`, `DagTerminates` | all 512 edge sets over 3 nodes, 1 retry each (2 asked for, capped); the smallest word in which the measure fits |
| `workflow_cycle` | violation | `ValidatedTerminates` | 2 nodes |
| `workflow_timeout` | violation | `TerminalIsFinal` | 2 nodes |
| `workflow_measure` | violation | `MeasureAlwaysDecreases` | 2 nodes, the timeout at the largest number |
| `parts` | pass | `ActorsTypeOK`, `MailboxBounded`, `RefinesMessageQueue`, `EventuallyConsumed`, `WordRepresentsSet`, `QueriesMatchSets`, `PagesRepresentBytes`, `RangeReadsMatchBytes`, `GraceWindow`, `SealBindsPayload`, `MissingAnswersDecideNothing`, `ExpiryIsFinal` | 2 actors, 2 message contents, 3 sends each, capacities 0..2; 4 rights in a word of 6 bits, slices of up to 2 rights; 3 pages of 2 bytes, up to 4 bytes per write, every bound; 4 rotations, 2 keys, 3 capabilities; any number of policy answers |

Why the bounds suffice. Three links of delegation are what it takes for the
direct-parent check of `check_validity` to differ from a check of the whole
chain, and for the fuel of the upward walk to matter beyond the first link. Two
addresses are what it takes for an allocation to land next to a freed one. One
outstanding token is enough because tokens do not interact: a step never reads
another token. In `system` the word limit equals the quota, so every sum that
overflows is tried; two messages are one more than the mailbox holds, so that an
accepted message meets a mailbox that has filled up in between; a second actor
would add only deliveries that never meet. In `kernel_core` three ids are a chain
of two delegations, so that a revocation has a grandchild to miss; one approved
request is enough, since requests meet only in the table; two rotations let a key
return; and one level is enough, since levels decide nothing in the core. Three
nodes give every dependency shape in which two predecessors or a chain of two
matter. `MaxWord` of `workflow` is the least that `MeasureFits` allows, so the
measure's sums reach it and no less would do. Pages of two bytes and writes of
four make a range that starts unaligned touch three pages; two spare bits in the
word are what an unmasked operation would set. Three messages overfill a mailbox
of capacity 2 by one. The safety properties of `Capabilities`, `Kernel`,
`System`, `KernelCore`, `Workflow`, `Actors`, `Keys`, `Policy`, `Rights` and
`LinearMemory` are proved without any bound (section 4; the two of `System` that
speak of ENABLED in a form without it); liveness is not.

Symmetry (over rights and key values) is used only in runs without liveness.

`CHECK_DEADLOCK FALSE` is set where the system may stop: when the id space and
the allocation bound are exhausted, or all nodes of a workflow are terminal.
Actors can always be blocked and unblocked, keys can always be cleared and
answers always begun anew, so `parts` checks deadlock.

Fairness. The crate contains no scheduler; it states operations that an
embedding drives. `WfFairness` says that the embedding starts a node that stays
ready and that an active node reports completion or failure; nothing is
assumed of timeouts or the clock, and a failing node may fail for ever.
`ActorsFairness` says that the router routes, that `UnblockSend` is issued
again and again, and that a receiver that is runnable again and again (not
continuously: it may be blocked in between) takes its step. These are
obligations of the embedding, recorded here because without them nothing
happens at all.

### What the violations show

* `caps_roots_pure`: the fuel of `has_ancestor` is the id of the capability.
  Insert a root with a large id through `insert_cap_raw` and delegate it: the
  child has a smaller id than its parent (or id 0 and no fuel at all), and
  `execute(CapRevoke)` leaves it valid, while `revoke_cap` and `execute_mut`
  revoke it. The comments promise the same effect.
* `kernel_free_paths`: `execute(MemFree)` accepts an address that was never
  allocated, `execute_mut` refuses it; the comment says the validation is
  identical. As a consequence an address may be dead before it is allocated, and
  `alloc`, which takes the number of entries as the next address, hands it out
  all the same: `AllocIsLive`, proved for the in-place path alone, is false of
  `execute`. That it stays dead, whichever executor freed it, is part of
  `ResourceLifecycle`.
* `workflow_cycle`: a cyclic definition validates and never ends.
* `workflow_timeout`: after `apply_timeout` nodes still run and the last
  completion turns `Failure` into `Success`; the Lean comment calls a timeout
  terminal.
* `workflow_measure`: the measure saturates at `u64::MAX`, so with a timeout
  there, the natural way to say "none", starting a node leaves the measure
  unchanged; the comment says that every step lowers it. `MeasureDecreases` of
  the run `workflow` says the same under `MeasureFits`.

Some smaller observations of the same kind follow from the model and have no
run of their own: `delegate_cap` can fail with `CapIdCollision` ("should not
happen") after a raw insertion at the counter's value (third disjunct of
`DelegateCapFails`); the pure free keeps the owner's entry, so
`resource_integrity` of a freed address is its former owner's level;
`execute_plugin_internal` looks at the first byte of each write a second time and
so refuses an empty write at the very end of the memory, which the precondition
accepts; a workflow without nodes stays `Running`; and `kernel_dispatch` consumes
the core and an error does not give it back, so a shell has to keep a copy.

## 4. Theorems

All are statements about the specification for every value of the constants
that satisfies the named assumptions.

* `CapabilitiesProofs`: `TypeCorrect`, `IndexCorrect`, `RevocationIsPermanent`
  for every `RawInputs` and `Paths`; `Confinement` when the raw insertions are
  `"checked"`, or `"roots"` with the in-place path only; `ParentsAreOlder` and
  `PathsAgree` when they are `"checked"`. The inductive invariant `ConfineInv`
  joins the types, the index, the confinement of each single parent link and,
  for checked inputs, that ids stay behind the counter and parents are older.
  Confinement along a whole chain follows from the links because the set of
  capabilities confined by an ancestor is closed under the index, and
  `CollectDescendants` is the least closed set. It survives revocation because
  the revoked set is closed under children: immediate for the downward walk;
  for the upward walk this needs `ParentLt`, and the agreement of the two walks
  is proved by taking the least descendant the upward walk would miss
  (well-foundedness of `<` on the naturals).
  `HandlesCorrect` holds unless a raw insertion hands a capability to someone
  other than its holder.
* `KernelProofs`. `KernelImplementsCapabilities`: every kernel step is a step of
  `Capabilities` or leaves its variables alone, so the theorems above hold of
  the kernel. `TemporalSafety` (checked raw insertions): a delegated capability
  has the target of a valid parent, and a free looks at every valid capability.
  `CompleteMediation` and `EffectsAreMediated` (same hypothesis as
  `Confinement`): a token's copy and the table's entry differ at most in
  validity (`TokensFaithful`), because the table never changes an entry but to
  invalidate it; so the checks on the copy are checks on the entry, and the
  validity of the entry carries over to all its ancestors by confinement,
  although the code looks at the direct parent only. `HostFreeNeverSucceeds`
  needs only `TokensFaithful`. `AddressesAreNeverReused`: the addresses handed
  out are an initial segment of the numbers (`Contiguous`), so the number of
  entries is a new address. `QuotasHold`: the account equals what was granted,
  and an unregistered plugin was granted nothing, so registration, which resets
  the account, forgets nothing. `KernelTypeCorrect` holds for every instance;
  it covers the tokens, with the action and the copied capability in them, and
  what was granted.
  `AllocatedIsLive` needs that `"pure"` is not among the `Paths`: then only
  addresses that were handed out are freed (`FreedWereHandedOut`), and the next
  address is not one of them. With the pure path it is false (section 3,
  `kernel_free_paths`).
* `SystemProofs`. The inductive invariant `SystemInv` has three parts. The
  kernel's (`KernelPart`): after boot the table is confined along its links,
  parents are older, and no id is left to hand out, so the table only ever loses
  validity; tokens are faithful copies; the addresses handed out are an initial
  segment of the numbers; accounts are exact. The actors' is the invariant of
  `ActorsProofs`. The mail's (`MailInv`): what was accepted for an actor is what
  it consumed, then its mailbox, then its pending queue, then its outbox, in this
  order; every step only moves a boundary. `BootTableInit` shows that every boot
  establishes it. `ExecutorsCoincide`: in every state of the invariant, and for
  every next state, `execute_mut` leads there exactly when `execute` does. The
  one case that needs more than reading the two texts is revocation, where the
  pure form walks up with fuel and the in-place one walks down; they agree
  because of `ParentLt`. A direct free is left out, because there they differ.
  `StepsAreConfined` says what such a pair of states may differ in. These two are
  `ExecutorsAgree` and `StepConfinement` with the next state universally
  quantified instead of under ENABLED; `ExecutorsAlwaysAgree` and
  `StepsAlwaysConfined` state them along executions. `MailIsMediated`,
  `SystemEffectsMediated`, `SystemQuotasHold` and `SystemAddressesNeverReused`
  are the properties of the run `system`; the last one covers direct frees
  through either executor, also of addresses that were not handed out yet.
  `SystemTokensFresh`, `SystemTemporalSafety` and `SystemImplementsQueue` carry
  the main theorems of `Kernel` and `Actors` over to the composition. All of them
  assume `Paths # {}`, that is, that at least one executor is used.
* `KernelCoreProofs`: `RevocationMissesOnlyOvertaken`, `UseIsEntitled`,
  `UseIsLostForGood`. `TableInv` says that every link of the table *and of every
  approved request* has the target of its parent and no further right: requests
  are dispatched late and more than once, so what is known of them has to
  survive in the meantime, which it does because entries are never replaced.
  Entitlement along a chain then follows as in `Confinement`. `SealInv` says the
  same of seals: in the table and in requests a seal carries the tag of the key
  of its epoch for as long as that key is known, so it verifies exactly in its
  window, and the window of an epoch never reopens.
* `WorkflowProofs`: `WorkflowTypeCorrect`, `CountersAreExact`,
  `DependenciesRespected`, `StatusTellsOutcome`. They form one invariant,
  because the code decides on the counters alone whether a workflow has ended:
  the status is sound only if the counters are exact, which rests on the
  cardinalities of the sets of nodes in each state as one node moves between
  them. `NodeStepsAreFinite` proves `MeasureDecreases`, which has the condition
  `MeasureFits`: the timeout and a thousand per node and per retry fit the word.
  Without it the saturating sum may stand still (`workflow_measure`).
* `ActorsProofs`: `ActorsTypeCorrect`, `MailboxesBounded`,
  `ActorsImplementQueue`. The invariant adds to the types that an absent actor
  has an empty mailbox, without which inserting an actor with capacity 0 could
  break the bound. The refinement rests on three facts about concatenation:
  moving the head of `pending` to the end of `mailbox` keeps
  `mailbox \o pending`; appending to the second part appends to the whole; the
  head and the tail of the whole are those of the first part.
* `SealsAndPolicyProofs`, seals: `GraceWindowHolds`, `SealsBind`, `ExpiryHolds`.
  The invariant says that the previous key and its epoch are kept together, one
  epoch back, and that a minted seal is under the key of its epoch while that key
  is known. The windows of two epochs never overlap a third, which is why a
  reused key revives nothing.
* `SealsAndPolicyProofs`, policies: `PartialAnswersDecideNothing`. The invariant
  adds the types to it: while nothing was overridden, the decision at hand is the final
  one or `Indeterminate`. Every combinator but `override_policy`
  keeps it, being monotone in what is known.

* `DataProofs`: `WordIsSet`, `QueriesAreSets`, `PagesAreBytes`,
  `RangeReadsAreBytes`, for words and pages of any size. What a loop computes is
  shown by its invariant, and that needs induction over its rounds. The library's
  induction rules take an operator as a parameter, so the module has its own rule
  about a *set* of numbers, `SetInduction` (a number outside the set would have a
  least one, `LeastNumber`, from the well-foundedness of `<`), and from it
  `RoundsFacts`: a loop whose body keeps to a set of states starts in its start
  state and every round applies the body. `RightsInv` joins the type of the word
  with `WordRepresentsSet`; every operation acts on each bit separately.
  `LowestBit`: a decrement with its borrow and the conjunction clear the lowest bit
  and no other. `VecRoundInv`: after *n* rounds the list is ordered, holds exactly
  the rights below the lowest bit that remains, and no bit below *n* remains; so
  the word is 0 after `WordBits` rounds. The iterator goes through the same
  states, as no bit outside the rights is set (`InStep`). `MemInv` joins the
  types with `PagesRepresentBytes`. `ChunkAddresses`: the addresses of a chunk are
  exactly those of its page at its offsets. `WriteRoundInv`: after *n* rounds the
  first `srcOff` bytes of the data are at the `srcOff` addresses that follow the
  start, counted with the wrap at the top (`DistanceFrom`), every other byte is
  the old one, and `srcOff` is at least *n* or the whole length; the step rests on
  `ChunkDistances`, that the next chunk is the next stretch of distances, and this
  is where the data has to be shorter than the address space: otherwise a range
  would overwrite its own beginning. `ReadRoundInv`: the result is the flat map
  from the start up to `pos`.

Only model-checked, because out of the prover's reach: liveness under fairness
(`DagTerminates`, `EventuallyConsumed`, `ValidatedTerminates`), and the ENABLED
form of `ExecutorsAgree` and `StepConfinement`, whose content without ENABLED is
proved.

## 5. Plan

1. done: `Capabilities`, `Kernel`, `Workflow`, `Actors` with `MessageQueue`,
   `Keys`, `Policy`, the data types `Rights` and `LinearMemory`, the composition
   `System` and `KernelCore`.
2. done: theorems for every module: the safety properties of every component,
   the types of `Kernel`, the invariant of `System` from boot on, the agreement of
   the executors, the mediation of mail, and the loops of the two data types.
3. left to TLC: liveness and the ENABLED forms, as said above. The two forms are
   kept as invariants and not restated as action properties because they also
   cover steps that change nothing, of which the executors accept some, and
   because TLC would have to try every step on every transition instead of in
   every state.

## 6. Not modelled

Threads and the scheduler beyond the refusal of their operations (every one
returns `NotImplemented`); error wording, `Display`, serde, parsing of names,
extraction anchors; capability and IPC quotas of a plugin, `alloc_memory` and
`free_memory` (no kernel operation uses them); `join` and `meet` of levels;
`PolicyContext` (no policy reads it); `pending_send` (nothing reads it);
`WorkflowDef::new`, `Authorized::validate_atomic` called with a capability other
than the table's, `RevocationState::revoke` (no kernel operation calls it);
accessors. No kernel step writes a plugin's linear memory, so `LinearMemory`
stands beside the system. `memory_used` is never lowered, and no line of the
repository says it should be, so no property asks for it. The Lean proofs are a
separate development about the same design and are not checked here.
