# Verification of libossia

libossia is the engine of ossia score. It plays an interactive score (`editor`),
computes the data-flow graph of each tick (`dataflow`), and exchanges the values
of a tree of parameters with other software and hardware (`network`,
`protocols`). This directory holds TLA+ models of parts of it, configurations
that check them with TLC on small instances, and proofs checked by TLAPS.

Paths below are relative to `src/src/ossia/` unless they start with `src/`.

1. [Inventory](#inventory)
2. [What is modelled](#what-is-modelled)
3. [Runs, bounds and results](#runs-bounds-and-results)
4. [Fairness](#fairness)
5. [Proofs](#proofs)
6. [Findings and observations](#findings-and-observations)
7. [What is not modelled](#what-is-not-modelled)
8. [Plan](#plan)

## Inventory

### Score (`editor/`)

| component | state | operations | what must be right |
|---|---|---|---|
| **Scenario** `scenario/detail/scenario_execution.cpp`, `scenario_sync_execution.cpp`, `scenario_sync_musical_execution.cpp`, `scenario.cpp`, `time_sync.cpp`, `time_event.cpp`, `time_interval.cpp` | the status of each event; the date and `m_running` of each interval; the flags of each sync and its atomic `trigger_request`; the sets of running intervals, waiting syncs, syncs to look at; overticks; dates computed for quantized triggers | `start`, `stop`, `state` (one tick), `request_start_interval`, `request_stop_interval`, `start_trigger_request` | a tick is shared exactly between the intervals it goes through; intervals run between their events; no click is lost; the tick ends; quantized triggers fall on the grid; an exclusive scenario plays one thing at a time |
| **Backward playback, transport, offset** `scenario/detail/scenario_offset.cpp` | the same | `run_interval_backward`, `transport`, `prepare_offset`, `process_offset` | a jump leaves the state that playing would have produced |
| **Clock** `scenario/clock.cpp` | `m_running`, `m_paused`, dates, a thread | `start_and_tick`, `stop`, `pause`, `resume` | the thread ends, can be started again, and does not race with the control thread |
| **Loop** `loop/loop.cpp` | one interval between two syncs | `start`, `stop`, `state` | a turn ends and the next one begins in the same tick |
| **Expressions, states, curves** `expression/`, `state/`, `curve/`, `automation/` | observation flags of atoms; pulses | evaluate, observe | an observed pulse is seen once |

### Execution of the graph (`dataflow/`)

| component | state | operations | what must be right |
|---|---|---|---|
| **Data-flow graph** `graph/graph.hpp`, `graph_utils.hpp`, `graph_static.hpp`, `graph_ordering.hpp`, `graph_node.*`, `graph_edge.hpp` | nodes, edges, tokens of the tick, enabled and executed flags, the sorted list of nodes, delay buffers of edges | add and remove nodes and edges, mute, `state` (one tick), `disable_strict_nodes_rec`, `init_node`, `teardown_node`, the commit | each enabled node executes once per tick, after what feeds it; strict connections stop a node when the other end stops; a value arrives once, by a cable or by an address; a delay line is a queue |
| **Task pool and parallel executor** `exec_pool.hpp`, `graph/graph_parallel_impl.hpp` | two lock-free queues, an epoch to sleep on, a stack of tasks per thread, dependency counters | `submit`, `submit_owner_only`, `corun_until`, `fork_n`, `run`, `process_done`, the destructor | each node once, in order, on a thread it may use; no lost wake-up; no deadlock through nested joins |
| **Execution state and ports** `execution_state.*`, `port.*`, `value_port.hpp`, `audio_port.hpp`, `midi_port.hpp` | local values of the tick, messages to send | `begin_tick`, `find_and_copy`, `commit` | a commit sends each written value once |
| **Token requests** `token_request.hpp` | none | dates of one tick, quantization points | conversions of dates at boundaries |
| **Nodes** `nodes/` | buffers of samples and values | `run` | signal processing |

### Utilities (`detail/`)

| component | state | operations | what must be right |
|---|---|---|---|
| **Triple buffer** `triple_buffer.hpp` | three slots, one atomic word | `produce`, `consume` | the two threads never use the same slot; the consumer never goes back in time and gets the last value |
| **Callback container** `callback_container.hpp` | list of callbacks | add, remove, `send` | the first and the last callback switch the observation on and off |
| **Queues and pools** `lockfree_queue.hpp`, `buffer_pool.hpp` | wrappers of `moodycamel` queues | enqueue, dequeue | external |

### Network (`network/`, `protocols/`)

| component | state | operations | what must be right |
|---|---|---|---|
| **Node tree** `base/node.cpp`, `base/device.*`, `generic/*.cpp` | children of each node under a lock, signals | add, remove, rename, clear, destruction of the device | names stay unique; a node outlives what is below it; nobody keeps a removed node |
| **Parameters** `generic/*.cpp`, `base/parameter.*` | value, previous value, domain, callbacks | `set_value`, `push_value`, `observe`, ... from several threads | the device, the parameter and the callbacks agree on the last value |
| **Parameter index** `common/device_parameter_index.hpp` | path → parameter, a lock per entry | changed on signals of the tree, read by protocol threads (`apply`) | agrees with the tree; a parameter does not die under a callback |
| **Message queues** `base/message_queue.hpp`, `base/bundle.hpp` | registered parameters, a queue | `reg`, `unreg`, `try_dequeue` | no message of a removed parameter |
| **Rate limiter** `rate_limiting_protocol.*` | three maps of pending messages, a thread | `push`, the rounds of the thread, the destructor | order, nothing lost but what is superseded, the thread ends |
| **Local device** `local/local.cpp` | list of exposed protocols | `push`, `observe`, echo, `expose_to`, `stop_expose_to` | a change goes to all protocols but the one it comes from; a protocol listens to what has callbacks; nobody waits forever |
| **OSC, OSCQuery, Minuit** `osc/`, `oscquery/`, `minuit/` | clients, subscriptions, requests without an answer | packets in and out | subscriptions follow the clients; a mirror agrees with its server |
| **Sockets, framings, HTTP, zeroconf, context** | sockets, partial frames | bytes in and out | a frame is decoded however the bytes arrive |
| **Other protocols** `protocols/` | hardware drivers | | |
| **Audio engines, presets, math expressions, bindings** | | | |

### How they interact

* The audio callback (or the clock's thread) calls the tick function, which calls
  `scenario::state` on the **execution thread**; the intervals and processes that
  play leave token requests in the nodes of the graph.
* The execution thread then runs the graph, either alone or with the **worker
  threads** of the task pool. Nodes read and write the execution state, whose
  commit calls `push_value` on parameters.
* A parameter sets its value and calls the protocol of its device, which may be a
  rate limiter with a **thread of its own**. **Network threads** set values from
  outside, and call callbacks; they find a parameter by its address in the index of the
  device, while another thread edits the tree.
* The **control thread** (the user interface) clicks on triggers by raising atomic
  flags (`trigger_request`). The other operations of a scenario touch plain fields and
  belong on the execution thread, between two ticks.

The hard behaviours: the order in which one pass of a tick visits syncs and
intervals, which is that of their addresses; requests of another thread in the
middle of a tick; the tasks that a waiting thread runs on top of the one that
waits; a thread that goes to sleep while another submits a task; a protocol that
throws in the middle of a round; values set by several threads at once. The list
with line numbers is `hazards` in `PROJECT.json`.

## What is modelled

    ScenarioGraph  <-  Scenario  <-  ScenarioProperties  <-  MC_Scenario, ScenarioProofs
    TaskTree  <-  TaskPool  <-  TaskPoolProperties  <-  MC_TaskPool, TaskPoolProofs
         \---------- NestedDag (abstract) ----/
    Dataflow  <-  DataflowProperties  <-  MC_Dataflow, DataflowProofs
         \---------- DelayLines (abstract) ---/
    DeviceTree  <-  DeviceTreeProperties  <-  MC_DeviceTree, DeviceTreeProofs
    LocalDevice  <-  LocalDeviceProperties  <-  MC_LocalDevice, LocalDeviceProofs
    LatestValue (abstract)  <-  TripleBuffer  <-  TripleBufferProofs
                            <-  RateLimiter   <-  RateLimiterProofs
    IntervalLemmas  <-  ScenarioProofs, DataflowProofs, DeviceTreeProofs

In each module a definition that a comment calls a *mutant* is a plausible bug of
the definition that follows it. Mutants are not part of any specification; each
property is known to reject at least one of them.

### Scenario

`ScenarioGraph` is what the score is: syncs, events, intervals, durations, speeds,
triggers, conditions, rates and roots, with `Component`, the traversal of
`reset_component`. `Scenario` executes it. `ScenarioProperties` says what is
expected.

Everything but `trigger_request` belongs to the execution thread, so a tick is cut
into steps only where the thread reads or clears such a flag, and where a loop may
take its elements in any order (the `flat_set`s are ordered by address). `pc` holds
the loop being run, what it has left to visit, and the sync that `process_this` is
busy with.

| model | code |
|---|---|
| `Start`, `Stop` | `scenario::start`, `stop` |
| `StartTriggerRequest` | `time_sync::start_trigger_request`, another thread |
| `RequestStartInterval`, `RequestStopInterval` | the same names, between two ticks |
| `BeginTick` | the head of `state_impl` |
| `VisitRoot`, `RootsVisited` | the loop over the root nodes, with the autotriggers and `reset_component` |
| phases `waiting`, `start`, `stop`, `musical`, `run`, `propagate`, `sync` | the loops of `state_impl` in their order, the last two being the do-while loop |
| `VisitSync`, `CheckReady` | `is_timesync_ready` and the first half of `process_this` |
| `Quantize`, `TriggerAtMax`, `NotTriggered`, `Triggered` | the decision in `process_this` or `process_this_musical`: maximum reached, expression or request, quantization |
| `TriggerSync` | `trigger_sync`: `make_happen`, `make_dispose`, what stops, what starts, `sync.reset` |
| `VisitRunning`, `VisitNext`, `RunInterval` | `run_interval` and the sharing of the rest of a tick through `m_overticks` |
| `VisitToStart`, `VisitToStop` | the loops over `m_itv_to_start` and `m_itv_to_stop` |

Abstractions. Dates are integers. An expression is one of three kinds: constantly
true, constantly false (only a click triggers the sync) or observed, which may
become true at any moment. The condition of an event is a free choice when the sync
executes (`happened`). Quantization is one grid point per tick, or none, shared by
all the rates. Speeds are constant integers (no tempo curve). Processes inside the
intervals are not called; what their start, stop and ticks depend on is
`itv[i].running` and `itv[i].date`. Conditions and play buttons are not mixed
(`ScenarioAssumption`): an event that a button made happen and that is then disposed
makes `make_dispose` throw. At most one request to start and one to stop an interval wait
for the next tick, a bound. The flags that `state_impl` clears once more after its loop over the
syncs (line 550) are cleared in `TriggerSync`.

### Task pool and parallel executor

`TaskTree` is the work: a tree whose root is a call of `executor::run`, whose second
level is the graph with its edges, and whose other tasks are the slices of
`fork_n`. `NestedDag` is the promise: in each run a task executes once, after its
predecessors, and a task that forks ends after what it forked. `TaskPool` is the
code, one action for each atomic operation; a thread has a *stack* of tasks since
`corun_until` executes tasks on top of the one that waits.

| model | code |
|---|---|
| `Run`, `ForkN`, `Fork` | `executor::run` and `fork_n`: counters, then the list of tasks to submit |
| `SubmitNext`, `Submit` | `executor::enqueue`, `task_pool::submit`, `submit_owner_only` |
| `EndBody` | the end of the function of a node (`execute`) |
| `Release`, `Finish`, `Joined` | `process_done`: decrement of successors, then of the batch; the return of `corun_until` |
| `Wake` | `m_epoch.fetch_add` and `notify_all` |
| `Continue`, `TakeOwned`, `Take`, `FindNothing`, `ReadEpoch`, `Wait`, `Exit` | the loops of `worker_run` and `corun_until`: test, try, read the epoch, test and try again, wait |
| `Shutdown` | `~task_pool` |

Abstractions. Atomic operations are sequentially consistent; the acquire and release
orders of the code give this for what the loops rely on, because the epoch is
incremented after each enqueuing and each last decrement. Of the 32-bit epoch only
*changed since this thread read it* matters (a wrap-around between a read and the
wait is ignored). Queues are sets: `ConcurrentQueue` orders tasks per producer only.
The shared queue may refuse a task at any time, which `submit` then runs inline; the
owner's queue refuses exactly when it is full. `fetch_add` and `notify_all` are one
step, and so are the decrement of a successor and its enqueuing. The body of a task
forks at most once. A node function that throws is caught and ends as any other. The
assertion on the depth of the stack (1024) is not modelled: the depth is bounded
here by the number of tasks.

### Data-flow graph

`Dataflow` is the graph of the nodes that a tick executes, alone on the execution
thread: the list of enabled nodes, in one of the orders that the sort may give, the
filter of the strict cables, then each node with what it reads and writes. `sched`
is the `scheduling` of `graph_setup_options`: the two static graphs walk through
`m_all_nodes`, `ossia::graph` looks for the best node that can execute.
`DelayLines` is the promise of a delayed cable: a queue that starts empty.

| model | code |
|---|---|
| `Connect`, `Disconnect`, `AddNode`, `RemoveNode`, `SetMute` | `graph_base::connect`, `disconnect`, `add_node`, `remove_node`, `set_mute`, between two ticks |
| `BeginTick` | the tokens that the processes of the score ask for, then the head of `state`: `sort_all_nodes` of a graph that changed, the enabled nodes |
| `Orders`, `AddressEdges`, `Path`, `SortedOrders` | `custom_topological_sort`, `tc_add_addresses`, `transitive_closure` (the relation it computes, as the least set that the edges do not leave), the three `UpdateImpl` |
| `DisableStrictNodes` | one round of `disable_strict_nodes_rec` |
| `CanExecute`, `SortsBefore`, `NextNodes` | `can_execute`, `node_sorter`, the loops of `graph::tick` and `graph_static::state` |
| `ExecNode` | `exec_node`: `Inputs` is `init_inlet` with its visitors, `MustWrite` is `env_writer`, the delay buffers are those of `init_node_visitor` and `teardown_outlet` |
| `FinishTick` | `finish_nodes` and the commit of the local values |

Abstractions. A node has one inlet and one outlet; a value is the pair of its writer
and its tick, so that the properties say where a value comes from and how old it is.
A node runs once in a tick, for its last token. Sorts choose among all the orders that
respect the edges, which includes the one that the depth-first search finds. `read`,
`asked` and `starved` are history. Explicit dependency edges, which the sort treats as
any immediate edge, and `clear()` are left out. The parallel executor is `TaskPool`,
whose `Before` are the immediate edges of this module.

### Node tree and index

`DeviceTree` has one thread that edits the tree of a device, the *editor*, and
*readers*, the threads of the protocol. The operations of the editor that go through
several nodes, call signals and take locks on the way are a stack of calls, each with
the stages of its `Plan`; a reader may run between any two of them. `kind` selects the
nodes: `generic_node`, which signals the removal of its parameter, or `wrapped_node`
(a tree described by a script), which does not.

| model | code |
|---|---|
| `Apply`, `Return` | `device_parameter_index::apply`: `visit()` holds the lock of the entry while the callback runs |
| `CreateChild`, `CreateParameter`, `RemoveParameter`, `Rename`, `RenameDevice` | `node_base::create_child`, `generic_node::create_parameter`, `remove_parameter`, `set_name`, with their signals |
| `RemoveChild`, `ClearChildren`, `ClearChild`, `ChildrenCleared` | `node_base::remove_child`, `clear_children` and its recursion |
| `Announce`, `Release` | the two halves of `remove_parameter`: `on_parameter_removing`, then the destruction |
| `Sweep`, `SweepEnds` | `on_node_removing`: the entries at or below the address, each under its lock |
| `Destroy` | the destructor of the node |
| `ApplyDeferred`, `AddDeferred`, `Built`, `Collect`, `Insert`, `Inserted` | `apply_deferred_device`, `wrapped_node::add_child`, `device_creation_notify_recursively`; the last three also `index_recursively` after a rename |
| `Clear` | `device_parameter_index::clear`, which waits for every callback |
| `Close`, `Teardown` | `stop()` of the protocol, the destructor of the device |

Abstractions. Nodes have a fixed place in the tree and are made once; names are model
values, and a name that `sanitize_name` makes is one that no sibling has. A pointer to
a parameter is the node with a number, so that a parameter that replaces another one is
told from it. A parameter and its index entry are made in one step, and the children
that `clear_children` moves out are detached one by one, which the properties do not
tell from the code. Each node of a script has data, hence a parameter. A callback is what happens
between `Apply` and `Return`. Values are left out. One thread edits the tree: the code gives no other guarantee (see the hazard at
`node.cpp:149`).

### Parameters, callbacks and multiplexing

`LocalDevice` composes the parameters of a device, the callbacks that the message queues of
several user threads register on them, and the protocols that a `multiplex_protocol` exposes
them through, each with its network thread. Two mutexes are held across calls: the one of
the callbacks of a parameter, while the first or the last callback switches its observation
(`CallbacksLocked`), and `m_protocols_mutex`, while a protocol is added or destroyed
(`ProtocolsLocked`). Both are read off what the threads are doing (`call`); the other
critical sections take no further lock and are one step.

| model | code |
|---|---|
| `PushValue`, `Notify`, `Push` | `generic_parameter::push_value`: `set_value` up to the release of its mutex, `send`, `multiplex_protocol::push` |
| `Receive` | `on_input_message`: whether the parameter is in `m_listening` decides how the message is applied |
| `Apply`, `Notify`, `EchoMessage` | `apply_incoming_message` and its quiet version: set, call back, `echo_incoming_message` |
| `RegAgain`, `Reg`, `Observe` | `message_queue::reg`, `add_callback`, `on_first_callback_added`, `multiplex_protocol::observe` |
| `UnregOnce`, `Unreg`, `Unobserve`, `EraseCallback` | `message_queue::unreg`, `remove_callback`, `on_removing_last_callback` |
| `ExposeTo`, `ObserveRec`, `Exposed` | `expose_to`: `set_device` of the protocol, `observe_rec` parameter by parameter, `push_back` |
| `StopExposeTo`, `Destroyed` | `stop_expose_to`: the destructor of the protocol joins its thread |

Abstractions. A protocol behaves like `oscquery_server_protocol`, with one client and the
thread of its OSC server: it applies quietly (`on_input_message<true>`) what it does not
listen to, and echoes what others received. `osc` never applies quietly and `minuit` does
not echo. `known` is the last value that went from or to the network of a protocol, `heard`
the last one that a queue got since its registration. Values have the type of their
parameter, without domain or repetition filter. `oscquery_server_protocol` first observes, in its
`set_device`, the parameters that have callbacks, before its threads start: `ExposeTo` leaves them to
the pass of `observe_rec`, so that the model has more behaviours. `ExposeTo` is called with a
protocol that supports multiplexing. Parameters stay; callbacks only enqueue;
patterns that match several nodes, `push_raw`, `stop` and `clear` are left out.

### Triple buffer

`TripleBuffer` splits `produce` and `consume` at each access to a slot and each
exchange of the atomic word. `LatestValue` is the atomic register that it
implements, `taken` being set at the consumer's exchange. `Swapping` selects the
generic variant, where the consumer's old value goes back into the slot. It is a
utility for embedders: nothing else under `src/src/ossia` uses it.

### Rate limiter

`RateLimiter` has `push` (atomic under its mutex), the steps of the thread (`Test`,
`Swap`, `Copy`, `PushOne`, `PushThrows`, `Clear`) and the destructor (`Destroy`).
Values are numbered in the order in which `push` gets them. Each parameter
implements a `LatestValue` register, from the caller to what the thread took. Time
has no length: a sleep may end at any time, which includes the zero sleep of an
overloaded thread. A `push` that begins after the destructor did is a use after
free and is excluded.

## Runs, bounds and results

`CHECK_DEADLOCK FALSE` is given where the system really stops: a destroyed pool,
limiter or device, a buffer whose last value was taken, and a graph whose bound of ticks
is reached, or threads that made all their calls or met one of the deadlocks of
`LocalDevice`. A scenario never stops: it can always be stopped and started again, so there
deadlock is checked.

| run | instance | shows |
|---|---|---|
| `scenario_chain` | a rigid score with two branches, a double-speed and a backwards interval, and a loop of period 3 closed by a graphal interval; ticks 0..3, dates up to 10 | `TypeOK`, `Punctual`, `TickEnds` |
| `scenario_branches` | two quantized triggers, one with a maximum, two conditions and branches of different lengths that join; grid points at 0, 1, 2 or none; clicks at every step; ticks 1, 3; dates up to 7 | `NoZombie`, `StoppedStayAtZero`, `ReadyWhenExecuting`, `NothingLate`, `EvaluatingReachable`, `OnGrid`, `RequestConsumed` |
| `scenario_exclusive` | two components, buttons on one and an autotrigger start on the other; exclusive or not; dates up to 3 | `ExclusiveOne`, `AutotriggerRestarts` |
| `task_pool` | the owner and two workers; a before c and d, b before d; a and b fork a slice each; b and c must stay on the owner; any number of runs | `Inv`, `NoLostWakeup`, `OwnedByOwner`, `ImplementsDag`, `RunReturns`, `WorkersExit` |
| `triple_buffer` | six values, swapped | `Inv`, `LastValueArrives`, `RefinesRegister` |
| `rate_limiter` | two parameters, three values each, two exceptions | `Inv`, `RefinesRegisters`, `NewestIsSent` |
| `dataflow` | four nodes, six cables of all five kinds with a delayed cycle and one that may close an immediate cycle, one address; three ticks, two edits, the three schedulings | `TypeOK`, `LargestEnabled`, `SourcesFirst`, `NoBacklog`, `GluttonDelivered`, `FreshCables`, `AddressesOrdered`, `EveryoneRuns`, `ImplementsDelayLines` |
| `device_tree` | three nodes, one below another; two names, two parameters per node, two readers; both kinds of device | `NoDangling`, `ParentsOutlive`, `IndexExact`, `ReachedByAddress` |
| `local_device` | two users and two protocols, one exposed from the beginning; a parameter that one user writes and one that a protocol writes; three calls of the first user, two of the second, two messages; with an echo | `ListeningExact`, `Converged`, `CallsReturn` |
| `scenario_quantized_end`, `scenario_loop`, `dataflow_order` | smaller instances, one property each | violations: see the findings |

Why the bounds are enough for what they are for:

* *chain*: with ticks up to 3 and intervals of length 1 and 2 in local time, one tick
  goes through up to three syncs; a tick of 0 is an empty one. Dates up to 10 let the loop
  of 3 turn several times and every interval end. A tick is never longer than the loop: the
  case where it goes twice through it is `scenario_loop`.
* *branches*: the four choices of the conditions, both orders of the loops, and the
  click before, during and after the window between minimum and maximum. A tick of 3
  contains grid points before, at and after the current date of the interval; a maximum of
  4 is reached before or after the grid point.
* *exclusive*: dates up to 3 are enough for the autotrigger's interval (2) to end and
  start again.
* *task_pool*: it is the smallest graph where a released task (c) can be run on top of
  its sibling's join, two predecessors race to release d, a worker releases a task
  that only the owner may take, and a slice is buried under a join. Runs follow each
  other without a bound, so that threads may still leave one run while the next begins.
* *triple_buffer*: six values use each slot twice.
* *rate_limiter*: three values of a parameter can be in the three maps at once, and two
  exceptions in a row keep a message for two rounds.
* *dataflow*: a strict cable in each direction makes the filter need two rounds; in three
  ticks a delay line is written, read and starved, also after an edit that made it new; two
  edits remove a cable and put it back, or close a cycle and open it again.
* *device_tree*: a parent with a child and a sibling of the parent are what the sweep by
  prefix, the recursions and the exchange of names of two siblings need; two parameters of
  one node make a stale pointer differ from a live one. The two readers are symmetric: only
  the locks of the entries relate them. The proofs cover the other trees.
* *local_device*: with three calls one user can register, push and unregister, or remove the
  protocol, expose it again and push, while the other adds or removes a callback or the other
  protocol; two messages may be received before and after any of these. Both parameters have
  one writer, as `Converged` requires; the proof covers any number of them.

## Fairness

* `Scenario!FairSpec`: weak fairness of `TickStep`, the execution thread inside a tick.
  A tick is sequential code without a wait. Nothing obliges anybody to begin a tick, to
  click or to stop. The choice among the elements of a loop is not fair, and need not
  be since each loop visits each element once.
* `TaskPool!FairSpec`: weak fairness of each thread. The operating system schedules
  it, the functions of nodes return, and `m_epoch.wait` returns when the value
  changed. There is no fairness on `Run` or `Shutdown`, nor strong fairness on the
  queues: that some thread takes a task follows from each of them trying.
* `TripleBuffer!FairSpec`: a call of `produce` that has begun ends, and the consumer
  polls, being a periodic callback. The producer may stop for good.
* `RateLimiter!FairSpec`: weak fairness of the thread. Its sleeps end. Exceptions are
  bounded by `MaxErrors`; see the observations for a protocol that always throws.
* `LocalDevice!FairSpec`: weak fairness of each thread inside a call. Threads make
  finitely many calls (`MaxCalls`), so that a lock that is not fair starves nobody. Nobody is
  obliged to begin a call, and `CallsReturn` excludes nothing but `Embraced`, the ways in
  which threads do wait on each other.
* `Dataflow` and `DeviceTree` have none: their properties are about safety. That a tick of
  the graph executes every node is `EveryoneRuns`, an action property on the end of its
  loop. That the editor gets the lock of an entry depends on the fairness of the locks of
  the concurrent map, which the code does not control.

## Proofs

TLAPS proves the following for all values of the constants that the modules'
assumptions allow (`GraphAssumption`, `ScenarioAssumption`, `TreeAssumption` of `TaskTree`, `PoolAssumption`, `BufferAssumption`,
`LimiterAssumption`, `DataflowAssumption`, `TreeAssumption` of `DeviceTree`, `LocalDeviceAssumption`): any score, any
ticks and any grid; any finite tree of tasks with edges inside each batch, any set of workers and any capacity; any finite
set of nodes and cables of any kind; any finite tree of nodes, any names and any set of
readers; any parameters, users, protocols and writers; any bounds.

| module | theorems | argument |
|---|---|---|
| `ScenarioProofs` | `TypeCorrect` (`TypeOK`), `RequestConsumedHolds`, `NoZombieHolds`, `ExclusiveOneHolds`; on scores without loops `StoppedStayAtZeroHolds`, `ReadyWhenExecutingHolds`, `EvaluatingReachableHolds`, `OnGridHolds`, `NothingLateHolds`, `TickTerminates`; on rigid ones `PunctualHolds`, `DateDeterminesState` | below |
| `TaskPoolProofs` | `Invariance` (`Inv`), `NeverLost` (`NoLostWakeup`), `NeverStolen` (`OwnedByOwner`), `Implementation` (`ImplementsDag`) | below |
| `TripleBufferProofs` | `Invariance` (`Inv`), `Exclusion` (a slot is never at both ends), `Monotonic` (the consumer never gets an older value), `Refinement` (`RefinesRegister`) | `Inv` adds to the exclusion what each slot holds relative to the newest published value: a dirty middle slot holds it, and the slot the consumer just took holds something newer than its last result. Without it a recycled slot could hold anything. |
| `RateLimiterProofs` | `Invariance` (`Inv`), `Ordered` (`NeverOlder`), `NotRepeated` (`SentOnce`), `Refinement` (`RefinesRegisters`) | `MessageOrder` says that the three maps hold values from the newest to the oldest, `RoundInv` that the buffer is empty outside of a round, that what a round visited was sent, and that messages kept between rounds come from an exception. |
| `DataflowProofs` | `TypeCorrect`, `LargestEnabledHolds`, `SourcesFirstHolds`, `NoBacklogHolds`, `FreshCablesHold`, `StrictDelayFedHolds`, `GluttonDeliveredHolds`, `EveryoneRunsHolds`, `AddressesOrderedHolds`, `DelayLinesImplemented` | below |
| `DeviceTreeProofs` | `TypeCorrect`, `NoDanglingHolds`, `ParentsOutliveHolds`, `IndexExactHolds`, `ReachedByAddressHolds` | below |
| `LocalDeviceProofs` | `TypeCorrect`, `ListeningExactHolds`, `ConvergedHolds` | below |

`IntervalLemmas` holds the least index of a finite sequence with a property, which
`DataflowProofs` and `DeviceTreeProofs` use for the least node of an order and the deepest common ancestor,
and `ScenarioProofs` for the first step at which a disposal reaches an event and for the earliest
sync that is late. `SetInduction`, `Recursion` and `RecursionValues` are induction and definition by
recursion over 0..M in terms of sets and functions.

### Scenario

`BaseInv` adds to the types which phase may be busy with a sync, that the events it waits
for are its own, and that a play button asks for a position inside its interval
(`FromInv`); without the last, the date of an interval could pass its maximum. `TypeCorrect`
rests on the arithmetic of `run_interval` (`AdvanceType`): with any speed, any date a
quantized trigger set and any overtick, the date stays below a finite maximum.

`RunningInv` says that, without buttons or in an exclusive
scenario, intervals start at their beginning and those the ticks advance play. `OneInv` is
`ExclusiveOne` inside of a tick: the sync that executes resets each other component
where something runs, and since `RunningInv` makes `running()` true for what the ticks
advance, nothing is missed. That the components of `reset_component` are the classes of an
equivalence is the lemma `Components`. The last two theorems assume that no interval has a
nominal duration of 0: `time_interval::start` does not start those, while the scenario still
advances them.

The second part of the module is about the causality of a score and assumes `Straight`: no
buttons, no exclusive scenario, no loops (`Graphal = {}`), a positive minimum for each
interval, none that leads to a start sync, and either no conditions or `Joined` (what ends on
a sync ends on one event of it). Each hypothesis excludes a behaviour of the code that
TLC shows, when it is dropped, to break the conclusion (see the observations). `Forward`
adds that no speed is negative.

* `ScoreInv` says where in the history of the score each interval is. `IntervalInv` relates
  it to the events at its ends: it runs exactly between the execution of the first and that of
  the second, and is at date 0 the rest of the time. `StatusInv` says that the events of a
  sync are executed together, but those disposed from afar; `VisitInv`, what the loops of the
  tick have in hand: a sync that is visited has a running interval that leads to it
  (`ReachInv`), the sync that `process_this` is busy with has all of its events pending
  (`BusyInv`), and what an event carried over in `m_overticks` started in this same pass
  (`CarriedInv`). The heart of the proof is `trigger_sync`: `Outcome` is what it does to the
  events and intervals, and `DisposalFacts` that `make_dispose` reaches only events that
  nothing reached before, all of whose intervals start on events that it disposed.
  `StoppedStayAtZero` follows.
* `DateInv` adds how far an interval is when its end is pending: past its minimum, less the
  one unit that a quantized date may take back (`Taken`). With it `ReadyWhenExecuting` holds:
  at any time the events of a sync that is ready were reached by intervals past their minimum.
* `EvalInv`: a sync that evaluates its expression, and is not a waiting root, has all of its
  events pending and is reached by a running interval. It implies `EvaluatingReachable`.
* `GridInv` adds the hypothesis that what leads to a quantized trigger has the speed of the
  scenario (`UnitSpeed`), as the end date is computed without it. `DecideInv` carries what
  `process_this` found about the maximum to the moment it decides: the dates do not change in
  between. `GridDates` says that until they run, the intervals that lead to a trigger with a date
  are to end one instant before the grid point of this tick, below their maximum; `GridOverticks`,
  that all of them then leave the same rest (`AfterGrid`), so that it does not matter in which order
  they run or that `m_overticks` keeps the largest, and that the intervals which get a rest
  end on syncs without a date. `OnGrid` follows.
* `LateInv`, without conditions: when the intervals have run, a sync with an interval past
  its maximum, and all of whose intervals have their minimum (`Ripe`), is still to be visited
  in this pass. `RipeReady` says that `Ripe` is what `is_timesync_ready` computes from the
  events. At the end of the pass nothing is left to visit: `NothingLate`.

These invariants were first checked with TLC on the score of `scenario_branches` and on two
others. That score satisfies `Straight` and `Forward`, but has a condition: there
`NothingLate` is checked beyond what is proved.

The third part is about dates, and adds to `Straight` and the absence of conditions that the
score is `Rigid`:

* its start syncs have no trigger and are not clicked. A trigger on one makes every date depend
  on the click, and a click on one that has executed plays its component again;
* an interval with a positive speed has a minimum equal to a finite maximum, which the speed
  divides: otherwise it ends at a date that is not a whole one, and the integer division in
  `run_interval` rounds what is left of the tick. Intervals with a speed of 0 or below
  are allowed, and never end;
* every interval begins on a sync that something can execute (`Attached`), and all the
  intervals that lead to a sync give it the same date, as `get_date` assumes when it follows the
  first of them.

Triggers on the other syncs, expressions, quantization rates, clicks on them at any step and any
lengths of ticks are allowed; the proof shows that in such a score they have no effect, since a sync
is ready only when its intervals are at their maxima.

* `SyncDates` gives the reference dates their types, from the recursion that computes them.
  `Position(i, d)` is where an interval is when the scenario is at date `d`, and `Rest(n, d)` what is
  left of the tick after a sync. `PositionFacts` and `AdvanceFacts` are the arithmetic of
  `run_interval`: it takes an interval from its position at `d` to its position at `d + t`, leaves
  exactly `Rest` at its end, and reports the end iff its date is reached. `Quotient` is the one fact
  about the division.
* `PositionInv` is the invariant of a tick: the intervals that the current loop has advanced
  are at the date of the scenario, and their end syncs hold the rest; those it has not advanced
  yet (`Behind`) are at the date of the last tick or, when an event carried them, at their
  beginning, with the time that is theirs in the overtick of their start. `m_overticks` keeps the
  largest of the overticks of a sync: as the dates agree, they are equal.
* `StartInv` (the start syncs execute at the first tick, at date 0), `ReachedInv` (nothing is reached
  before its date, and what follows an executed event runs until its end executes) and `QuietInv`
  (no interval gets another date to end at; a sync executed after the run is at its maximum, so
  that what follows is carried) complete it.
* `Complete` closes the argument at the end of a tick. Take the earliest sync whose date is past
  and that has not executed: what leads to it has started, runs, and is at its maximum, so the sync
  is ripe and late, which `LateInv` excludes. Hence `StateAt`: between two ticks events, running
  intervals and their positions are a function of `m_last_date` alone, which is
  `DateDeterminesState`, and `Punctual` follows. `BeginTick` needs the same fact to start again: no interval
  that runs is past its end.

The hypotheses and each part of the invariant were checked with TLC on the score of `scenario_chain`
without its loop and on one with clicked, observed and quantized triggers, a join that a
tick reaches in two passes and an interval of speed 0. The run `scenario_chain` checks
`Punctual` with a loop, beyond what is proved.

The last part is the termination of a tick, on `Straight` scores with finitely many intervals (and with
conditions if they are `Joined`). `TickTerminates` gives a measure, `Remaining`, a natural number of at most
`TickBound`, which every step of a tick decreases and a click of another thread leaves alone. It is
lexicographic (`Decreases`): the loops of `state_impl` that are still to come (`Stage`); in its do-while loop, the
syncs still to execute and those still without a date, and whether the loop is to be repeated
(`Work`); and the visits left and what is left of the current one (`Left`). An
execution takes its sync out of `Undone`, and `Outcome` shows that it puts nothing back; a
quantized sync gets its date once. Each pays for the repetition that it causes. In a score with loops
a graphal interval makes events that have executed `PENDING` again: `scenario_loop` is such a tick that does
not end. The measure was checked with TLC on the score of `scenario_branches` and on that of `scenario_chain` without its loop.

### Task pool

The invariant of the task pool has two halves. `DagInv` is about tasks: `StepInv`
relates the step of a task with its history, `CounterInv` says that each atomic counter
is the number of tasks that have not told it yet (`remaining`: members of the batch that
have not finished; `dependencies`: predecessors that have not released), and `SubmitInv`
that a task is in a queue only if it is waiting, with nothing before it. These three need
each other: that a decrement to zero happens once needs the counters, and that no
decrement comes after the reset for a new run needs the steps. `ThreadInv` is about
threads: `RootInv` (a run is at the bottom of the owner's stack), `FrameInv` (each task
that executes is in exactly one stack, at one place) and `SleepInv` (what a thread knows
between its reading of the epoch and its wait). The lemma `DagStep` needs `RootInv` to
know that the end of the root's join is the end of the run, and `ThreadStep` needs
`DagInv` to know that the task a thread takes is not already in a stack.

`Implementation` maps the history variable `phase` to that of `NestedDag`: `Run` and
`ForkN` are `Fork`, taking a task or running it inline is `Begin`, `EndBody` and `Joined`
are `End`, and the rest stutters. The guards of `Begin` and `End` come from `SubmitInv` and
`CounterInv`.

### Data-flow graph

The invariants are layered, each lemma `...Inductive` using those below it.

* `BaseInductive`: types, and that nodes run only on an order at least as recent as the last
  edit, since a tick recomputes it when the graph is dirty. What a step does to the types is
  split by action (`EditType`, `BeginType`, `StepType`).
* `FilterInductive`: `disable_strict_nodes_rec` only removes nodes, and each node it removes
  is outside of every admissible set included in what was there before the round. So the
  result is the largest admissible subset of the nodes asked for, whatever the order of the
  cables. Stating only that the result is admissible would not be inductive enough for
  `LargestEnabled`.
* `SourcesInductive`, `TokenInductive`, `OutletInductive`, `FreshInductive`,
  `DelayInductive`, `DelayFedInductive`, `GluttonInductive`: which outlets and buffers hold a
  value of this tick, of an earlier one or none, according to what executed.
* `EveryoneRunsHolds`: if an enabled node is left, the one of least index in the topological
  order (`LeastNode`) has all its immediate sources executed or disabled, so `next` exists: the
  loop does not end before everyone ran.
* `AddressesOrderedHolds`: `SortInv` keeps that the order respects the edges that
  `tc_add_addresses` computed from some topological order, `OrderInv` that what a static graph
  executed is before what is left. `AddressEdgesProperties` is about the recursion over the
  pairs: it only adds edges between nodes that share an address, keeps them, and after the
  round of a pair one of the two has a path to the other; `PairIndex` says that each pair has
  a round, and `Recursion` of `IntervalLemmas` that the recursive function exists. If the path
  goes to the reader, `PathForward` shows that the order has the writer first unless the path
  takes a delayed cable; if it goes to the writer, it closes a cycle with the address.

`DelayLinesImplemented` maps each delayed cable's buffer and read position to a queue of
`DelayLines`: writing is the execution of the source, reading that of the sink, and a new
cable is a new line.

### Node tree and index

The inductive invariant `Inv` is the conjunction of `TypeOK`; `CallInv`, the stack of
destructors and recursive calls in progress, whose depth increases; `DetachedInv`, the
detached nodes are exactly those the calls in progress remove; `TreeInv` (`AncestorsLive`,
`Childless`, `UniqueNames`); and `IndexInv` (`EntriesAlive`, `Locked`, `ForgottenInv`,
`TodoInv`, `ClosedInv`, `Filled`).

`NoDangling` alone is not inductive: a parameter dies several steps after the index was told
of it. `ForgottenInv` says that between the two no entry points to it, either because it was
erased at its address or because a sweep by prefix passed. `ReachedByAddress` needs the
converse, that a sweep takes nothing else: two different live nodes do not have the same
path (`SamePath`, from `UniqueNames` at the deepest common ancestor), so what has the prefix of
a node is below that node (`SweptBelow`).

### Parameters and multiplexing

`ListenInv` says who may hold which lock (`SwitchAlone`: a thread that switches a parameter
is alone with its only callback; `OneExposer`; `Outside`: what is being exposed or destroyed
is not in `m_protocols`), and what a protocol was told so far: `ToldExact` is
`ListeningExact` for the parameters that `observe_rec` already visited (`ToldOf`), and
`UntoldEmpty` that it knows nothing of the others. The visited part is what makes it
inductive: between its visit and the `push_back` nobody switches the parameter, since
`observe` needs the mutex that `expose_to` holds.

`ConvergedInv` follows a value through its calls: while one is on its way it is the value of
the parameter and its network already has it (`CarriedValue`); when none is, networks and
queues have it or never had one (`KnownLast`, `HeardLast`); a network knows nothing before its
protocol is exposed (`StartsUnknown`), and, without an echo, of the messages to others
(`NotEchoed`). The calls that carry no value share one lemma, `ConvergedFrame`.

### Only model-checked

All liveness (`TickEnds`, `AutotriggerRestarts`, `RunReturns`, `WorkersExit`,
`LastValueArrives`, `NewestIsSent`, `CallsReturn`), since the prover handles neither fairness nor ENABLED
(of `TickEnds`, `TickTerminates` is the measure; that a tick always has a next step is left to TLC);
and of the scenario `Punctual` on a score with a loop, and `NothingLate` on the score with
conditions. `OnGrid` says nothing of start syncs, nor that a trigger which is quantized after the
intervals ran executes on the grid: it does not (finding 1). Every safety property of a passing run is stated by a theorem, under the hypotheses
above.

## Findings and observations

Each finding is a run whose property states what a comment says and TLC refutes.

1. `scenario_quantized_end`: `trigger_quantified_time_sync` compares the status of the
   start events with `HAPPENED`, while `make_happen` sets `HAPPENED|FINISHED`
   (`scenario_sync_execution.cpp:46`). Dates are never compared, and a trigger quantized
   inside a tick executes at once, off the grid.
2. `scenario_loop`: an overtick is replaced only by a larger one
   (`scenario_execution.cpp:208`), so a tick longer than a loop of the score never ends.
3. `dataflow_order`: the comment of `node_sorter` says that a node that produces an address
   executes before one that consumes it (`graph_ordering.hpp:37-39`). The comparison puts the
   nodes that have an inlet with an address first (line 54): a producer without input runs after
   every consumer of its address that has no cable, which reads the value of the tick before.

Observations, true of the code and of the model, that no text of the repository
contradicts unless it says so.

Scenario:

* `scenario_execution.cpp:105` misses the `FINISHED` bit too: the event on which two branches
  join is not disposed when the branches are disposed one after the other.
* A click on a waiting root before its first evaluation is dropped
  (`scenario_sync_execution.cpp:87-92`), while a click on an evaluated one counts.
* A grid point on the first instant of a tick sets the end of an interval one unit before
  its current date (`scenario_sync_execution.cpp:22`), possibly below its minimum.
* That end date is in the time of the scenario, and the interval meets it in its own
  (`scenario_sync_execution.cpp:28`): an interval at another speed ends off the grid point. Hence
  `UnitSpeed` in `OnGridHolds`.
* The loop over the waiting start syncs does not look again at one that was just quantized
  (`scenario_execution.cpp:370`): it executes at the beginning of the next tick. `OnGrid` is
  about the other syncs.
* The rest of a tick may be given to an interval without a minimum that a later sync of the
  same pass already stopped (`scenario_execution.cpp:523`): hence the `Min[i] > 0` in
  `StoppedStayAtZero`.
* A branch disposed late in a pass may free a join whose other interval is already at its
  maximum: its sync was visited, and found not ready, earlier in the pass, so that it is
  executed one tick late. Hence no conditions in `NothingLateHolds`.
* A sync with two events, one of which was disposed from another branch, makes that event
  `PENDING` again and executes it with the other, though nothing plays towards it. Hence
  `Joined` in `ReadyWhenExecutingHolds`.
* Events that finished or were disposed become `PENDING` again when the sync they share with
  another event is looked at (`is_timesync_ready`, `scenario_execution.cpp:99`), so its
  branch at line 148 is dead.
* A button makes the start event `HAPPENED` without the `FINISHED` bit: the intervals that
  ended on it are forgotten at the next tick without being stopped
  (`scenario_execution.cpp:307`), and its sync is never ready again. A stop button may leave a
  sync `evaluating` that nothing leads to. `NoZombie` and `EvaluatingReachable` are
  therefore checked on scores without buttons.
* In an exclusive scenario the loop that stops the other intervals comes after the insertion
  of the new one (`scenario_execution.cpp:421`): the play button stops what it starts, and
  nothing is left running, where `scenario.hpp:147` says that the request "Starts the interval".
* The clock's `m_running` stays true after its thread ended by itself (`clock.cpp:263`).

Execution of the graph:

* `submit_owner_only` waits for room in a queue of which the execution thread is the only
  consumer, also on that thread (`exec_pool.hpp:53`). The queue is preallocated for 1024
  tasks: only a graph with more pinned nodes ready at once would deadlock.
* A strict connection with `required_sides = inbound` may read what its source wrote in an
  earlier tick, although the comment at `graph_ordering.hpp:178` says otherwise. Nothing in
  the repository creates one, hence `FreshStrict` is not checked.
* The transitive closure counts delayed edges as paths, and the sort ignores them: two nodes
  related by an address and by a delayed cable may not be ordered.
* When the sort finds a cycle, the dynamic graph returns before `finish_nodes`, so that the
  tokens of the nodes pile up until the cycle is opened (`graph.hpp:306`), and the
  breadth-first update of the static one indexes an empty array (`graph_static.hpp:203`).
* The buffers of delayed connections are never trimmed.
* An inlet with an enabled and a disabled glutton source may get the same value by its cable
  and by its address.
* A node on which a token is put while it is outside of the graph keeps it.
* `env_writer` has no case for the delay lines of geometries.

Network:

* A parameter whose push always throws keeps those after it in the order of addresses from
  ever being sent, and has those before it sent again at each round
  (`rate_limiting_protocol.cpp:48`).
* The period of the limiter is read once: `set_duration` has no effect afterwards
  (`rate_limiting_protocol.cpp:19`). Its destructor drops what was not sent. A parameter that
  is removed leaves a dangling pointer; `parameter_removed` is declared but not defined.
* `device.hpp:40` says that `on_parameter_removing` is signalled before a parameter is
  removed. A `wrapped_node` destroys its parameter without it
  (`wrapped_parameter.hpp:41-48`), so that a `message_queue` keeps its pointer.
* `device_parameter_index.hpp:51` says that a removal "Returns whether there was" an entry.
  Between two steps of the renaming of a parent, a parameter that has nothing to do with it
  may be missed.
* `wrapped_node::add_child` does not look at the names of the siblings. Once two of them had
  the same name (`clash`), the index cannot tell them apart: the properties about addresses
  are stated as long as this did not happen.
* `multiplex_protocol` takes its two mutexes in both orders: `expose_to` holds the one of the
  protocols when `observe_rec` needs the one of the callbacks, and the first or last callback
  does the converse (`local.cpp:131`). `stop_expose_to` joins a thread under the mutex that
  this thread needs for its echo (`local.cpp:147`). `Embraced` is exactly these cases, and
  `CallsReturn` says that there is no other.
* Between the `set_device` of a protocol and the visit of `observe_rec`, and between a callback
  and its `observe`, messages are applied quietly: the new callback misses them, though the
  value is set. Hence the condition on the writers in the second half of `Converged`.
* Two threads that write one parameter may leave the networks with the value that the
  parameter had before the last (`generic_parameter.cpp:84`), and the queues too (line 130):
  values leave the mutex before the callbacks and the protocols get them.
* The repetition filter compares with the previous value of the parameter, not with the last
  one sent (`generic_parameter.cpp:308`): after `set_value(b)`, `push_value(b)` sends nothing,
  although `b` was never sent (`parameter_properties.hpp:66-68`).

## What is not modelled

| part | why |
|---|---|
| backward playback, transport, offset, pause; edition of a score while it plays; tempo curves; sample-accurate spans | planned, except the last two: real numbers |
| explicit dependency edges and `clear` of the graph, several tokens of one node in a tick, tick methods that cut at events | the first two repeat a code path that is modelled; the others multiply the states of each node without another control |
| adding an existing node to the tree, alias nodes, several editing threads | the first two build a node of which the tree only sees the result; the code has no lock for the last |
| token requests, expressions, clock, loop process | planned |
| domains, conversions and the repetition filter of parameters, aliases; removal of a parameter with registered queues; callbacks that push or register; `stop` and `clear` of the multiplexer, the other message queues | the first are data; the others are planned |
| OSCQuery, Minuit | planned: subscriptions of clients and requests without an answer |
| building the task graph (`update_graph`) and cutting a range in slices | sequential, between two runs |
| curves, automations, values, domains, units, math expressions | floating-point data without control |
| path patterns, presets, cues, encodings of packets | strings and files, sequential |
| audio, MIDI and other nodes | signal processing |
| sockets, HTTP, zeroconf, network context, drivers, audio backends | input and output through libraries; framings are planned as pure operators |
| bindings | the same operations for other languages |
| `moodycamel::ConcurrentQueue`, `std::atomic`, the concurrent map of the index | external: modelled by how the code uses them |

## Plan

The number of runs is kept to a dozen, so later parts share them.

1. **Parameters**, on top of `LocalDevice`: their removal (`on_param_removed`, with
   `DeviceTree`), callbacks that push, the repetition filter composed with `RateLimiter`.
2. **Scenario**: backward playback and
   transport over `ScenarioGraph`, against an abstract *state after playing to this date*; the
   loop process.
3. **Clock**, and the exchange of the tick function by the audio engine.
4. **OSCQuery subscriptions**, then framings and token requests as pure
   operators checked against definitions.
5. **Proofs**: `Punctual` on scores with loops, where `Straight` excludes graphal intervals: the date
   of an interval modulo the period of its loop, with several turns of the loop in one tick
   excluded (see `scenario_loop`).
