# Mylo in TLA+

Mylo is a small scripting language: a one-pass compiler to bytecode, a stack VM with region-based
memory, and a standard library with worker threads, background jobs and a shared key-value bus. This
directory holds TLA+ specifications of the parts whose correctness depends on long sequences of
operations or on the interleaving of threads, TLC instances that check them, and TLAPS proofs of the
results that should hold for every size.

Line numbers below are those of `src/` (the C sources are in `src/src/`).

## The system

| part | state | operations | hard about it |
|---|---|---|---|
| Arena table and regions (`vm.c`, `mylolib.c`) | `vm->arenas[64]` with active, generation, head, memory; `current_arena` | `region`/`create_region`, `clear`/`clear_region`, `set_region`/`r::x`, `heap_alloc`, pointer resolution, `vm_init` cold and soft, `vm_cleanup` | references outlive their region; slots are reused; a cleared slot revives lazily; 14-bit generations wrap |
| Memory scopes (`vm.c`) | `scope_stack[32]`, arena heads | `SCOPE_ENTER`, `SCOPE_EXIT`, `SVAR` protection, `RET` with evacuation | memory is reclaimed by rewinding the head; what escapes a block has to be protected or copied |
| Compiler (`compiler.c`) | code, loop stack, scope depth, numbered locals, symbol tables | one per statement kind | static counts have to agree with what the VM does along every path |
| Workers (`mylolib.c`) | `workers[128]`, each with a whole VM and a moved arena | `create_worker`, thread function, `check_worker`, `dock_worker` | ownership of memory moves between threads without locks |
| Jobs (`mylolib.c`, `os_job.h`) | `job_registry[32]` under `job_mutex` | `system_thread`, `job_worker`, `get_job` | slots are found by name and reused while threads still hold them |
| Bus (`mylolib.c`) | `global_bus[2048]`, `bus_count`, `bus_lock`, `bus_initialized` | `bus_set`, `bus_get` | several VMs at once; initialisation outside the lock |
| Native references (`vm.c`) | one process-wide table | store, get, free | shared by all VMs, cleared by any |
| Calls and natives (`vm.c`, `mylolib.c`) | frames on the value stack, `scope_stack`, C frames | `CALL`, `RET`, `call`, `for_list`, `filter`, `param_filter` | natives run the VM again from C; one scope stack for all frames, told apart by `fp` only; errors unwind past C |
| Containers (`vm.c`, `mylolib.c`) | headers and cells in the heap, types beside them | `ARR`, `MAKE_ARR`, `MAP`, `RANGE`, `AGET`, `ASET`, slices, iterators, `+`, `add`, `remove`, `where`, `contains` | maps move when they grow, under variables and loops; callbacks change what a native runs over |
| REPL (`main.c`) | VM and compiler that live on from line to line | a line, the error landing pad | what a failed line leaves behind |
| Debugger, DAP, bundles, canvas, command line, LSP | see `PROJECT.json` | | I/O |

How they meet: the compiler emits the scope and region instructions the VM runs; `heap_alloc` and every
dereference go through the arena table; a worker is a second VM with a table of its own that is lent one
arena; jobs and the bus are process-wide, each under one mutex; `vm_cleanup` of a worker's VM also
touches the process-wide reference table. A runtime error leaves by `longjmp` to the REPL's landing pad
or ends the process.

## Modules

### ArenaTable and Arenas: one VM's memory

`ArenaTable` has the operations of `vm.c` on one slot as operators on a record: `InitArena` is
`init_arena` (generation +1 in 14 bits, 0 skipped, `calloc` only if there is no memory), `FreeArena` is
`free_arena` (the generation is left alone), `Resolves` the test in `vm_resolve_ptr`, `Fits` and `Advance` the
two halves of `heap_alloc`. `Arenas` builds the VM's steps from it: a region is created in the first free
slot, cleared (also when it is current: `current` keeps naming it), selected, allocated in (reviving it if it
was cleared), and the VM is initialised softly, cleaned up and initialised cold. Errors either raise
(opcodes) or exit (natives); after a raise the REPL's `Recover` goes on with everything but the value stack.

`ptrs` is the set of references the program still holds, with the object's size and the `epoch` of the slot at
the time; no code reads those two. Deeper detail of objects (types, children) is left out;
the rewinding of heads by memory scopes is `ScopedHeap`.

### Workers: moving a region to a thread and back

One arena table per VM (`tab`), the slots of `workers[]`, and a program counter per thread for the stages of
`mylo_worker_entry`: inject the region, run, extract it, `vm_cleanup`, set `complete`. `create_worker` copies the
arena record and drops the memory in main's slot only; `dock_worker` joins and puts the record back. Every
allocated block has a serial number, so a freed block that is found anywhere is a dangling pointer.

`Rules` says what programs and the environment obey: `hands_off` (main does not clear a region that is out, or lend it again),
`region_data` (only references into the moved region cross), `spawn_one` (`pthread_create` starts a thread if no other
worker is there). Main may try to use a region that is out, and a worker may clear the one it was given: both lead to a slot that is
active without memory (`NullAccess`). An error ends the process (`Ends`), and nothing is said of what is left then.
`OneHolder` and `CompleteMeansHandedOver` need no rule, `NoLeak` needs `hands_off`, and `RefsFollowTheirObject` needs `hands_off` and `region_data`: that is how they are proved.

### Jobs

A `job_worker` thread takes three steps: run the command (`job->cmd` is read then), publish under the
mutex, free `job->cmd` after it. `system_thread` and `get_job` are one step each, as they hold the mutex
throughout. A job is numbered by the call that started it, and the command block has the same number, which
makes it visible whose command is run, published or freed.

### KeyValue and Bus

`KeyValue` is what the bus promises: each call takes effect at one moment between its start and its return, on
a map of bounded size. `Bus` is the code: the unlocked `init_bus` in three steps (test, memset, flag), the locked
search, then overwrite, insert, refuse or read, and unlock. `ThreadSafe` is the refinement: with
`store[k]` the value of the first entry with key `k`, every behaviour of `Bus` is one of `KeyValue`, answers included.

### Codegen: nesting, compiled and run

The behaviour first compiles a function body or a script, statement by statement (`var`, `region`, elements, `if`/`elif`/`else`,
both kinds of `for`, `forever`, `break`, `continue`, `return`), keeping what the compiler keeps: emitted code,
`loop_stack` with its patch lists, `current_scope_depth`, `local_count`. Then it runs the code with conditions that
fall either way. `marks` records at each statement how many blocks are around it in the source and how many
locals it should see; the properties compare the VM with that. `embed` is compiled as `region` is.

Most statements take every value their expressions push, and those that are nothing else are left out. Four things leave
the stack uneven, and the history variable `surplus` counts them as they run: `Element`, a statement `a[0]`, `p.x` or `a[0:1]` without `=`,
whose value nothing takes (`compiler.c:1743-1829` emits no `OP_POP`); `Region` in a function, whose `SVAR` takes the
slot it was given; an iterator over an array of another width than bytes, which pushes nothing for the variable that is then set
(`IT_SET`, `vm.c:1841`); and a call with more or fewer arguments than parameters, which `OP_CALL` does not compare (`Init`:
both are any number up to `MaxParameters`). `LocalsLineUp` is an equation, so it says both that these shift later locals, by how much, and
that nothing else does: not the pops of a block's end, not the ways out of loops.

Not in *Codegen*: taking the value of a struct's element by position, `x = p[0]`, where `OP_AGET` pushes none
(`vm.c:1337-1377`; the statement `p[0]` alone is there); `return` at top level; runtime errors, which end a program anyway or return to the REPL (*Calls*); a
function nested in a loop's `mod` block, since a body is one function. Where a pop would go below the frame the run of the
model ends (`underflow`); at top level so does the VM's, in a function it takes what `OP_CALL` saved.

### ScopedHeap: what leaving a block gives back

A block or function remembers the head of the current arena and rewinds to it. The program is any sequence of statements
over locals and one global: blocks (`OP_SCOPE_ENTER`, `OP_SCOPE_EXIT`), `set_region`, array and map literals, `var r::x`,
declarations, assignments to locals (`OP_SVAR` with its protection) and globals (`OP_SET` without), a map that grows
(`OP_ASET`), calls and returns. A return is a step per scope of the function, as in the loop of `OP_RET`, with
`vm_evacuate_object` in it, which tests for no room: past the end the state is `overrun`. Objects are arrays of numbers and maps to numbers;
`heap` records where each reachable one lies, and the code reads only the sizes in it.

`LocalsKept` says that what any frame's locals, arguments and returned value refer to is never reclaimed, `GlobalsKept` the
same of globals, `HeadsNested` that leaving the open blocks one after the other never moves a head up again. The code keeps this for programs that obey
`Rules`, each of which excludes something that does go wrong:

| rule | without it |
|---|---|
| `lift` | an object made in a middle block and assigned to an outer variable from inside a deeper block moves only the middle and outer heads; a later object lies across the deeper block's head and loses its tail (numbers may be assigned from any depth) |
| `escape` | a global assigned in a block keeps a reference to reclaimed cells |
| `one_region` | `set_region` away and back inside a block: what was assigned in between is not protected |
| `home` | a map that lives in another arena than the current one moves the wrong scopes' heads |

### CallStack and Calls: functions, natives and the REPL

`CallStack` is what calls promise: a stack of activations, each with its own values; a native that applies a function is an activation
too, with the elements it has still to do. `Calls` is the code: one value stack in which `OP_CALL` slips the return address and the caller's
`fp` below the arguments; `call()`, which builds the same frame; `for_list`, `filter` and `param_filter`, C functions in the middle of their loop, which
build a frame that returns to `code_size` and run the VM until it gets there; `scope_stack`, shared by all; and the REPL's lines, with errors of
the compiler and the VM and the landing pad. `acts` is read off the state by walking the frames down from `fp` (`Unwound`), by the
layout alone, and `CallsNest` is the refinement: each step is a step of `CallStack` on what is read. The program is any code; a function is its name
and how many calls are behind it. Arguments are as many as parameters, which no code checks.

`nest` counts the blocks every open activation is in. `ScopesMatch` says that `scope_stack` holds exactly these, each under its activation's `fp` and inner ones above outer ones,
as long as no error happened inside a block or function (`stale`); `VariablesKept` that under the same condition a variable's object is not given out again.

### Collections and Containers: arrays, bytes and maps

`Collections` is what they promise: sequences, of items or of keys and values, which variables share; an operation changes one in place or makes another; a `for` loop looks each
time whether there is a next position; `for_list` and `filter` take as many as there were at first. `Containers` is the code: cells with
types, headers, bytes packed into cells, a map's data block elsewhere, which moves when the map grows, the positions and lengths each opcode
computes, entries shifted one by one, the result list that a native fills while its callbacks run. `IsCollections` is the refinement, with `colls`
read off the heap through the references. So that an operation cannot be taken for another with the same effect, both modules record which was asked for (`last`);
`last`, `colls` and nothing else are left out of the states TLC tells apart (`view`): they follow from the step and the state.

The byte has `BYTE` values and a cell `PerCell` bytes, so that packing and rounding up are there with two of each. A value has a type beside its number, as in `types[]`.
Positions to write to are inside the array, and a slice is copied from another object, because the code does otherwise what no specification would say (see below).

## Runs

| run | instance | shows |
|---|---|---|
| `arenas` | 2 regions, 3 generations, 3 cells, 2 references, 3 initialisations per slot | `StaleNeverResolves`, `LiveObjectsDisjoint`, `ResolvedHasMemory`, `MainHeapStays` |
| `workers` | 2 regions, 2 worker slots, 5 blocks, the three rules | `OneHolder`, `NoLeak`, `RefsFollowTheirObject`, `CompleteMeansHandedOver`, `DockReturns` |
| `jobs` | 2 slots, 2 names, 4 jobs | `RunningJobKeepsSlot`, `ResultMatchesName`, `ResultsReachCaller` |
| `jobs_free` | the same | finding: another job's command is freed |
| `bus` | 2 clients, 3 keys, 2 entries, first call alone | `ThreadSafe`, `OneEntryPerKey`, `LockReleased`, no deadlock |
| `bus_cold` | 2 clients, 1 key, both make the first call | finding: an entry is wiped |
| `codegen` | programs of up to 4 statements, 8 scopes, 7 stack slots, at most 1 parameter and 1 argument, loops with 1 variable | `ScopesUnwound`, `LocalsLineUp`, jumps stay in the code |
| `scoped_heap` | main heap and a region of 5 cells, 2 scopes, the script and one call, 2 locals, all rules | `LocalsKept`, `GlobalsKept`, `HeadsNested` |
| `codegen_drift` | the same as `codegen`, with conditional for loops before `break`/`continue` | finding: scope depth drifts |
| `calls` | a function of one and one of two parameters, 1 call per activation, 2 natives within each other, lists of 2, 7 cells, 2 scopes, 1 variable, 1 error | `CallsNest`, `ScopesMatch`, `VariablesKept` |
| `repl_error` | the same with 3 scopes, 1 native, an error of the VM | finding: a variable's object is given out again |
| `containers` | 5 operations on 2 objects, arrays of up to 1 item written down, maps that start with 1 entry, 12 cells, one loop or native at a time | `IsCollections`, `ObjectsApart`, `ReadsAgree`, `VisitsEach` |

Bounds. *Arenas*: with generations modulo 3 two initialisations are a lap, so `MaxEpoch` = 3 goes past one and
the `>= GEN_MOD - 1` escape of `StaleNeverResolves` is reached; with 3 cells and sizes 1 and 2 objects fit exactly,
just do not, and touch. *Workers*: two slots allow a region to be lent while another is, and a slot to be reused;
5 blocks are main's heap, two regions, and a heap for two workers, or one worker twice. *Jobs*: four jobs over two
slots reuse each slot. *Bus*: three keys overflow two entries. *Codegen*: four statements are enough for a loop, a nested
loop or branch, a local and a jump out of both; the stacks are short enough to overflow, which ends the run of that program. One parameter and one argument are each mismatch once; with two of both, loops over two variables, three statements and 12 slots the properties hold as well (2.7 million states).
*ScopedHeap*: five cells, the last of which is never given out, hold two arrays, or a map (one cell of header and one of data) and its grown data (two), two scopes are a function's and
a block in it, a block and a function called from it, or two blocks (an argument is older than its function's scope, so the rule `lift` matters already), and evacuation reaches the end of the arena; with `MAX_LOOP_NESTING` = 3
the properties hold as well (3.4 million states, a few minutes).
*Calls*: with one call per activation and a native in it, frames of functions, `call()` and natives lie above each other in every order seven cells allow; two scopes are used up
by a function called from a function, so the limit is reached; one error, of either kind, is followed by further lines. By hand it was checked with 3 scopes (215 000 states) and with an arena of two cells (488 000).
*Containers*: two entries make a map of one grow, and its data lie behind another object; an array of two or more comes about by `+`, `add` and ranges; a loop over either may change it, grow it, shrink it
and make others. By hand it was checked with arrays of two items, two loops within each other and five operations (403 000 states).
`CHECK_DEADLOCK FALSE` is given where the program may end: after an exit, when the last job has ended or the bounds are used
up, when the compiled program is done, when no room is left in *ScopedHeap* and *Calls*, and when the operations of *Containers* are used up. The bus never stops, and there deadlock is checked.

Fairness. Threads that can take a step eventually do (`WF` on each worker's, job's and client's own steps: the operating
system schedules them). In *Workers* this includes that worker functions return and that a join whose thread has ended
returns; nothing else of main's is assumed. In *Jobs* commands end and programs keep polling (`WF` on `get_job` per name),
which is how the library is meant to be used; `ResultsReachCaller` excludes names that are cut or in use twice. In *Bus*
nothing is assumed about who gets the mutex: a client may starve, and no property says otherwise; `LockReleased` only needs the
holder to run on.

## Proofs

`ArenasProofs` proves for every `MAX_ARENAS`, `GEN_MOD`, `MAX_HEAP` (each at least 2), set of sizes and bound that `Spec`
implies `TypeOK`, `StaleNeverResolves`, `LiveObjectsDisjoint`, `ResolvedHasMemory` and `MainHeapStays`. None of them is
inductive alone. The invariant `IInv` adds: an active slot never has generation 0, and a reference neither; a reference never
comes from a later epoch than its slot's, and the slot's generation is the reference's, advanced by as many steps of
`NextGen` as there were initialisations since, as long as these are fewer than a lap (this is what makes an equal
generation mean an equal epoch); objects of the present epoch lie below the head and apart; and the main heap is
active unless the VM is down. Lemmas state what `InitArena`, `FreeArena` and `NextGen` return; there is one step lemma per part of
the invariant and one step per action in it.

`JobsProofs` proves for any number of slots, names and jobs that `Spec` implies `TypeOK`, `RunningJobKeepsSlot` and
`ResultMatchesName`. The invariant adds that numbers above `started` are unused, that no two active entries are about the same job, and that an
entry which is done carries its own job's result under its own name: without them `get_job` could hand out a result twice.

`WorkersProofs` proves for any number of slots, regions and blocks that `Spec` implies `TypeOK`, `OneHolder` and
`CompleteMeansHandedOver` under any `Rules`, and `NoLeak` if `Rules` has `hands_off`. A slot of `workers[]` counts as a holder while its
thread has not taken the region or has given it back (`Keeps`). The invariant `IInv` says that a block is in at most one cell of
all tables (`OncePerTable`), in at most one slot (`OncePerSlot`), not in both (`TableOrSlot`), is live wherever it is (`HeldIsLive`), that blocks above `blocks`
are new, and that a thread's slot is taken until it was docked; a lemma per step that moves memory shows what it does to each part. `TypeOK` rests on it too: that a live block
has been counted is only known once `create_worker` is known to find live memory in a slot it uses again. `Accounted` adds for `NoLeak` where a pointer is NULL before it is
overwritten: in inactive cells, in main's cell of a region that is out (this is what the rule is for), in the table of a worker without its region; and that a region is in one slot.

`BusProofs` proves for any number of clients, keys, values and entries that, if the first call is over before any other begins
(`FirstAlone`; without it `bus_cold` shows the opposite), `Spec` implies `TypeOK`, `OneEntryPerKey` and `ThreadSafe`, the refinement of *KeyValue*. `IInv` says that the
lock is held by the one client between LOCK and UNLOCK, that `init_bus` runs alone, that entries in use have different keys, and that what a search found still holds when
its client uses it (`SearchHolds`). The calls of *KeyValue* happen in `Overwrite`, `Insert`, `Full`, `Read` and `RejectKey`; `StoreSize` (as many keys as entries, by a bijection)
makes a full array a full store. `BusMarkers` assumes that the markers for NULL and "no answer" are no keys or values.

For `RefsFollowTheirObject` the module assumes besides its two rules that there are fewer blocks than generations (`MaxBlocks < GEN_MOD`): every initialisation of a region allocates a block (`GensPaid`), so no generation comes
round again, and an old reference cannot be taken for a new one. `Followed` says where a region is (`Region`: in the thread's table while it works, in its slot before and after) and that a reference into it, main's or the
worker's, is right about what is there (`Follows`): its generation is not later; if equal, the memory is the reference's block or NULL; and if its block is live it is there.

`ScopedHeapProofs` proves for any sizes of arenas, stacks and objects that `Spec` implies `TypeOK` under any rules, `HeadsNested` with the rule `lift`, and `LocalsKept` and `GlobalsKept` with all four (`Disciplined`). `LocalsKept` as it stands
speaks of cells below the head; what makes it inductive is to know it of all rewinds still to come. `KeepInv` adds that every remembered head is below its arena's (`BelowHeads`), and for each open scope that will rewind the
selected arena: an object that is read, and a map's data with it, is wholly above the remembered head or wholly below (`Whole`), and what is referred to from a slot older than the scope, or from a global, is below (`SlotsSpared`, `GlobalSpared`).
`SVAR` and growing maps move heads to make the last two true again, and the rules are what keeps `Whole`. A return is followed scope by scope, with the copy that `vm_evacuate_object` makes between the last rewind and the caller.

`CodegenProofs` proves for programs of any length and nesting that `Spec` implies `TypeOK` (with it that no jump leaves the code), `LocalsLineUp`, and, if programs avoid the drift of `codegen_drift`, `ScopesUnwound`. The argument is that of a
bytecode verifier. A map from addresses to heights (open scopes, or locals) fits the code if each instruction changes the height as the VM does and both ends of a jump have the same (`Flows`). While the compiler is at work, jumps whose
target is not known are left aside (`Pending`), and it is kept instead that each is as high as the place its loop or block will end at (`BlockFits`, `LoopFits`, and `Shape`, which relates the parser's blocks, `loop_stack` and the two counters). `CodeInv` says that there is
such a map for what was compiled so far, that it gives each marked statement what the source calls for, and, once the program runs, that the VM has open what the map says of its `ip`, of locals `sp - surplus`: heights are those the compiler knows of, and what `surplus` counts is nobody's height. One lemma per statement kind extends the map; a lemma each says what
emitting an instruction, emitting a jump and patching do to it.

`CallsProofs` proves for any functions, arities, lists, bounds and numbers of errors that `Spec` implies `TypeOK`, `ScopesMatch`, `VariablesKept` and the refinement `CallsNest`. `CallInv` says that there are activations, from the script to the running one, that lie above each
other in the value stack (`Frames`: a function's view of the stack begins above the return address and the `fp` of its caller, which are exactly the caller's `ip` and `fp`; a native's shares its caller's), that `nest` counts the blocks of those that
are code (`Nested`), that `scope_stack` is the sum of these (`Matched`), and that globals lie below the arena's head and all remembered ones (`VarsKept`). This is needed because no opcode looks further than its own frame: that `OP_RET` finds an `ip` and an `fp` below its arguments, and pops its own scopes only, is known
of the frame below only if it was known of all of them. Each step keeps the activations, changes the top of the last one, opens one above it or takes it away, and one lemma for each of these ways carries `Frames` over. `Reading` connects the invariant with the properties: `Unwound`, the recursive walk down from `fp`, finds just these activations, since
every step of the walk takes cells or a native away (`Height`; a least counterexample replaces induction).
`CallsAreNested` maps step by step: `Activations` is, activation by activation, a record of `CallStack` made of the cells between its frame and the next (`Mapped`, `ActOf`), those below the frame in use read the same after the step (`SameActs`), so `acts`
changes at its end only, by one record that becomes another, is opened or closed (`BecomeActs`, `OpenActs`, `CloseActs`); one lemma per action then compares the cells with what `CallStack` does to the values. A callback's result counts as delivered when the callback returns,
so `Collect`, which stores it, is a stutter, as entering and leaving blocks are. Assumed is that names are told apart (no function is called as a native or a place of the script is) and a stack of at least one cell.

`ContainersProofs` proves for any sizes of heap, byte, cell and map, any values and positions, and any nesting of loops and callbacks that `Spec` implies `TypeOK`, `ObjectsApart`, `VisitsEach`, `ReadsAgree` and the refinement `IsCollections`. `Inv` says that every object the program holds is sound
(`SoundIn`: a type, a length that is a number, cells below the head, for bytes cells of bytes, for maps data behind the header with room for the entries, and no key twice), that objects and the lists natives are filling are apart (`Apart`), that a native that runs
still has below the head what it has yet to read and room for what it may yet keep (`FillsIn`), and that a loop over a map that did not shrink gave the keys below its position (`VisitsIn`). `ObjectsApart` alone is not inductive: that a map's next entry falls inside its own block needs the header's capacity to be true,
and the capacity needs nobody else to have written there. A step touches one object, or appends cells: `Elsewhere` and `Written1` carry the rest over, `WithRef`, `WithLoop` and `LastChanged` do so for a reference more, a loop more and a round of the innermost loop.
`Copying` says what the cell-by-cell copy of `remove` and of slices gives when it goes down or between blocks that are apart; the copy is a recursive function, and again a least counterexample replaces induction. The theorems hold for programs that write inside arrays, and copy slices between different arrays, as the model says.

`ObjectsBehave` maps step by step, too. `Mapped` adds to `Inv` that `colls` is what is read off the heap (`CollsOf`, which reads through `ContentsIn`) and what may be read is a value: the cells of arrays, those a native has still to look at and those it kept (`Valued`, `Feeds`).
The second matters while a callback runs: a native looks at as many cells as the array had items at first, so above its end if the callback made it shorter. `Collections` says that what it finds there is some value,
which holds only because no other object and no native's result reaches these cells.
`UnwrittenStays` says that objects whose cells a step leaves alone read the same; then each action has a lemma (`MakeArrayMapped`, ..., `GiveResultMapped`) that reads the memory the step wrote and finds the items `Collections` promises. What `for_list` and `filter` kept so far becomes an array of the program only when the result is given (`FilledIs`).

Model-checked only: all liveness (`DockReturns`, `ResultsReachCaller`, `LockReleased`), which is out of the prover's reach. Every invariant and refinement that a passing run checks is a theorem as well.

## Where code and documentation disagree

Four runs end in a violation of what a document or comment says; `PROJECT.json` quotes the lines.

* `jobs_free`: the command is freed outside the mutex, by then possibly that of another job.
* `bus_cold`: the first two callers of the bus race, and one's entry is lost.
* `codegen_drift`: after a conditional `for`, `break` and `continue` of the enclosing loop leave a scope open; in a long loop the program stops with "Stack Overflow (Scope)".
* `repl_error`: the REPL says it keeps variables of successful lines after an error. A runtime error inside a function leaves the function's scope on `scope_stack`; a function called later from a frame at the same place
  pops it with its own and rewinds the heap below what was assigned in between. After a compile error inside a function, `inside_function` stays set and the next `var` is a local that goes with its line.

Others met while modelling, without a run. A region lent to a worker can still be used by main, without the runtime error `standardlib_reference.md:871` promises: the line that would deactivate it is commented out
(`mylolib.c:318`), so main's references resolve into a slot without memory (`NullAccess` of *Workers*). `region` or `embed` in a function stores its value into the slot that is on top of the stack (`compiler.c:1317`), and the locals after it
are read from the slots of others; a statement `a[0]`, `p.x` or `a[0:1]` without `=` leaves its value on the stack (`compiler.c:1818`), and a call with another number of arguments than parameters is not refused (`compiler.c:1706`, `vm.c:1231`), with the same effect; `LocalsLineUp` counts all three. Containers: assigning to an element neither checks nor wraps the position, so `a[len] = x` overwrites the header of the next object and `a[-1] = x` the length (`vm.c:1399`); a slice
assigned from the array itself is copied over what it still has to read (`vm.c:1563`); `for (x in a)` over arrays of other widths than bytes stops with an underflow, or in a function takes a local off the stack each round, since the iterator pushes nothing (`vm.c:1842`); slices of them copy doubles, and
adding a number to them takes elements of 16 and 64 bits for 0; `contains` finds a string in a map if a number is a key that happens to be the string's place in the pool (`mylolib.c:565`); `for_list` with a callback that removes from the list goes on over what is left behind it;
`call` given as a callback overwrites the frame that its native has just built. Also: the "Smart Local Protection" of `vm.c:1202` does not protect a local in the sequence that rule `lift` of *ScopedHeap*
excludes, and the interpreter then overwrites the object; globals, fields and elements assigned in a block are reclaimed with it, which
`mylo_reference.md:622` ("You do not free individual objects") does not lead one to expect; `clear` does not advance the generation as `mylo_reference.md:733` says, the next
initialisation does, with the same effect; a cleared region cannot be selected again, although the text at 743-745 has it reused; `check_worker`
never answers -1 for a worker that failed (`mylolib.c:416`); `create_worker` and `system_thread` report success when the thread could not be
created; a job name of 64 characters or more is never found; objects on the bus are raw references into the setter's arenas; the comment
at `vm.c:161` (the head is rewound before evacuation) is not what `OP_RET` does, so returned objects are copied above the garbage they leave.

## Not modelled

Lexing, expressions, arithmetic, strings, structs, arrays of other widths than bytes, mathematics and C binding generation are sequential functions of their input, which
tests reach. Terminal, files, canvas and command line are I/O. The LSP and the editor files are separate tools. What a model is planned for is below.
In the models themselves: sizes beyond small sets, types of values, Windows variants of threads and locks, and
`malloc` failing are left out; a call with a region number out of range ends the process at once and is left out.

## Plan

1. *ScopedHeap*: references in fields and elements (`HSET`, `ASET`).
2. *Evacuate*: `vm_evacuate_object` over small object graphs (shared children, cycles, capacity) against a reference definition of a copy.
3. *RefStore* with several VMs; Codegen's functions nested in `mod`; *Bundle* (write and load), *Dap*, *Canvas*.
