# A verification development for jni-rs

jni-rs binds Rust to the Java Native Interface: the crate `jni` is a safe API
over raw JNI, the crate `jni-macros` generates code for it at compile time. This
directory holds TLA+ models of both crates, TLC configurations that check them
on small instances, and proofs, checked by TLAPS, that the most important
properties hold for every value of the constants.

Paths below are relative to `crates/jni/src` unless they begin with `jni-macros`,
which stands for `crates/jni-macros/src`.

## The system

### Parts, state and what makes them correct

| Part | Source | State it keeps | What makes it correct | Model |
|---|---|---|---|---|
| Thread attachment | `vm/java_vm.rs`, `vm/tls_attach_guard.rs` | per thread: `THREAD_ATTACHMENT`, `THREAD_GUARD_NEST_LEVEL`, a TLS record; shared: `ATTACHED_THREADS` | no `Env` outlives the attachment it stands for; attachments are undone exactly once, by whoever made them, and counted | `ThreadAttachment`, `AttachmentContract` |
| The same on Windows | `vm/fls_attach_guard.rs` | a fiber-local record and the process-wide FLS index | as above, with one record per fiber, all under one index | `FiberAttachment` |
| Scoped `Env` | `vm/java_vm.rs`, `env.rs` (`with_local_frame` and its variants), `refs/auto.rs` | the guard level; the JNI local frames of the JVM | a local reference is in a frame as long as its Rust lifetime lasts; levels and frames survive every early return and panic | `ScopedEnv` |
| Exceptions and error policies | `env.rs` (`exception_catch`, `with_env`), `errors/policy.rs`, `macros.rs` | the pending exception of the JVM, and one saved in an attachment closure | an exception is lost only where the code is known to give it up | `ScopedEnv`, partly |
| VM start-up | `vm/java_vm.rs` | `JAVA_VM_SINGLETON`, a `OnceLock`; the `Library` handle of the JVM's shared library | whoever has a guard finds the singleton; the library of the running VM is not unloaded | `VmStartup` |
| Global and weak references | `refs/global.rs`, `refs/weak.rs`, `env.rs` (creation, casts) | the raw reference in each wrapper | each reference is deleted exactly once, on any thread; "freed" means collected | `GlobalRefs` |
| Rust fields and monitors | `env.rs` (`set_rust_field`, `get_rust_field`, `take_rust_field`, `lock_obj`) | a `long` field holding the address of a `Box<Mutex<T>>` | the address is never used after the box was freed; no value is lost; no call hangs | `RustField` |
| Array elements and regions | `elements/*`, `objects/{type_array,jprimitive_array,jobject_array}.rs`, `strings/mutf8_chars.rs` | in each guard a pointer into, or a copy of, a Java array or string, and the release mode | each buffer is released once and with the mode asked for; nothing is called inside a critical section; a region call moves all or nothing | `ArrayElements` |
| Class lookup and cached ids | `refs/loader_context.rs`, and the `get` function generated by `jni-macros/bind_java_type.rs` | two `OnceLock` cells per type, `CLASS` and `API` | all users of a type work with one class, whose natives are registered before Java can call them; the documented order of loaders decides; no lookup hangs | `ClassLookup` |
| Calls, fields and values | `env.rs` (`call_*`, `get_field*`, `throw*`, ...), `descriptors/*`, `signature.rs`, `macros.rs` | none | every check comes before the unchecked call it protects; exceptions and local references are accounted for on every path | `Calls` |
| Code generation | `jni-macros/{bind_java_type,native_method,types}.rs` | none at run time; the type map and the properties of one invocation | signatures agree with the Rust types; native methods are registered and exported as asked; the order of properties changes nothing it should not | `TypeMap`, `BindJavaType`, `NativeMethod`, `Macros` |
| Signatures and names | `signature.rs`, `jni-macros/{signature,mangle}.rs` | none | both parsers accept what the JVM does; different methods get different native names | `Signatures`, `Mangling` |
| Strings | `strings/ffi_str.rs`, `jni-macros/str.rs` | none beyond the borrowed characters | exactly the well-formed modified UTF-8 is accepted, and decoding inverts encoding | `ModifiedUtf8`; `ArrayElements` and `Calls` for the references |
| VM options | `vm/init_args.rs`, `vm/init_args/*` | the options so far, or the first error | the first error is reported and nothing built | not modelled |
| Wrappers of Java classes | `objects/*` | none | each method is one Java call | not modelled; the calls are `Calls` |
| Versions, raw Windows bindings | `version.rs`, `windows_sys.rs`, `crates/jni-gen-windows-bindings` | none | constants | not modelled |

### How the parts meet

* Everything goes through a guard. `attach_current_thread*`, `EnvUnowned::with_env`
  and the local-frame functions make an `AttachGuard`, which raises
  `THREAD_GUARD_NEST_LEVEL`; the first guard of a thread stores the `JNIEnv` in
  `THREAD_ATTACHMENT` and makes sure that `JAVA_VM_SINGLETON` is set. A nested
  guard takes the pointer from `THREAD_ATTACHMENT` without asking the JVM.
* A guard lends out an `Env`. `assert_top` compares the level of the `Env` with
  `THREAD_GUARD_NEST_LEVEL` in every function that returns a new local reference,
  so an outer `Env` cannot be used while an inner one is lent out.
* `Drop` of `Global`, `Weak` and the monitor guard finds the VM through the
  singleton and attaches the thread if it has to. The drop can happen on any
  thread, with an exception pending, and while another JNI call is under way.
* Java calls native methods, which make guards of their own on top of the guards
  of the code that called Java. Other JNI code in the process attaches, detaches
  and calls Java without the crate knowing.
* The JVM is shared by all threads; everything in the crate but
  `ATTACHED_THREADS`, `JAVA_VM_SINGLETON`, the FLS index, the caches of ids and
  the boxes behind Rust fields is local to a thread.
* `bind_java_type!` generates a binding: the `get` function with its caches
  (`ClassLookup`), and wrappers that use the IDs it finds (`Calls`). What it generates is
  decided by the properties it has read and the type map as it is at the end (`BindJavaType`).

### What is hard

Interleavings of threads (Rust fields, start-up, class caches, the FLS index, drops
against the garbage collector); nested scopes that end by a return, an error or a panic at any depth;
calls of the JVM that fail in the middle of an operation; stale state (a TLS
record whose attachment was undone by other code, a reference slot the JVM uses
again); waiting (a monitor held while a mutex is waited for, `get_or_init` inside
itself, a static initialiser that comes back to the binding it initialises); macros whose
properties may be written in any order. `PROJECT.json` lists each of these hazards at its line, with the
properties that watch it.

## The modules

A `MC` module beside each component gives its constants values for TLC, a `Proofs` module
holds its theorems (`BindingProofs` those of five modules, `ArrayElementsProofs` those of `ModifiedUtf8` too). Definitions marked "Mutant" in a comment are broken variants of the definition after
them, kept to show that the properties notice.

### `AttachmentContract` and `ThreadAttachment`

`AttachmentContract` is the promise: a thread has at most one JVM attachment,
guards are its users, and an attachment with users is neither dropped nor
replaced. `ThreadAttachment` is the code: `nestLevel`, `threadAttachment`,
`tlsAttachGuard` and `attachedThreads` are the Rust thread-locals and the atomic
counter under their own names; `stack` is what the Rust and Java stack hold,
guards (`kind` `"owned"` or `"unowned"`, with the `JNIEnv` and the level each
was made with) and Java activations between them; `origin` and `attachNumber`
are the JVM's side. `refused` is a history variable: records forgotten because an attachment was refused,
and whether the last detachment was.

| Action | Code |
|---|---|
| `AttachNested`, `AttachExisting` | `attach_current_thread_guard` that finds a guard, or an attachment through `GetEnv` |
| `AttachScoped`, `CountScoped` | the scoped attachment: `sys_attach_current_thread`, then the atomic increment and `from_owned` |
| `AttachPermanentFirst`, `CountPermanent`, `AttachPermanentAgain`, `AttachPermanentFails` | `tls_attach_current_thread`, with and without a record left over from an attachment that was undone |
| `EnterNative`, `CallJava`, `ReturnFromJava` | native methods that make a guard of the raw `JNIEnv` they are given |
| `DetachGuard` | `detach_impl`, from a drop or a detach method |
| `DetachCurrentThread`, `ThreadExit`, `JavaThreadExit`, `Uncount` | `detach_current_thread`, the TLS destructor, and the last step of `sys_detach_current_thread` |
| `ForeignAttach`, `ForeignDetach` | other JNI code |

An assertion of the code that fails is a step to `"panicked"`. The JVM call and
the update of the counter are separate steps, because the counter is the only
thing other threads see. The JVM refuses `DetachCurrentThread` while Java
activations are on the stack; the crate does not look at the result, and the
model follows it in that.

Properties: `GuardsHoldLiveEnv`, `AssertionsHold`, `AttachmentsCounted`,
`NoAttachmentOutlivesThread` and the refinement `KeepsContract`.

### `FiberAttachment`

The Windows build keeps its record in fiber-local storage. The fibers of a thread share its
attachment, its guards and its thread-locals, but each has a record of its own, under an index
that the first attachment of the process allocates. `slot` is the fiber-local storage, `heap`
the boxes it points to, `flsIndex` is `FLS_INDEX`.

| Action | Code |
|---|---|
| `GetIndex`, `AllocIndex`, `PublishIndex` | `get_or_init_fls_index`: several threads may allocate, one publishes |
| `SysAttach`, `Record` | `fls_attach_current_thread`: the JVM call, the counter, the box and `FlsSetValue`, which may fail |
| `FlsDetachCurrentThread`, `Uncount` | the explicit detachment |
| `DeleteFiber`, `ThreadExit` (with `FlsCallback`) | `fls_callback`, which Windows calls with the value of the slot of a fiber that ends |
| `AttachUnowned`, `AttachScoped`, `CountScoped`, `DropGuard` | the guards both builds share, without the frames of `ThreadAttachment` |
| `SwitchFiber`, `ForeignAttach`, `ForeignDetach` | the program and other JNI code |

As the code does, the module assumes that no fiber is switched or deleted under a guard, that a
fiber stays on its thread, and that it ends before its thread. It refines the same
`AttachmentContract`.

Properties: `RecordsOwned`, `AttachmentsCounted`, `KeepsContract`.

### `ScopedEnv`

One thread, seen from inside its guards. `scopes` is the stack of closures
(`"attach"` and `"attach_framed"` for `attach_current_thread_with_config`
without and with a capacity, `"local"`, `"returning"` and `"top"` for the three
local-frame functions, `"native"` for `with_env` under an error policy, `"java"`
for a Java activation); `frames` are the JNI frames of the JVM; `held` says which
Rust lifetime a local reference has; `pending` is the JVM's exception, and the
`saved` field of a scope is `pre_pending_exception`. `thrown` is a history
variable. `held` and `frames` are independent on purpose: `NoDanglingRef` says
that they agree.

Each way of opening a scope is an action, and each way of ending one is: `EndLocalFrame`,
`EndReturningLocal`, `EndAttach`, `EndNative`, each with a success, an error or a
panic. `ExceptionCatch` can fail half-way, as `exception_catch` can: it pushes a
frame and calls methods of the exception. Where the code gives an exception up (after a
panic, after a catch that failed, at the end of a scoped attachment) the action takes it out of `thrown`, so that
`NoExceptionLost` is about all the other places.

Properties: `NoDanglingRef`, `ScopesBalanced`, `NoExceptionLost`,
`OriginalReThrown`.

### `VmStartup`

Threads that call `JavaVM::new` (`LoadLibrary`, `FindSymbol`, `CreateVm`,
`FromRaw`, `SetSingleton`, `AttachCreator`, `KeepOrDropLibrary`) race with each
other and with threads that other code has brought into the VM and that make a
guard (`EnterVm`, `NestGuard`, `GetJavaVm`). `get_or_init` of the `OnceLock` is
two steps, `FromRaw` and `SetSingleton`, with one thread in between;
`initialising` is that thread, for which others wait. Every step of a start may fail. After `CreateVm` only
`AttachCreator` can, and the VM it leaves behind is "abandoned": it runs, the singleton gives it to everybody, and
`KeepOrDropLibrary` closes its library (the first entry under *Start-up* below the findings).

Properties: `SingletonBehindGuard`, `LibraryStaysLoaded`, and `StartAndEntryEnd`
(liveness).

### `GlobalRefs`

The JVM's slots for global and weak references, which it uses again once they
are free, and the wrappers that hold their addresses. `NewRef` covers
`new_global_ref`, `new_weak_ref` and `new_local_ref`, and with them clones and
upgrades; `CheckFreed` is the second question, `is_same_object` with null, which
the crate asks to tell a collected object from want of memory. `Drop` is followed
by `DropAttach`, `DropDelete` and `DropDetach`, one JVM call each. `CastGlobal`,
`IntoRaw` and `GlobalFromRaw` move a reference between wrappers, `Send` moves a
wrapper to another thread, `Collect` is the garbage collector.

Properties: `WrappersOwnTheirRefs`, `NoRefForgotten`, `FreedMeansCollected`,
`DropsLeaveNoTrace`.

### `RustField`

One object, its monitor, its `long` field and the boxes it may hold the address
of; threads that set, get and take. A step is a call to the JVM or an operation
on the mutex. A `get` waits for the mutex while it holds the monitor and returns a
`MutexGuard` that outlives the monitor; the holder may panic, which poisons the
mutex. Freed memory that is used is a step of its own, `UseAfterFree`, after which
nothing is known.

Properties: `NothingDangles`, `NoValueLost`, and `EveryCallReturns` (liveness).

### `ArrayElements`

One thread, because no guard can be sent to another. `handle` is the guard
(`AutoElements`, `AutoElementsCritical` or `MUTF8Chars`) or the raw parts of one,
`buffer` is the JVM's ledger of the addresses it has given out and uses again,
`contents` are the arrays. A buffer is a copy or the array itself, and `Write` goes
to the one or the other. The JVM's part of a release is `WriteBack`.

| Action | Code |
|---|---|
| `GetBuffer`, `GetRefused`, `GetFails` | the `new` of each guard: with a null reference, a pending exception, and no memory; what becomes of an exception differs by kind (checked after the call, cleared, or left) |
| `Write`, `Commit`, `Drop`, `Discard` | `deref_mut`, `commit`, and the drop with the mode of the guard or with `NoCopyBack` |
| `ReleaseDetached` | the same on a thread that is not attached: `with_top_local_frame` fails, and the buffer is stranded |
| `IntoRaw`, `FromRaw` | of `MUTF8Chars` |
| `GetRegion`, `SetRegion`, `GetElement`, `SetElement`, `SetElementOfWrongType`, `IndexTooLarge`, `AccessRefused` | the copying calls, with `as jsize` as what it does to a length |
| `EnterScope`, `LeaveScope`, `Throw` | the program around them |

The program keeps to the contracts of the unsafe functions: no second guard for an
array (`Unaliased`), and inside a critical section no call but the release, which
`HasEnv` and `MayRelease` say. One more case is left out: a critical section
on an array of a `Global` that outlives its attachment. Its release would ask
`GetEnv` and find the thread detached; JNI forbids both that call and the detachment itself.

Properties: `BuffersOwned`, `RegionsAsDocumented`, `ReleasesHonourMode`, `ExceptionsKept`. `RegionsAsDocumented`
gives the one answer a call must have for each array, start and length; where the code departs from its
documentation (`IndexRejected`, `LengthWrapped`) it states what the code does, and the departures are listed below the findings. That nothing is
called inside a critical section (`CriticalUndisturbed`) is proved and not run.

### `ClassLookup`

Each call of `get`, and each static initialiser it starts, is a frame on the stack of its thread.
`classCell` and `apiCell` are `CLASS` and `API` of each type; `registered`, `initialiser` and
`initialised` are the JVM's side; `finds` is what the class loaders answer, a class or the type of an
exception, chosen once.

| Action | Code |
|---|---|
| `ReadApi`, `ReadClass`, `SetClass`, `RegisterNatives`, `LookupIds`, `Publish` | the generated `get`: every read and every set of a cell is a step, with the JVM in between |
| `GetFails` | the other errors of `get`: no local frame, no global reference for the class that was found, native methods refused, a member missing; `CLASS` stays as it is |
| `GetContextLoader`, `GetCandidateLoader`, `LoadClass`, `FindClass` | the chain of `LoaderContext` |
| `MatchException`, `MatchFails`, `Matched` | the catch clauses of `jni_call_with_catch!`: each needs the binding of the exception type it names, found by a call of `get` |
| `CallNative`, `EndClinit`, `JavaUses` | static initialisers that call native methods, started by the first method ID or by Java code |

Properties: `BindingsAgree`, `NativesBeforeInit`, `FirstLoaderWins`, and
`EveryLookupEnds` (liveness).

### `Calls`

Every method of `Env` that calls Java, reads or writes a field, throws, registers or asks for an ID,
and every member `bind_java_type!` generates, is an operator with the name of the method that gives its
steps for one input: a requirement (an assertion or an early return), a class or a binding that is looked up, a JNI
function with the arguments it needs, what follows it (the exception is checked, caught, or cannot
be) and what it gives. The actions take these steps. The thread calls again and again, so that an exception one call has left
pending is met by the next. Values are abstracted to their types. JNI functions that the code calls without
a check afterwards are taken not to throw.

Properties: `JvmCalledRight`, `LocalsAccounted`, `ExceptionsReported`, and
`PendingKept`, which fails (finding 2).

### `TypeMap`, `BindJavaType`, `NativeMethod` and `Macros`

One invocation of a macro. `TypeMap` is `TypeMappings`: `alias`, `rustToJava` and `javaToRust` are
`alias_to_rust` and the two directions between Rust types and Java classes, with one action for each
way to enter something: a reference type, a primitive type, a `typealias`. `BindJavaType` reads one property per
step, in any order, and what a property means depends on the map as it is by then; `Expand` then generates the checks,
registrations, exports and wrappers (`code`) with the map and the defaults as they have become. A member is
a record of the settings that are written. An error, and a panic of the macro, end the invocation.
`NativeMethod` does the same for `native_method!`, where properties and an inline signature give the same
facts. `Macros` puts the macros together, and adds `jni_mangle` and the macros that take a literal (below).

Properties: `MappingsKept`, `TypesAgree`, `NativesBound`, `PropertiesWin`.

### `Signatures`, `Mangling` and `ModifiedUtf8`

Algorithms on sequences of characters or bytes, stated next to a definition of what they should compute.
Each is a loop that takes one character, or one piece, per step.

* `Signatures`: the parsers of methods and fields in `signature.rs` and the one of string literals in `jni-macros/signature.rs`,
  which share no code. `rest` is where the text that is not yet read begins; `typeAt` and `object` are where the type and
  the class name that are being read began, `slice` is where the slice ends that the macro parses its arguments from. The run time reads a
  class name character by character (`ObjectBegins`, `ObjectName`), the macro looks for the next ";" (`RawObject`);
  brackets, primitive types and errors are shared (`Bracket`, `Primitive`, `NoType`) with the differences in the guards.
  `arguments` holds where the types of the arguments begin, which with `typeAt` is what the parsers return.
  `Parses` is the grammar of the JVM specification: all sets of positions at which descriptors begin, follow each other and fill
  the parentheses, with a position of a return type.
* `Mangling`: the attribute `jni_mangle`, from its arguments and the function it is on to the symbol that is exported.
  `ParseAttribute` validates the class and chooses the Java name, which `CamelStep` makes from the Rust name if
  it is not given; `Assemble` puts class, method and arguments together; `MangleStep` mangles the next
  character; `Export` looks at the ABI and the visibility. `symbol` is what follows `Java_`. The tokens of `source`
  say of a character whether it is in the arguments, since the two mangling functions differ in a few. Three variables are
  there for the properties: `begins` (where in the symbol each character begins) and `origin` (where in the Rust name
  each character of the Java name comes from) are the history of the loops, and `source` would be an iterator.
  The symbol is compared with `ReadAt`, which reads it as the JNI specification does.
* `ModifiedUtf8`: the loop of `is_valid_mutf8_cstr` one round at a time (`ScanStep`; `at` is its `i`, `Width` what it
  adds), and the encoder of a `str` one character at a time (`EncodeStep`, `bytes` what it has written), with
  supplementary characters as two surrogates. Both are compared with `Encodings`: the sets of positions at which
  UTF-16 units in their shortest form begin, follow each other and fill the bytes.

Properties: `SignaturesRight`, `NamesRight`, `StringsRight`.

## The runs

| Run | Instance | What it shows |
|---|---|---|
| `attach` | two native threads and one of the JVM, 3 attachments each, stacks of 3 frames; the JVM refuses, other code attaches, detaches and calls Java | no guard holds a dead `JNIEnv`, no assertion fails, the counter is exact, no attachment outlives its thread, the contract is kept |
| `fibers` | two threads, one with two fibers; two FLS indices, three boxes | records are found again, none is freed twice, the counter is exact, the contract is kept |
| `scoped` | a reference, three exceptions, stacks of 5; frames and catches fail, closures panic and use outer `Env`s | no dangling local reference, levels and frames balanced, no exception lost, the saved one thrown again |
| `vm_startup` | three threads; every step of a start fails or not | the singleton, the library, and progress |
| `references` | two threads, objects, slots and wrappers | ownership of references, answers of upgrades, traces of drops |
| `field_all` | three threads, two boxes, two calls each | nothing freed is reachable until a take has failed, no value is lost, calls return |
| `field_consumed` | two threads | finding 1 |
| `elements` | an array, a string, two guards, two buffers; scopes that end early, no memory, no frames | every buffer has one owner, modes are honoured, exceptions left alone, regions exact but for two named cases |
| `lookup` | two threads, four types (three of them exceptions), four loaders that know the type, do not know it or fail | one class per type, natives registered first, the order of loaders, and progress |
| `calls` | every method, every combination of inputs, any sequence of calls | arguments are checked before they are used, references and exceptions are accounted for |
| `calls_pending` | the same | finding 2 |
| `macros` | invocations with up to 3 properties out of 8 names, 4 classes and some 45 members; every text of up to 4 out of 9 characters, and longer ones made of types, of what is almost a type and of class names, each with the three parsers; 12573 attributes with Rust names of up to 5 characters; C strings of up to 4 bytes, a `str` of up to 5 code units | meanings, types, natives, names, and the three algorithms |

### The bounds

* `MaxAttach` = 3: an attachment, its loss to other code, and a second and third
  one, which is one more than the cycle of `AttachPermanentAgain` needs.
* `MaxDepth` of `ThreadAttachment` = 3: an outer guard, a Java activation and
  a guard on it. The invariant relates a frame only to the one below it. The two native threads are a symmetric
  set; all properties of the run are about safety.
* `fibers`: two threads race for the index, one of them with two records for its attachment;
  the third box is one that is still allocated when the slots have been given others. `MaxLevel` = 2 has one nested guard.
* `MaxDepth` of `ScopedEnv` = 5: a Java activation, a native method, an
  attachment in it and its frame, and one more scope. Three exceptions: one saved, one pending, one new.
* `MaxCalls` = 2 with three threads (`field_all`): a thread can get and then take, or set again
  after its take, while two others are at any step of their calls. Two boxes are enough for a
  freed one next to a live one. An allocation that finds no box left does not happen in the program; there
  the call returns.
* `references`: two slots and two wrappers, both used again and again: enough for a wrapper that
  would refer to a slot that another wrapper has been given since.
* Three threads in `vm_startup`: one that wins the race to create the VM, one that
  loses, one that enters.
* `elements`: arrays of two elements, so that one write leaves another alone; two guards and two
  buffers, for a released address that is given out again while another guard lives; a
  `jsize` of three bits and slices of up to 9, so that a length wraps to a negative number, to zero and to
  one, which the JVM accepts. Handles and buffers are symmetric sets, and every property treats them alike.
* `lookup`: two threads with context loaders that know different classes of one name are the race for `CLASS`. One
  thread's `getContextClassLoader` throws, the other's calls of `get` may fail at every step. Stacks of 4 frames: a lookup, the lookup of a
  catch clause's exception, its static initialiser or that of the type, and the lookup that comes back.
  Two of the three catch clauses' bindings are loaded before; the third is loaded on the way. One call per thread:
  later calls only find the cells set.
* `macros`: three properties are enough for an entry, one that contradicts it and one that uses both;
  four also pass, in 6.5 million states. The names are a type of the program's own, a foreign one, a built-in
  type under its short name, its path and its path with `::`, a core class and two primitive types. Four characters
  reach every way in which a parser goes wrong at once; pairs of pieces between parentheses put each type, and each text that is almost
  a type, before each other and before each return type. The characters of names are digits, letters that are hexadecimal
  digits, "_", separators and characters that are escaped, one of them with two letters as its upper case and one beyond U+FFFF: a
  class or a method of two such characters, and arguments with a segment of two, have each of them before each other; five
  have underscores before, between and behind two letters. Four bytes are the longest sequence
  of UTF-8 that must be refused, and the bytes and characters are those at the boundaries of the forms.

The theorems below do not depend on these bounds.

### Fairness

All modules but three have safety properties only, and no fairness. In `RustField` a thread goes on with a
call it has begun, drops its `MutexGuard` some time and leaves its synchronized block: `WF` of `Step`, `DropMutexGuard` and
`LeaveSynchronized`, per thread. The operating system schedules every thread; nothing is assumed about who wins
a contended lock, and no thread has to begin a call. Under that, a call returns unless
somebody makes calls, or stays in a synchronized block, with a `MutexGuard` in hand: two threads can then wait for the
monitor and the mutex crosswise. `EveryCallReturns` names that case and no other; the
documentation of `get_rust_field` says that it takes both locks, in which order it lets go of
them, and nothing of this. In `VmStartup` and `ClassLookup`
it is `WF` of `Step` per thread, again just the scheduler; nobody has to begin anything.

`CHECK_DEADLOCK FALSE` stands where the system may stop: in `field_all` because of the crosswise wait, in `lookup`
because nobody has to call anything and calls are bounded, in `macros` because an invocation ends. In `lookup` a deadlock
of threads in the middle of a lookup would be a violation of `EveryLookupEnds`. The other runs check for
deadlock; `Terminated` steps mark the states where the program is done.

## What is proved

Every theorem holds for all values of the constants that satisfy the named
assumptions of the module: any number of threads, boxes, slots, objects, names, any depth.

**`ThreadAttachmentProofs`**: `TypeCorrect`, `LiveEnv` (`GuardsHoldLiveEnv`),
`NoAssertionFails` (`AssertionsHold`), `ContractKept` (`KeepsContract`), `CounterIsExact`
(`AttachmentsCounted`), `AttachmentsEnd` (`NoAttachmentOutlivesThread`). The properties
are not inductive: that the level of a guard is the current level when it is dropped
depends on all the frames below it. The invariant `IInv` therefore states the nesting frame by
frame: every frame carries the level it was pushed at, a guard is one above the
frame below it and a Java activation is level with it, an owning guard is at level
1, the level of the thread is that of its top frame, and all frames carry the
current `JNIEnv`. One lemma per action shows `ThreadInv` for its own thread and that
other threads' variables are untouched; the refinement is read off the same lemmas,
each action being a step of the contract or a stutter. For the counter, `Ledger` says of each thread that an attachment
of the crate has a record, an owning guard or a step about to make one; a second lemma per action
says which of the four sets behind `Claims` (records, owners, decrements under way, forgotten records) it changes, and
one claim more or less is one more or less in the cardinality.

**`FiberAttachmentProofs`**: `TypeCorrect`, `RecordsAreOwned` (`RecordsOwned`), `CounterIsExact`
(`AttachmentsCounted`), `ContractKept` (`KeepsContract`). `Threading` says what a thread in the middle of a call may rely on: it has no guard, so its other
fibers and foreign code wait, and the index is set before a record is made. `SlotInv` is
`RecordsOwned` slot by slot; it is inductive, because a slot is given a new box only and a box is freed only with its slot.

**`ScopedEnvProofs`**: `TypeCorrect`, `RefsNeverDangle` (`NoDanglingRef`), `Balanced`
(`ScopesBalanced`), `ExceptionsKept` (`NoExceptionLost`), `OriginalIsReThrown` (`OriginalReThrown`). `ScopesBalanced` speaks of the
whole stack; the invariant has for every scope the number of guards and of frames at and below it, and that
some frame is at or below every Rust scope. No scope
whose frame holds a reference has a higher level than the `Env` its lifetime comes from, so the lifetime has ended
when the frame is popped (`RefInv`). Saved exceptions are distinct from each other and from the pending
one (`ExceptionInv`); otherwise giving one up would lose another.

**`RustFieldProofs`**: `FieldTypeCorrect`, `UntilTakeFails` (`NothingDangles`),
`ValuesAreKept` (`NoValueLost`). `IInv` adds to the properties who is inside the
monitor (a step between lock and return implies ownership, which makes what a call
has read of the field stay true until it returns), what a call's address is, that a live
guard has the mutex of its box, and that a step into undefined behaviour implies a
failed take. Once behaviour is undefined, only types and `NoValueLost` are claimed. Of `EveryCallReturns` all but the
fairness is proved for any number of threads. `OnlyHoldersBlock`: unless somebody holds a `MutexGuard` across a call or
in a `synchronized` block, every call can go on, or waits for a thread that can, or for one that waits for one that can
(first for the monitor, then for the mutex; there is no third link). It needs
`HolderInv`, that whoever has locked a mutex has its guard: an idle thread with a guard can drop it. `CallsAreShort`: a call
takes at most four steps of its own, since none of the three has a loop. What can go on is written out as `CanGoOn`,
the guards of the actions, because `ENABLED` is beyond TLAPS.

**`VmStartupProofs`**: `StartupTypeCorrect`, `LibraryKept` (`LibraryStaysLoaded`),
and `GuardsFindSingleton` (`SingletonBehindGuard`), which assumes `~PendingEntry`:
without that it is false, as noted below the findings. `IInv` counts handles against the set of
threads between load and drop; at most one of these has created the VM, and once it has failed to be attached none has (`Creating`). For the singleton it is enough that a
thread past `get_java_vm` with a guard, or with an exception, has found it. `NoCircularWait` and `StepsAreFew` are what
`StartAndEntryEnd` needs besides fairness: whoever waits for the singleton waits for another thread, whose next
step sets it and waits for nobody (`InitialiserInv`), and what was begun ends after seven steps of its own at most.

**`GlobalRefsProofs`**: `RefsTypeCorrect`, `WrappersOwn` (`WrappersOwnTheirRefs`),
`NoneForgotten` (`NoRefForgotten`), `FreedIsTrue` (`FreedMeansCollected`) and
`NoTraceLeft` (the action property `DropsLeaveNoTrace`). `IInv` says of every reference that it has
at most one owner among wrappers and drops, that what is held strongly is alive, and that
a thread in a drop has the exception it had and is attached as the step it is at
says. Steps that move no reference are handled by one lemma, `RefsUntouched`; the four that do
(a new reference, the start of a drop, its deletion, a refused attachment) have one each.

**`ArrayElementsProofs`**: `MemoryTypeCorrect`, `EachBufferHasOneOwner`
(`BuffersOwned`), `CriticalSectionsUndisturbed`, and the action properties
`ReleaseModesHonoured` (`ReleasesHonourMode`) and `PendingExceptionsKept`
(`ExceptionsKept`). `IInv` states guards and ledger as two sides of one relation
(they agree on object and kind, no buffer has two guards, a buffer has a guard or is stranded),
that a copy of an array holds elements, and that a critical section is open only under an
`AttachGuard`, which is why its release need not ask `GetEnv`. `RegionsMoveAllOrNothing`
(`RegionsAsDocumented`) is about slices of any length. It rests on two lemmas about `as jsize`: it is
a `jsize`, and where it is not negative it is the remainder modulo 2 (JsizeMax + 1), which is 2^32; the JVM accepts
the one exactly if it would accept the other.

*Strings*: `StringsAreRight` (`StringsRight`) and `CodeUnitsAreReadBack`, for C strings and `str`s of any bytes, characters and
length. That a loop takes a string only if it is well-formed is easy to see; that it refuses no other needs that there is never
a second way to read it. `WidthFacts` shows that the loop sees a character of n bytes exactly where a code unit
is encoded in n bytes, from the digits of the unit to the base 64; so no two lengths are possible at one position, and
`StringInv` can say that every encoding of the bytes has a unit that begins where the loop is. For the encoder it says
that the bytes so far are an encoding; a supplementary character is two appended units. The assumptions are what Rust guarantees of a
`CStr` (no NUL byte) and of a `char` (below 1114112).

*Signatures*: `SignaturesAreRight` (`SignaturesRight`), `SignatureInvariant` and `ParsersEnd`, for texts of any length and all three
parsers. The claim is that a text which is taken has one parse in the grammar, which is the one that was found, and one that
is refused has none. Two facts about the grammar carry it: where a descriptor begins determines where it ends, since brackets are followed
by one character that says what the type is, and a class name ends at the first ";"; and no descriptor has a ")" where
a type may begin. The invariant says that what is behind `rest` are brackets and segments of the
type at `typeAt`, and that the descriptors from 2 to `typeAt` begin exactly at `arguments`. Every parse of the grammar
then begins with `arguments` and goes on at `typeAt`, so that an error there refutes all of them, and an end leaves one. The macro ends the
arguments at the first ")", which is the right one unless a class name has one; it matters only when the macro refuses, which is why
`SignaturesRight` excludes these names there and names with a "[" where it accepts. That the parsers end is not liveness here but a bound:
`ParsersEnd` gives a natural number that every step makes smaller, so that a text of n characters takes at most n + 2 steps.
The assumption, `LiteralsAssumption`, is that texts are sequences of characters.

**`BindingProofs`** holds the theorems about everything that makes and uses a binding.

*The type map and the macros*: `MapResolves` and `MapKeepsMeanings` for the type map alone, and for an invocation
`MeaningsAreKept` (`MappingsKept`), `SignaturesAgree` (`TypesAgree`) and `NativesAreBound` (`NativesBound`); for
`native_method!`, `PropertiesAlwaysWin` (`PropertiesWin`, inductive as it stands) and `NativeMeaningsAreKept`. `MapInv` relates
the three maps: every name of a reference type has a class, a type with a class is built in or has its own path among the names
(which is why it cannot be mapped a second time), and a class stands for the type that has it, but for a built-in type
that was mapped again.

*Names*: `NamesAreRight` (`NamesRight`), for any alphabet, classes, methods and arguments of any length. That a
symbol can be read back depends on what follows a character: an underscore is a separator only if no escape and no second
underscore comes next. `ManglingInvariant` therefore keeps two things apart. `SourceInv` says which characters follow
each other in what is mangled, from the validation of the class and from what a Java name may be; it is proved of each part and of the
places where they are joined (`Chained`, `ChainJoin`). `SymbolInv` says that each character of the symbol stands where `begins` has it and ends where the next begins.
`ReadBack` puts them together, one case for each form of a mangled character. For the Java name, `CamelInv` says
of every prefix of the Rust name which letters have been copied, that underscores are only at the end if the name does not
begin with one, and that a name that is settled is copied as it is. `CharactersAssumption` is what the characters of Rust and
of the JNI specification are: letters and digits in ASCII are not escaped, others have at least four hexadecimal digits and different
characters different ones, and no upper case is empty or has an underscore.

*Class lookup*: `LookupsTyped`, `BindingsAreOne` (`BindingsAgree`), `NativesComeFirst` (`NativesBeforeInit`) and
`LoadersInOrder` (`FirstLoaderWins`), for any number of threads, types and loaders, any answers of the loaders,
any two orders of the catch clauses and stacks of any depth. The cells say nothing of the calls that are on their way to them, so
`LookupInv` is stated frame by frame. `ClassOfFrame`: a call past `CLASS` works with the class that is in it
(whichever of the racing threads has put it there), and past the registration with one whose natives are registered. `SearchOfFrame`:
where the chain of loaders has come to, what each loader asked before has answered, and that the exception being
matched is the one the loader threw. `InitialiserInv`: only a registered class is being initialised, and one that
was initialised before belongs to a type without native callbacks. All of it is kept by the other threads, because a cell is written
once and a class stays registered (`Grows`); each action has a lemma for the frames it changes.

`LookupsWaitForOne` is the heart of `EveryLookupEnds`: a thread that waits for a static initialiser waits for one that is
running it and waits for nobody, so that there is never a circle, however many types have initialisers that call back. `WaitInv` says
how calls lie on each other on a stack: under the innermost call there is at most one initialiser, right under it, and then
that call is the `get` of its native method, of the same type and never in a search (`Shape`, `Nested`). It never searches because the class that
is being initialised is the one in `CLASS`, and it waits for no initialiser because that one is its own. An exception type's
initialiser may run on top of a search, but no search on top of an initialiser.

*Calls*: `CallsTyped`, `JvmIsCalledRight` (`JvmCalledRight`), `LocalsAreAccounted` (`LocalsAccounted`) and
`ExceptionsAreReported` (`ExceptionsReported`), for any set of the methods and any sequence of calls. The proof has two halves.
Each method's steps are `Right`, for every input: a step that would give the JVM a wrong argument comes after a requirement that
does not hold, a class or an ID is taken only after a step that looks it up, only the last step makes a reference
(or the throw that uses it up follows), and a method that catches exceptions reports none of its own. This is shown one
step after the other: `Ready` collects what the steps so far have made sure of, and a lemma for each kind of step says what it
needs and what it adds, so that a method is a short chain of them. The other half, `CallsInv`, says the
same of the steps that are left, with what is known so far read off the state (`ToDo`); that at most one
reference is held, at the end or just before it is thrown (`Made`); and that a call does not go on after an exception of its own
(`Thrown`). Every action keeps it, since the tail of right steps is right.

The assumptions are those on the constants: which methods and which ways to name a class there are (`MethodsAssumption`,
`ClassFormsAssumption`), that the answers of the loaders are classes or exceptions (`WorldsAssumption`), and that
two types never have one class, which is what a class name is (`ClassNamesAssumption`); `NobodyAssumption` only
says that the name for no thread is not the name of one.

The proofs have corrected the model twice. `Misused` looked at null classes and IDs only, and a method that took
one it had never looked up would not have been noticed; now it is. And the order of loaders was a `CASE` with two guards true at once
for an object whose thread cannot name its context loader.

Only model-checked: the liveness properties `EveryCallReturns`, `StartAndEntryEnd` and
`EveryLookupEnds`, since TLAPS does not reason about fairness. Every other property of a passing run is stated by a theorem, and of
these three it is proved who can wait for whom. That the steps of a lookup are bounded is not: catch
clauses call `get` again, to a depth that depends on what the loaders answer.

## Findings

Each is a counterexample of a run that checks what a comment or the documentation says.

1. `field_consumed`: `take_rust_field` on a locked mutex frees the box under the
   `MutexGuard` and leaves its address in the field (`env.rs:4393`); the comment above
   says that the lock prevents this.
2. `calls_pending`: a call that names its class, or is the first to need a binding, made while an exception is pending
   clears that exception and succeeds (`macros.rs:335`, reached through `descriptors/class_desc.rs` and
   `refs/loader_context.rs:103`); the documentation of `Env::throw` (`env.rs:991-992`) says that
   such calls return `JavaException`.

Seen while modelling; the models do what the code does, and no run is about the difference.

*Attachment*

* `detach_current_thread` from a native method that other code has
  reached through Java: the JVM refuses, the result is dropped, and so is the
  record that would have detached the thread at its end (`vm/java_vm.rs:1415`; the documentation at 782-783 promises the detachment).
  `NoAttachmentOutlivesThread` names this exception.
* A permanent attachment that other code has undone, followed by a refused re-attachment,
  loses its record but not its count (`vm/tls_attach_guard.rs:91`). On Windows the box of a
  record that is replaced is not freed, and neither is the index of the slower of two threads (`vm/fls_attach_guard.rs:224`, `:154`).
* `detach_current_thread` with a record whose attachment was undone detaches the
  attachment other code has made since, although its documentation
  (`vm/java_vm.rs:772-773`) speaks of the crate's own. The callback of a fiber does the same.
* The first guard of a process made with an exception pending leaves the singleton unset
  (`vm/java_vm.rs:1639`), which the drops of `Global` and `Weak` rely on. `PendingEntry` of `VmStartup` is that case.

*Start-up*

* The `?` of `tls_attach_current_thread` and `fls_attach_current_thread` (`vm/java_vm.rs:310`, `:314`) fails
  `JavaVM::new` when the VM runs and the singleton is set: `AttachCurrentThread` may refuse and, on Windows, `FlsAlloc` or `FlsSetValue`.
  Then `result.is_ok()` (`:360`) is false, `forget(libjvm)` is skipped and the library of the running VM is closed, although
  the comment at 361-365 says that the program will crash if it is; the next `JavaVM::new` returns that VM.
  `LibraryStaysLoaded` names this exception.

*Exceptions*

* A panic in an attachment closure loses the exception saved before it
  (`vm/java_vm.rs:635-636` promises to throw it again), and so does an exception that
  cannot be caught (`vm/java_vm.rs:1693`).
* A closure that returns `Ok` while the saved exception is thrown again leaves the
  caller with `Ok` and an exception pending (`vm/java_vm.rs:1126-1127` says otherwise).
* Without memory for a local frame, a method that catches exceptions reports another error and leaves the exception pending.

*References, memory and calls*

* Upgrading a null `Weak` gives `Some(null)`, although `Weak::null` is documented to
  act like one whose object was collected (`refs/weak.rs:176`, `env.rs:1749`).
* The documentation of the casts names `ClassNotFound`, which
  `is_instance_of_cast_type` turns into `WrongObjectType` (`env.rs:889-898`).
* `buf.len() as jsize` wraps; for a slice of 2^32 elements or a few
  more `get_region` and `set_region` return `Ok` and have moved none or a few
  (`objects/type_array.rs:166`, `:191`; `objects/jprimitive_array.rs:315` and `:319-320` say otherwise).
* `get_element` and `set_element` of `JObjectArray` return `InvalidArguments`, and not `IndexOutOfBounds`, for
  an index above `i32::MAX` (`objects/jobject_array.rs:285-289`, `:320-324`; the documentation at 269 and 305 says `IndexOutOfBounds`).
  `RegionsAsDocumented` names both cases.
* A guard on the elements of an array that a `Global` refers to borrows no
  `Env`; dropped after its thread was detached it neither writes back nor frees the buffer
  (`elements/auto_elements.rs:93`; the comment at line 91 says this cannot be).
* A null class, and a null throwable, are passed to the JVM although `env.rs:157-158` promises `NullPtr`;
  `call_nonvirtual_method` does not compare the class with the object; `throw` with a class that is no `Throwable` leaves a local reference.

*Class lookup*

* The catch clauses of the chain need bindings that are found by the same chain
  (`refs/loader_context.rs:103-116`). A loader that fails with something other than a missing class while the
  binding of such an exception is itself being loaded starts the lookup of that binding again, and again. In `lookup` the exceptions are found by every loader, as they are in a JVM.
* The documentation of `load_class` (`refs/loader_context.rs:54-60`) promises `NoClassDefFound` for three errors that come out as
  `LinkageError`, and the fallback to `FindClass` does not look at `initialize`.

*Macros*

* The signature macro takes `"(V)V"`, class names with a "[" and any literal with a dot
  (`jni-macros/signature.rs`); void is taken as the type of a field or a parameter.
  A literal with a leading dot, `".NoPackage"`, becomes `"L/NoPackage;"` (`JavaClassName` gives the dot its meaning, at
  `jni-macros/types.rs:141`; `docs/macros/jni_sig.md:57` has this literal). `SignaturesRight` names these cases. No parser counts brackets; the JVM takes at most 255.
* A type of the crate under the path `::jni::objects::JList` is not one of the built-in names: user code can map it
  again, which the documentation of `insert_ref_type` excludes, and the mapping is then not checked. `TypesAgree` and `MappingsKept` name this case.
* Panics of a macro where an error is meant: `export = "name"` without `java_type`, a type of a native method that nobody has
  mapped, a primitive name mapped to a class, an array of arrays written `[[T]]`: the type is parsed as an array whose element is
  an array (`jni-macros/types.rs:293`), which the expansion holds to be unreachable (`:1255-1260`). The suffix form `T[][]`
  counts dimensions (`:343-348`) and works. The macros of `Macros` have arrays of one dimension only, so no run sees this.
* A second `constructors` block replaces the first; `rust_type_vis` before the shorthand is discarded; `non_null` is
  accepted for a type that a later entry makes a primitive; `export = false` followed by `extern` exports in `native_method!`.
* A character beyond U+FFFF in a method name is mangled with five digits
  (`jni-macros/mangle.rs:329`), which is also the name of a four-digit character
  followed by a digit. `NamesRight` leaves such names out.
* `snake_case_to_lower_camel_case` is documented as idempotent; a name with two leading underscores
  changes twice. `NamesRight` claims it for names without leading underscores.

## What is not modelled

* VM options (`vm/init_args`): a builder with one field of state, and conversions that are an interface of
  the operating system. `destroy()`, the use of a `JavaVM` after it, and unsafe functions called
  against their contracts are the caller's business.
* Wrappers of Java classes (`objects/*`): each is one call through a generated binding. Constants and raw bindings.
* Of exceptions, the matching to typed handlers other than in `ClassLookup`, and error policies a user writes. Of arrays, their creation.
* Of the macros, hooks, attributes and the private properties; blocks have one member and a type map one
  entry per property, since several are the same as several properties. The Rust compiler checks the rest of what is generated.
* The garbage collector moves nothing a model could see; the memory of the JVM is reduced to slots. A process that exits while threads
  are attached, and fibers that move between threads, are not considered.

## How the development is ordered

Attachment came first, since everything stands on it; then what is shared between threads
(`RustField`, `VmStartup`, `GlobalRefs`, `ClassLookup`, `FiberAttachment`), then what one thread does inside its guards
(`ScopedEnv`, `ArrayElements`, `Calls`), then what happens at compile time. A change of the code is followed from
its row in the table above to the module, and from the definition's entry under "map" in `PROJECT.json` to
its lines; the run of the module, then its proofs, say what has become of the properties. What would be worth adding next:
typed exception handlers, and blocks with several members in the macros.
