----------------------------- MODULE Execution -----------------------------
(***************************************************************************)
(* What happens inside one exchange between execute.start and its end:     *)
(* the dependencies of the handler are resolved, with their cache and the  *)
(* exit stack; the handler runs; generators are left, the outcome is       *)
(* reported, and the context removes the temporary paths.                  *)
(*                                                                         *)
(* ExternalTaskProcessor._handle_execute_start_event, the package          *)
(* dependencies, contextmanager_in_threadpool and Context.__aexit__.  The  *)
(* values of variables, and how the report travels (TaskExchange), are     *)
(* left out.                                                               *)
(***************************************************************************)
EXTENDS Naturals, Sequences, SequencesExt

CONSTANTS
  Handler,     \* the handler of the task
  Callable,    \* what parameters may depend on: Depends(callable)
  Signatures,  \* for each function, its Depends parameters in order
  MaxPaths     \* bound: temporary paths taken from the context

ASSUME HandlerAssumption == Handler \notin Callable
ASSUME SignaturesAssumption ==
  \A sig \in Signatures : sig \in [Callable \cup {Handler} -> Seq(Callable)]
ASSUME MaxPathsAssumption == MaxPaths \in Nat

VARIABLES
  params,   \* the signatures of this program
  kind,     \* what a callable is: a function ("call") or a generator
  frames,   \* calls of resolve_dependencies, the innermost one last
  caches,   \* the dictionaries that were made for dependency_cache
  values,   \* the results of dependencies, oldest first
  stack,    \* AsyncExitStack: the generators that were entered
  pc,       \* where the processor is
  handler,  \* the handler's task, and what it leaves behind
  output,   \* the local variable output is bound
  exc,      \* the exception on its way
  paths,    \* Context.temp_paths
  \* history
  reported, \* the outcome was sent, and the send returned
  jammed,   \* the path whose removal raised, or 0
  stopped   \* asyncio.run cancelled the tasks of the process

program == <<params, kind>>
resolution == <<frames, caches>>
history == <<reported, jammed, stopped>>
vars == <<program, resolution, values, stack, pc, handler, output, exc, paths,
          history>>

\* inspect.isgeneratorfunction, isasyncgenfunction, or anything else
Kinds == {"call", "gen", "agen"}

\* Delete: NEVER, ON_SUCCESS, ON_FAILURE, ALWAYS
Flags == {"never", "success", "failure", "always"}

\* A dictionary from callables to their values; 0 where there is no entry.
EmptyCache == [c \in Callable |-> 0]

Values == [call : Callable, args : Seq(Nat), serves : Nat,
           state : {"made", "open", "left", "abandoned"}]

TypeOK ==
  /\ params \in Signatures /\ kind \in [Callable -> Kinds]
  /\ frames \in Seq([call : Callable \cup {Handler}, args : Seq(Nat),
                     cache : 1 .. Len(caches)])
  /\ caches \in Seq([Callable -> 0 .. Len(values)])
  /\ values \in Seq(Values)
  /\ \A v \in DOMAIN values : ToSet(values[v].args) \subseteq 1 .. v - 1
  /\ ToSet(stack) = {v \in DOMAIN values : values[v].state = "open"}
  /\ pc \in {"resolving", "running", "unwinding", "reporting", "receiving",
            "leaving", "over"}
  /\ handler \in {"off", "running", "behind", "done"}
  /\ output \in BOOLEAN
  /\ exc \in {"none", "error", "cancelled"}
  /\ paths \in Seq([flag : Flags, gone : BOOLEAN, late : BOOLEAN])
  /\ Len(paths) <= MaxPaths
  /\ reported \in BOOLEAN /\ stopped \in BOOLEAN
  /\ jammed \in 0 .. Len(paths)

\* build_dependant made the tree of the handler's parameters; the exit stack
\* is entered and resolve_dependencies is called without a cache.
Init ==
  /\ params \in Signatures /\ kind \in [Callable -> Kinds]
  /\ frames = <<[call |-> Handler, args |-> <<>>, cache |-> 1]>>
  /\ caches = <<EmptyCache>>
  /\ values = <<>>
  /\ stack = <<>>
  /\ pc = "resolving"
  /\ handler = "off"
  /\ output = FALSE
  /\ exc = "none"
  /\ paths = <<>>
  /\ reported = FALSE
  /\ jammed = 0
  /\ stopped = FALSE

-----------------------------------------------------------------------------
(* Resolving: resolve_dependencies and its calls of itself *)

Top == Last(frames)
Caller == frames[Len(frames) - 1]

\* Parameters of a call are left to resolve.
Pending(frame) == Len(frame.args) < Len(params[frame.call])

\* Deviation: the cache is not handed down.
OwnCache(cache) == TRUE

\* "dependency_cache or {}": an empty dictionary is false, and replaced.
Replaced(cache) == cache = EmptyCache

\* The next parameter is resolved by a call of its own, for the parameters of
\* its callable, before the cache is asked for it.
Descend ==
  /\ pc = "resolving" /\ Pending(Top)
  /\ LET fresh == Replaced(caches[Top.cache])
         frame == [call  |-> params[Top.call][Len(Top.args) + 1],
                   args  |-> <<>>,
                   cache |-> IF fresh THEN Len(caches) + 1 ELSE Top.cache]
     IN  /\ frames' = Append(frames, frame)
         /\ caches' = IF fresh THEN Append(caches, EmptyCache) ELSE caches
  /\ UNCHANGED <<program, values, stack, pc, handler, output, exc, paths,
                 history>>

\* The call returns; its caller has the value v for the parameter.
Return(v) ==
  /\ frames' = Append(Front(Front(frames)), [Caller EXCEPT !.args = Append(@, v)])
  /\ caches' = [caches EXCEPT ![Caller.cache][Top.call] = v]

\* The dependency whose own parameters are resolved.
Ready == pc = "resolving" /\ Len(frames) > 1 /\ ~Pending(Top)

Cached == caches[Caller.cache][Top.call]

TakeCached ==
  /\ Ready /\ Cached # 0
  /\ Return(Cached)
  /\ UNCHANGED <<program, values, stack, pc, handler, output, exc, paths,
                 history>>

NewValue(state) ==
  [call |-> Top.call, args |-> Top.args, serves |-> Len(frames[1].args) + 1,
   state |-> state]

\* Deviation: a generator is entered without the exit stack.
CallUnstacked ==
  /\ Ready /\ Cached = 0
  /\ Return(Len(values) + 1)
  /\ values' = Append(values,
                      NewValue(IF kind[Top.call] = "call" THEN "made" ELSE "open"))
  /\ UNCHANGED <<program, stack, pc, handler, output, exc, paths, history>>

\* The callable is called, a generator is entered.
Call ==
  /\ Ready /\ Cached = 0
  /\ LET v == Len(values) + 1
     IN  /\ Return(v)
         /\ \/ /\ kind[Top.call] = "call"
               /\ values' = Append(values, NewValue("made"))
               /\ UNCHANGED stack
            \/ /\ kind[Top.call] # "call"
               /\ values' = Append(values, NewValue("open"))
               /\ stack' = Append(stack, v)
  /\ UNCHANGED <<program, pc, handler, output, exc, paths, history>>

\* The callable raises, a generator before its yield; or the variables and
\* models that a function asks for are not valid, which is found before its
\* dependencies are resolved.
ResolvingRaises ==
  /\ pc = "resolving"
  /\ (Ready /\ Cached = 0) \/ Top.args = <<>>
  /\ pc' = "unwinding"
  /\ exc' = "error"
  /\ frames' = <<>>
  /\ UNCHANGED <<program, caches, values, stack, handler, output, paths,
                 history>>

-----------------------------------------------------------------------------
(* The handler, and the exit stack that is left after it *)

StartHandler ==
  /\ pc = "resolving" /\ Len(frames) = 1 /\ ~Pending(Top)
  /\ pc' = "running"
  /\ handler' = "running"
  /\ UNCHANGED <<program, resolution, values, stack, output, exc, paths,
                 history>>

\* The handler returns or raises; coroutines and threads that it started and
\* did not wait for stay behind.
HandlerEnds ==
  /\ pc = "running" /\ handler = "running"
  /\ pc' = "unwinding"
  /\ handler' \in {"behind", "done"}
  /\ \/ output' = TRUE /\ UNCHANGED exc
     \/ exc' = "error" /\ UNCHANGED output
  /\ UNCHANGED <<program, resolution, values, stack, paths, history>>

\* A cancelled handler ends after its caller went on.
HandlerEndsLate ==
  /\ pc # "running" /\ handler = "running"
  /\ handler' = "done"
  /\ UNCHANGED <<program, resolution, values, stack, pc, output, exc, paths,
                 history>>

\* contextmanager_in_threadpool catches Exception: of a cancellation the
\* generator behind it is not told.
Skipped(v) == kind[values[v].call] = "gen" /\ exc = "cancelled"

\* Deviation: a generator that raises ends the unwinding.
UnwindUntilRaise ==
  /\ pc = "unwinding" /\ stack # <<>>
  /\ LET v == Last(stack)
     IN  /\ values' = [values EXCEPT ![v].state = "left"]
         /\ exc' \in {exc, "error", "none"}
         /\ stack' = Front(stack)
         /\ pc' = IF exc = "none" /\ exc' = "error" THEN "leaving" ELSE pc
  /\ UNCHANGED <<program, resolution, handler, output, paths, history>>

\* Deviation: generators are left in the order they were entered.
UnwindOldestFirst ==
  /\ pc = "unwinding" /\ stack # <<>>
  /\ LET v == Head(stack)
     IN  /\ stack' = Tail(stack)
         /\ values' = [values EXCEPT ![v].state = "left"]
         /\ exc' \in {exc, "error", "none"}
  /\ UNCHANGED <<program, resolution, pc, handler, output, paths, history>>

\* The youngest generator is left.  It may pass the exception on, replace it,
\* swallow it, or raise one of its own.
Unwind ==
  /\ pc = "unwinding" /\ stack # <<>>
  /\ LET v == Last(stack)
     IN  /\ stack' = Front(stack)
         /\ values' = [values EXCEPT ![v].state =
                         IF Skipped(v) THEN "abandoned" ELSE "left"]
         /\ exc' \in IF Skipped(v) THEN {exc} ELSE {exc, "error", "none"}
  /\ UNCHANGED <<program, resolution, pc, handler, output, paths, history>>

\* Behind the stack: an output goes on to be reported.  If the exception was
\* swallowed and there is no output, reading it raises.
Unwound ==
  /\ pc = "unwinding" /\ stack = <<>>
  /\ \/ /\ exc = "none" /\ output
        /\ pc' = "reporting"
        /\ UNCHANGED exc
     \/ /\ exc # "none" \/ ~output
        /\ pc' = "leaving"
        /\ exc' = IF exc = "none" THEN "error" ELSE exc
  /\ UNCHANGED <<program, resolution, values, stack, handler, output, paths,
                 history>>

\* The output is encoded and sent, or a result sends itself; both may raise.
\* A result that reports a failure is reported like any other.
Report ==
  /\ pc = "reporting"
  /\ \/ pc' = "receiving" /\ reported' = TRUE /\ UNCHANGED exc
     \/ pc' = "leaving" /\ exc' = "error" /\ UNCHANGED reported
  /\ UNCHANGED <<program, resolution, values, stack, handler, output, paths,
                 jammed, stopped>>

\* The end event, for which the processor waits inside the context.
ReceiveEnd ==
  /\ pc = "receiving"
  /\ pc' = "leaving"
  /\ UNCHANGED <<program, resolution, values, stack, handler, output, exc, paths,
                 history>>

-----------------------------------------------------------------------------
(* Temporary paths *)

\* Dependencies, the handler, generators on their way out, and whatever the
\* handler left behind may ask the context for a path.
UserCodeRuns ==
  pc \in {"resolving", "running", "unwinding"} \/ handler \in {"running", "behind"}

TakePath ==
  /\ UserCodeRuns /\ Len(paths) < MaxPaths
  /\ \E flag \in Flags :
       paths' = Append(paths, [flag |-> flag, gone |-> FALSE, late |-> pc = "over"])
  /\ UNCHANGED <<program, resolution, values, stack, pc, handler, output, exc,
                 history>>

\* Deviation: any flag but NEVER removes.
DueUnlessNever(path) == path.flag # "never"

\* TempPath.to_be_deleted: an exception that leaves the context is an error.
Due(path) ==
  path.flag \in {"always", IF exc = "none" THEN "success" ELSE "failure"}

\* Context.__aexit__: the paths are removed one after the other until the
\* removal of one raises.
RemovePaths ==
  /\ pc = "leaving"
  /\ pc' = "over"
  /\ \/ /\ paths' = [i \in DOMAIN paths |-> [paths[i] EXCEPT !.gone = Due(paths[i])]]
        /\ UNCHANGED <<exc, jammed>>
     \/ \E n \in DOMAIN paths :
          /\ Due(paths[n])
          /\ jammed' = n
          /\ paths' = [i \in DOMAIN paths |->
                         [paths[i] EXCEPT !.gone = i < n /\ Due(paths[i])]]
          /\ exc' = "error"
  /\ UNCHANGED <<program, resolution, values, stack, handler, output, reported,
                 stopped>>

-----------------------------------------------------------------------------
(* The process ends: asyncio.run cancels every task, each at its await *)

\* What awaits in a callable, or for the handler, leaves it behind and goes on
\* with the exit stack.  A generator that is being entered in a thread gets to
\* its yield, and nobody knows of it.
CancelResolving ==
  /\ pc = "running" \/ (Ready /\ Cached = 0)
  /\ ~stopped
  /\ stopped' = TRUE
  /\ pc' = "unwinding"
  /\ exc' = "cancelled"
  /\ frames' = <<>>
  /\ \/ UNCHANGED values
     \/ /\ pc = "resolving" /\ kind[Top.call] = "gen"
        /\ values' = Append(values, NewValue("abandoned"))
  /\ UNCHANGED <<program, caches, stack, handler, output, paths, reported,
                 jammed>>

\* The generator that is being left is interrupted.
CancelUnwinding ==
  /\ pc = "unwinding" /\ stack # <<>> /\ ~stopped
  /\ stopped' = TRUE
  /\ values' = [values EXCEPT ![Last(stack)].state = "left"]
  /\ stack' = Front(stack)
  /\ exc' \in {"cancelled", "error", "none"}
  /\ UNCHANGED <<program, resolution, pc, handler, output, paths, reported,
                 jammed>>

CancelReport ==
  /\ pc = "reporting" /\ ~stopped
  /\ stopped' = TRUE
  /\ pc' = "leaving"
  /\ exc' = "cancelled"
  /\ UNCHANGED <<program, resolution, values, stack, handler, output, paths,
                 reported, jammed>>

\* The outcome is reported, and what leaves the context is an error.
CancelReceiving ==
  /\ pc = "receiving" /\ ~stopped
  /\ stopped' = TRUE
  /\ pc' = "leaving"
  /\ exc' = "cancelled"
  /\ UNCHANGED <<program, resolution, values, stack, handler, output, paths,
                 reported, jammed>>

\* The task that removes the paths is cancelled before it starts: shield()
\* does not keep asyncio.run from it.
CancelRemoval ==
  /\ pc = "leaving" /\ ~stopped
  /\ stopped' = TRUE
  /\ pc' = "over"
  /\ exc' = "cancelled"
  /\ UNCHANGED <<program, resolution, values, stack, handler, output, paths,
                 reported, jammed>>

-----------------------------------------------------------------------------

Resolve == Descend \/ TakeCached \/ Call \/ ResolvingRaises \/ StartHandler
Cancel ==
  \/ CancelResolving \/ CancelUnwinding \/ CancelReport \/ CancelReceiving
  \/ CancelRemoval

Next ==
  \/ Resolve \/ HandlerEnds \/ HandlerEndsLate \/ Unwind \/ Unwound \/ Report
  \/ ReceiveEnd \/ TakePath \/ RemovePaths \/ Cancel

Spec == Init /\ [][Next]_vars

-----------------------------------------------------------------------------
(* Properties *)

\* Parameters of one call that depend on the same callable get one value.
ParametersAgree(call, args) ==
  \A i, j \in DOMAIN args :
    params[call][i] = params[call][j] => args[i] = args[j]

\* A callable is called again for its second value only because the first one
\* was made on behalf of the handler's first parameter, whose cache is lost.
\* From the second parameter on, what is made is shared, however deep it is
\* needed; and the parameters of each call agree.
SharedAfterFirst ==
  /\ \A v, w \in DOMAIN values :
       v # w /\ values[v].call = values[w].call =>
         1 \in {values[v].serves, values[w].serves}
  /\ \A v \in DOMAIN values : ParametersAgree(values[v].call, values[v].args)
  /\ handler = "running" /\ ~stopped => ParametersAgree(Handler, frames[1].args)

\* What a value was made from, directly or through other values.
Sources[v \in DOMAIN values] ==
  UNION {{w} \cup Sources[w] : w \in ToSet(values[v].args)}

\* No generator is left while another one that was made from it is open, nor
\* any while the handler runs, unless the process stops.
OpenWhileUsed ==
  /\ \A v \in DOMAIN values : values[v].state = "open" =>
       \A w \in Sources[v] : values[w].state # "left"
  /\ handler = "running" /\ ~stopped =>
       \A v \in DOMAIN values : values[v].state # "left"

\* When the outcome is reported, or an exception leaves the processor, every
\* generator that was entered has been left, whatever the others raised, except
\* for generators in threads when the process stops.
LeftBeforeReport ==
  pc \in {"reporting", "receiving", "leaving", "over"} =>
    \A v \in DOMAIN values :
      \/ values[v].state \in {"made", "left"}
      \/ values[v].state = "abandoned" /\ kind[values[v].call] = "gen" /\ stopped

\* A path is removed as its flag says of the outcome, behind everything that
\* may use it; only a stop of the process may take a reported outcome for a
\* failure.  And the path is removed, unless it was asked for when the
\* execution was over, an earlier removal raised, or the process stops.
PathsFollowFlags ==
  /\ \A i \in DOMAIN paths : paths[i].gone =>
       /\ \/ paths[i].flag \in {"always", IF reported THEN "success" ELSE "failure"}
          \/ paths[i].flag = "failure" /\ stopped
       /\ handler = "running" => stopped
       /\ stack = <<>>
  /\ pc = "over" /\ ~stopped =>
       \A i \in DOMAIN paths :
         \/ paths[i].gone \/ paths[i].late
         \/ jammed # 0 /\ i >= jammed
         \/ paths[i].flag \in {"never", IF reported THEN "failure" ELSE "success"}

=============================================================================
