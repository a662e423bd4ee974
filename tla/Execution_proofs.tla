--------------------------- MODULE Execution_proofs ---------------------------
(***************************************************************************)
(* Theorems about Execution, for every program of functions and            *)
(* generators, every outcome and any number of temporary paths.            *)
(***************************************************************************)
EXTENDS Execution, SequenceTheorems, WellFoundedInduction, TLAPS

Function == Callable \cup {Handler}
Frame == [call : Function, args : Seq(Nat), cache : Nat]
Path == [flag : Flags, gone : BOOLEAN, late : BOOLEAN]

(* Types of the variables, each for itself. *)
Typed ==
  /\ params \in Signatures /\ kind \in [Callable -> Kinds]
  /\ frames \in Seq(Frame)
  /\ caches \in Seq([Callable -> Nat])
  /\ values \in Seq(Values)
  /\ stack \in Seq(Nat)
  /\ pc \in {"resolving", "running", "unwinding", "reporting", "receiving",
            "leaving", "over"}
  /\ handler \in {"off", "running", "behind", "done"}
  /\ output \in BOOLEAN
  /\ exc \in {"none", "error", "cancelled"}
  /\ paths \in Seq(Path) /\ Len(paths) <= MaxPaths
  /\ reported \in BOOLEAN /\ stopped \in BOOLEAN
  /\ jammed \in 0 .. Len(paths)

(* The outcome is reported without an exception, and behind the stack;     *)
(* only a stop of the process brings one between the report and the end.   *)
Outcomes ==
  /\ reported => pc \in {"receiving", "leaving", "over"}
  /\ pc \in {"reporting", "receiving"} => exc = "none"
  /\ pc = "receiving" => reported
  /\ pc = "leaving" =>
       IF exc = "none" THEN reported ELSE reported => stopped
  /\ exc = "cancelled" => stopped
  /\ handler = "running" => pc = "running" \/ stopped
  /\ pc \in {"reporting", "receiving", "leaving", "over"} => stack = <<>>

(* Paths are removed in the end only, and as their flags say. *)
Removals ==
  /\ \A i \in 1 .. Len(paths) : paths[i].gone =>
       /\ pc = "over"
       /\ \/ paths[i].flag \in {"always", IF reported THEN "success" ELSE "failure"}
          \/ paths[i].flag = "failure" /\ stopped
  /\ pc = "over" /\ ~stopped => \A i \in 1 .. Len(paths) :
       \/ paths[i].gone \/ paths[i].late
       \/ jammed # 0 /\ i >= jammed
       \/ paths[i].flag \in {"never", IF reported THEN "failure" ELSE "success"}

(* On the exit stack are the generators that are open, in the order they  *)
(* were entered; what was left is younger than what is open.              *)
Generators ==
  /\ \A i \in 1 .. Len(stack) : stack[i] \in 1 .. Len(values)
  /\ \A i, j \in 1 .. Len(stack) : i < j => stack[i] < stack[j]
  /\ \A v \in 1 .. Len(values) :
       values[v].state = "open" <=> \E i \in 1 .. Len(stack) : stack[i] = v
  /\ \A v, w \in 1 .. Len(values) :
       values[v].state = "open" /\ values[w].state = "left" => v < w
  /\ pc \in {"resolving", "running"} =>
       \A v \in 1 .. Len(values) : values[v].state # "left"
  /\ \A v \in 1 .. Len(values) : values[v].state = "abandoned" =>
       kind[values[v].call] = "gen" /\ stopped

(* Calls are for the next parameter of their caller, and what a call has  *)
(* is in its cache.                                                       *)
Framed ==
  /\ Len(caches) > 0
  /\ pc = "resolving" => Len(frames) > 0
  /\ pc = "running" => Len(frames) = 1
  /\ \A k \in 1 .. Len(frames) :
       /\ frames[k].cache \in 1 .. Len(caches)
       /\ k = 1 => frames[k].call = Handler /\ frames[k].cache = 1
       /\ k > 1 =>
            /\ Len(frames[k - 1].args) < Len(params[frames[k - 1].call])
            /\ frames[k].call =
                 params[frames[k - 1].call][Len(frames[k - 1].args) + 1]
       /\ \A i \in 1 .. Len(frames[k].args) :
            /\ frames[k].args[i] \in 1 .. Len(values)
            /\ caches[frames[k].cache][params[frames[k].call][i]] = frames[k].args[i]
  /\ \A n \in 1 .. Len(caches) : \A c \in Callable : caches[n][c] <= Len(values)

(* Once the handler's first parameter is there, all calls share its cache. *)
Handed ==
  Len(frames) > 0 /\ Len(frames[1].args) > 0 =>
    /\ caches[1] # EmptyCache
    /\ \A k \in 1 .. Len(frames) : frames[k].cache = 1

(* What is made from then on is found there, unless it is what the        *)
(* processor was about to get when the process stopped.                   *)
Shared ==
  /\ \A v \in 1 .. Len(values) :
       /\ values[v].serves > 0
       /\ values[v].serves > 1 =>
            \/ caches[1][values[v].call] = v
            \/ /\ caches[1][values[v].call] = 0
               /\ v = Len(values) /\ pc # "resolving"
       /\ \A i \in 1 .. Len(values[v].args) : values[v].args[i] \in 1 .. (v - 1)
       /\ ParametersAgree(values[v].call, values[v].args)

IInv == Typed /\ Outcomes /\ Removals /\ Generators /\ Framed /\ Handed /\ Shared
-----------------------------------------------------------------------------
(* Sequences.                                                               *)

(* The last element and what is before it. *)
LEMMA Fronts ==
  ASSUME NEW S, NEW s \in Seq(S), Len(s) > 0
  PROVE  /\ Last(s) = s[Len(s)] /\ Last(s) \in S
         /\ Front(s) \in Seq(S) /\ Len(Front(s)) = Len(s) - 1
         /\ \A i \in 1 .. (Len(s) - 1) : Front(s)[i] = s[i]
<1>1. Len(s) \in Nat /\ Len(s) \in 1 .. Len(s)
  OBVIOUS
<1>2. Last(s) = s[Len(s)] /\ Last(s) \in S
  BY <1>1 DEF Last
<1>3. /\ SubSeq(s, 1, Len(s) - 1) \in Seq(S)
      /\ Len(SubSeq(s, 1, Len(s) - 1)) = Len(s) - 1
      /\ \A i \in 1 .. (Len(s) - 1) : SubSeq(s, 1, Len(s) - 1)[i] = s[i]
  <2> DEFINE n == Len(s) - 1
  <2>1. n \in Nat /\ n <= Len(s) /\ 1 \in 1 .. Len(s) + 1 /\ n \in 0 .. Len(s)
    BY <1>1
  <2> HIDE DEF n
  <2>2. /\ SubSeq(s, 1, n) \in Seq(S) /\ Len(SubSeq(s, 1, n)) = n
        /\ \A i \in 1 .. n : SubSeq(s, 1, n)[i] = s[i]
    BY <1>1, <2>1
  <2> QED
    BY <2>2 DEF n
<1>4. Front(s) = SubSeq(s, 1, Len(s) - 1)
  BY DEF Front
<1> QED
  BY <1>2, <1>3, <1>4

(* One element more. *)
LEMMA Appended ==
  ASSUME NEW S, NEW s \in Seq(S), NEW e \in S
  PROVE  /\ Append(s, e) \in Seq(S) /\ Len(Append(s, e)) = Len(s) + 1
         /\ Append(s, e)[Len(s) + 1] = e
         /\ \A i \in 1 .. Len(s) : Append(s, e)[i] = s[i]
         /\ Len(s) \in Nat
BY AppendProperties
-----------------------------------------------------------------------------
(* Calls that return.                                                       *)

(* The innermost call and its caller. *)
LEMMA Innermost ==
  ASSUME Typed, Framed, Len(frames) > 0
  PROVE  /\ Len(frames) \in Nat /\ Len(frames) \in 1 .. Len(frames)
         /\ Top = frames[Len(frames)]
         /\ \A k \in 1 .. Len(frames) :
              /\ frames[k] \in Frame /\ frames[k].args \in Seq(Nat)
              /\ frames[k].call \in Function /\ frames[k].cache \in 1 .. Len(caches)
              /\ params[frames[k].call] \in Seq(Callable)
         /\ \A k \in 2 .. Len(frames) :
              /\ k - 1 \in 1 .. Len(frames) /\ frames[k].call \in Callable
              /\ Len(frames[k - 1].args) + 1 \in 1 .. Len(params[frames[k - 1].call])
         /\ Pending(Top) => Len(Top.args) + 1 \in 1 .. Len(params[Top.call])
<1>1. /\ Len(frames) \in Nat /\ Len(frames) \in 1 .. Len(frames)
      /\ Top = frames[Len(frames)]
  BY DEF Typed, Top, Last
<1>2. ASSUME NEW k \in 1 .. Len(frames)
      PROVE  /\ frames[k] \in Frame /\ frames[k].args \in Seq(Nat)
             /\ frames[k].call \in Function /\ frames[k].cache \in 1 .. Len(caches)
             /\ params[frames[k].call] \in Seq(Callable)
             /\ Len(frames[k].args) \in Nat /\ Len(params[frames[k].call]) \in Nat
  <2>1. frames[k] \in Frame
    BY <1>2 DEF Typed
  <2>2. frames[k].args \in Seq(Nat) /\ frames[k].call \in Function
    BY <2>1 DEF Frame
  <2>3. params[frames[k].call] \in Seq(Callable)
    BY <2>2, SignaturesAssumption DEF Typed, Function
  <2>4. Len(frames[k].args) \in Nat /\ Len(params[frames[k].call]) \in Nat
    BY <2>2, <2>3
  <2> QED
    BY <1>2, <2>1, <2>2, <2>3, <2>4 DEF Framed
<1>3. ASSUME NEW k \in 2 .. Len(frames)
      PROVE  /\ k - 1 \in 1 .. Len(frames) /\ frames[k].call \in Callable
             /\ Len(frames[k - 1].args) + 1 \in 1 .. Len(params[frames[k - 1].call])
  <2>1. k - 1 \in 1 .. Len(frames) /\ k > 1 /\ k \in 1 .. Len(frames)
    BY <1>1, <1>3
  <2>2. /\ Len(frames[k - 1].args) < Len(params[frames[k - 1].call])
        /\ frames[k].call = params[frames[k - 1].call][Len(frames[k - 1].args) + 1]
    BY <2>1 DEF Framed
  <2>3. Len(frames[k - 1].args) + 1 \in 1 .. Len(params[frames[k - 1].call])
    BY <1>2, <2>1, <2>2
  <2>4. params[frames[k - 1].call] \in Seq(Callable)
    BY <1>2, <2>1
  <2> QED
    BY <2>1, <2>2, <2>3, <2>4
<1>4. Pending(Top) => Len(Top.args) + 1 \in 1 .. Len(params[Top.call])
  BY <1>1, <1>2 DEF Pending
<1> QED
  BY <1>1, <1>2, <1>3, <1>4

(* What a call that returns does: its caller has one value more, which is *)
(* in the caller's cache.                                                 *)
LEMMA Returns ==
  ASSUME Typed, Framed, Ready, NEW v \in Nat, Return(v)
  PROVE  LET n == Len(frames) IN
         /\ n \in Nat /\ n > 1 /\ Caller = frames[n - 1] /\ Top = frames[n]
         /\ frames' \in Seq(Frame) /\ Len(frames') = n - 1
         /\ \A k \in 1 .. (n - 2) : frames'[k] = frames[k]
         /\ frames'[n - 1].call = frames[n - 1].call
         /\ frames'[n - 1].cache = frames[n - 1].cache
         /\ frames'[n - 1].args = Append(frames[n - 1].args, v)
         /\ caches' \in Seq([Callable -> Nat]) /\ Len(caches') = Len(caches)
         /\ \A i \in 1 .. Len(caches) : \A c \in Callable :
              caches'[i][c] = IF i = frames[n - 1].cache /\ c = frames[n].call
                                THEN v ELSE caches[i][c]
<1> DEFINE n == Len(frames)
           g == Front(Front(frames))
           f == frames[n - 1]
           h == [f EXCEPT !.args = Append(@, v)]
<1>1. n \in Nat /\ n > 1 /\ frames \in Seq(Frame)
  BY DEF Ready, Typed
<1>2. /\ f \in Frame /\ f.args \in Seq(Nat) /\ f.call \in Function
      /\ f.cache \in 1 .. Len(caches) /\ frames[n].call \in Callable
      /\ Top = frames[n] /\ Caller = f
  <2>1. n - 1 \in 1 .. n /\ n \in 2 .. n
    BY <1>1
  <2> QED
    BY <1>1, <2>1, Innermost DEF Caller
<1>3. g \in Seq(Frame) /\ Len(g) = n - 2 /\ \A k \in 1 .. (n - 2) : g[k] = frames[k]
  <2> DEFINE m == Front(frames)
  <2>1. m \in Seq(Frame) /\ Len(m) = n - 1 /\ \A k \in 1 .. (n - 1) : m[k] = frames[k]
    BY <1>1, Fronts
  <2>3. Len(m) > 0
    BY <1>1, <2>1
  <2> HIDE DEF m
  <2>2. /\ Front(m) \in Seq(Frame) /\ Len(Front(m)) = (n - 1) - 1
        /\ \A k \in 1 .. ((n - 1) - 1) : Front(m)[k] = m[k]
    <3> HIDE DEF n
    <3>1. /\ Front(m) \in Seq(Frame) /\ Len(Front(m)) = Len(m) - 1
          /\ \A i \in 1 .. (Len(m) - 1) : Front(m)[i] = m[i]
      BY <2>1, <2>3, Fronts
    <3> QED
      BY <2>1, <3>1
  <2> QED
    BY <1>1, <2>1, <2>2 DEF m
<1>4. Append(f.args, v) \in Seq(Nat)
  BY <1>2
<1>5. h \in Frame /\ h.call = f.call /\ h.cache = f.cache /\ h.args = Append(f.args, v)
  BY <1>2, <1>4 DEF Frame
<1>6. frames' = Append(g, h)
  BY <1>2 DEF Return
<1> HIDE DEF g, h, f
<1>7. /\ frames' \in Seq(Frame) /\ Len(frames') = n - 1
      /\ \A k \in 1 .. (n - 2) : frames'[k] = frames[k]
      /\ frames'[n - 1] = h
  <2>1. /\ Append(g, h) \in Seq(Frame) /\ Len(Append(g, h)) = Len(g) + 1
        /\ Append(g, h)[Len(g) + 1] = h
        /\ \A i \in 1 .. Len(g) : Append(g, h)[i] = g[i]
    BY <1>3, <1>5, Appended
  <2>2. (n - 2) + 1 = n - 1
    BY <1>1
  <2> QED
    BY <1>3, <1>6, <2>1, <2>2
<1>8. caches' = [caches EXCEPT ![f.cache][frames[n].call] = v]
  BY <1>2 DEF Return
<1>9. /\ caches' \in Seq([Callable -> Nat]) /\ Len(caches') = Len(caches)
      /\ \A i \in 1 .. Len(caches) : \A c \in Callable :
           caches'[i][c] = IF i = f.cache /\ c = frames[n].call
                             THEN v ELSE caches[i][c]
  <2> DEFINE d == frames[n].call
             e == [caches[f.cache] EXCEPT ![d] = v]
  <2>1. caches \in Seq([Callable -> Nat]) /\ caches[f.cache] \in [Callable -> Nat]
    BY <1>2 DEF Typed
  <2>2. e \in [Callable -> Nat] /\ \A c \in Callable :
          e[c] = IF c = d THEN v ELSE caches[f.cache][c]
    BY <1>2, <2>1
  <2>3. caches' = [caches EXCEPT ![f.cache] = e]
    BY <1>8
  <2> HIDE DEF d, e
  <2>4. /\ caches' \in Seq([Callable -> Nat]) /\ Len(caches') = Len(caches)
        /\ \A i \in 1 .. Len(caches) :
             caches'[i] = IF i = f.cache THEN e ELSE caches[i]
    BY <1>2, <2>1, <2>2, <2>3
  <2> QED
    BY <2>2, <2>4 DEF d
<1> QED
  BY <1>1, <1>2, <1>5, <1>7, <1>9 DEF f
(* A call for the next parameter. *)
LEMMA Descends ==
  ASSUME Typed, Framed, Descend
  PROVE  LET n == Len(frames)
             fresh == caches[Top.cache] = EmptyCache
         IN
         /\ n \in Nat /\ n > 0 /\ Top = frames[n]
         /\ frames' \in Seq(Frame) /\ Len(frames') = n + 1
         /\ \A k \in 1 .. n : frames'[k] = frames[k]
         /\ frames'[n + 1].call = params[frames[n].call][Len(frames[n].args) + 1]
         /\ frames'[n + 1].args = <<>>
         /\ frames'[n + 1].cache = IF fresh THEN Len(caches) + 1 ELSE Top.cache
         /\ caches' \in Seq([Callable -> Nat])
         /\ \A i \in 1 .. Len(caches) : caches'[i] = caches[i]
         /\ fresh => /\ Len(caches') = Len(caches) + 1
                     /\ caches'[Len(caches) + 1] = EmptyCache
         /\ ~fresh => caches' = caches
<1> DEFINE n == Len(frames)
           fresh == caches[Top.cache] = EmptyCache
           callee == params[Top.call][Len(Top.args) + 1]
           kept == IF fresh THEN Len(caches) + 1 ELSE Top.cache
           frame == [call |-> callee, args |-> <<>>, cache |-> kept]
<1>1. /\ frames' = Append(frames, frame)
      /\ caches' = IF fresh THEN Append(caches, EmptyCache) ELSE caches
      /\ pc = "resolving" /\ Pending(Top)
  BY DEF Descend, Replaced
<1>2. n > 0 /\ n \in Nat
  BY <1>1 DEF Framed, Typed
<1>3. /\ n \in 1 .. n /\ Top = frames[n] /\ callee \in Callable
      /\ Top.cache \in 1 .. Len(caches)
  <2>1. Top = frames[n] /\ n \in 1 .. n
    BY <1>2, Innermost
  <2>2. /\ params[Top.call] \in Seq(Callable) /\ Top.cache \in 1 .. Len(caches)
        /\ Len(Top.args) + 1 \in 1 .. Len(params[Top.call])
    BY <1>1, <1>2, <2>1, Innermost
  <2>3. callee \in Callable
    BY <2>2
  <2> QED
    BY <2>1, <2>2, <2>3
<1>4. caches \in Seq([Callable -> Nat]) /\ EmptyCache \in [Callable -> Nat]
      /\ Len(caches) \in Nat
  BY DEF Typed, EmptyCache
<1> HIDE DEF fresh
<1>5. kept \in Nat
  BY <1>3, <1>4
<1>6. /\ frame \in Frame /\ frame.call = callee /\ frame.args = <<>>
      /\ frame.cache = kept
  BY <1>3, <1>5 DEF Frame, Function
<1> HIDE DEF frame
<1>7. /\ frames' \in Seq(Frame) /\ Len(frames') = n + 1
      /\ \A k \in 1 .. n : frames'[k] = frames[k]
      /\ frames'[n + 1] = frame
  <2>1. frames \in Seq(Frame)
    BY DEF Typed
  <2> QED
    BY <1>1, <1>6, <2>1, Appended
<1>8. /\ caches' \in Seq([Callable -> Nat])
      /\ \A i \in 1 .. Len(caches) : caches'[i] = caches[i]
      /\ fresh => /\ Len(caches') = Len(caches) + 1
                  /\ caches'[Len(caches) + 1] = EmptyCache
      /\ ~fresh => caches' = caches
  <2>1. CASE fresh
    BY <1>1, <1>4, <2>1, Appended
  <2>2. CASE ~fresh
    BY <1>1, <1>4, <2>2
  <2> QED
    BY <2>1, <2>2
<1> QED
  BY <1>2, <1>3, <1>6, <1>7, <1>8 DEF fresh

(* A value that is made. *)
LEMMA Makes ==
  ASSUME Typed, Framed, Ready,
         NEW st \in {"made", "open", "left", "abandoned"},
         values' = Append(values, NewValue(st))
  PROVE  LET v == Len(values) + 1 IN
         /\ values' \in Seq(Values) /\ Len(values') = v /\ Len(values) \in Nat
         /\ \A w \in 1 .. Len(values) : values'[w] = values[w]
         /\ values'[v].call = Top.call /\ values'[v].args = Top.args
         /\ values'[v].serves = Len(frames[1].args) + 1
         /\ values'[v].state = st
         /\ Top.call \in Callable
<1> DEFINE new == NewValue(st)
<1>1. /\ Len(frames) > 1 /\ Len(frames) \in Nat
  BY DEF Ready, Typed
<1>2. /\ Len(frames) \in 2 .. Len(frames) /\ 1 \in 1 .. Len(frames)
      /\ Len(frames) \in 1 .. Len(frames)
  BY <1>1
<1>3. /\ Top.call \in Callable /\ Top.args \in Seq(Nat)
      /\ frames[1].args \in Seq(Nat)
  BY <1>1, <1>2, Innermost
<1>4. Len(frames[1].args) + 1 \in Nat
  BY <1>3
<1>5. /\ new \in Values /\ new.call = Top.call /\ new.args = Top.args
      /\ new.serves = Len(frames[1].args) + 1 /\ new.state = st
  BY <1>3, <1>4 DEF NewValue, Values
<1> HIDE DEF new
<1>6. values \in Seq(Values)
  BY DEF Typed
<1>7. /\ Append(values, new) \in Seq(Values)
      /\ Len(Append(values, new)) = Len(values) + 1
      /\ Append(values, new)[Len(values) + 1] = new
      /\ \A w \in 1 .. Len(values) : Append(values, new)[w] = values[w]
      /\ Len(values) \in Nat
  BY <1>5, <1>6, Appended
<1> QED
  BY <1>3, <1>5, <1>7 DEF new

(* A generator that is left, or given up. *)
LEMMA Marks ==
  ASSUME Typed, NEW v \in 1 .. Len(values),
         NEW st \in {"made", "open", "left", "abandoned"},
         values' = [values EXCEPT ![v].state = st]
  PROVE  /\ values' \in Seq(Values) /\ Len(values') = Len(values)
         /\ \A w \in 1 .. Len(values) :
              /\ values'[w].state = IF w = v THEN st ELSE values[w].state
              /\ values'[w].call = values[w].call
              /\ values'[w].args = values[w].args
              /\ values'[w].serves = values[w].serves
<1> DEFINE x == [values[v] EXCEPT !.state = st]
<1>1. values \in Seq(Values) /\ values[v] \in Values
  BY DEF Typed
<1>2. /\ x \in Values /\ x.state = st /\ x.call = values[v].call
      /\ x.args = values[v].args /\ x.serves = values[v].serves
  BY <1>1 DEF Values
<1>3. values' = [values EXCEPT ![v] = x]
  OBVIOUS
<1> HIDE DEF x
<1>4. /\ values' \in Seq(Values) /\ Len(values') = Len(values)
      /\ \A w \in 1 .. Len(values) : values'[w] = IF w = v THEN x ELSE values[w]
  BY <1>1, <1>2, <1>3
<1> QED
  BY <1>2, <1>4

-----------------------------------------------------------------------------
(* Types.                                                                   *)

(* Resolving keeps the types. *)
LEMMA ResolveTyped ==
  ASSUME IInv, Resolve
  PROVE  Typed'
<1>1. Typed /\ Framed
  BY DEF IInv
<1>2. CASE Descend
  <2>1. /\ frames' \in Seq(Frame) /\ caches' \in Seq([Callable -> Nat])
        /\ UNCHANGED <<program, values, stack, pc, handler, output, exc, paths, history>>
    BY <1>1, <1>2, Descends DEF Descend
  <2> QED
    BY <1>1, <2>1 DEF Typed, program, history
<1>3. Ready => Cached \in Nat
  <2> SUFFICES ASSUME Ready PROVE Cached \in Nat
    OBVIOUS
  <2>1. Len(frames) > 1 /\ Len(frames) \in 2 .. Len(frames)
    BY <1>1 DEF Ready, Typed
  <2>2. Caller = frames[Len(frames) - 1] /\ Caller.cache \in 1 .. Len(caches)
        /\ Top.call \in Callable
    BY <1>1, <2>1, Innermost DEF Caller
  <2>3. caches[Caller.cache] \in [Callable -> Nat]
    BY <1>1, <2>2 DEF Typed
  <2> QED
    BY <2>2, <2>3 DEF Cached
<1>4. CASE TakeCached
  <2>1. /\ Ready /\ Return(Cached)
        /\ UNCHANGED <<program, values, stack, pc, handler, output, exc, paths, history>>
    BY <1>4 DEF TakeCached
  <2>2. frames' \in Seq(Frame) /\ caches' \in Seq([Callable -> Nat])
    BY <1>1, <1>3, <2>1, Returns
  <2> QED
    BY <1>1, <2>1, <2>2 DEF Typed, program, history
<1>5. CASE Call
  <2>1. /\ Ready /\ Return(Len(values) + 1)
        /\ UNCHANGED <<program, pc, handler, output, exc, paths, history>>
        /\ \/ values' = Append(values, NewValue("made")) /\ stack' = stack
           \/ /\ values' = Append(values, NewValue("open"))
              /\ stack' = Append(stack, Len(values) + 1)
    BY <1>5 DEF Call
  <2>2. Len(values) + 1 \in Nat
    BY <1>1 DEF Typed
  <2>3. frames' \in Seq(Frame) /\ caches' \in Seq([Callable -> Nat])
    BY <1>1, <2>1, <2>2, Returns
  <2>4. values' \in Seq(Values)
    BY <1>1, <2>1, Makes
  <2>5. stack' \in Seq(Nat)
    <3>1. stack \in Seq(Nat) /\ Append(stack, Len(values) + 1) \in Seq(Nat)
      BY <1>1, <2>2, Appended DEF Typed
    <3> QED
      BY <2>1, <3>1, Zenon
  <2> QED
    BY <1>1, <2>1, <2>3, <2>4, <2>5 DEF Typed, program, history
<1>6. CASE ResolvingRaises
  <2>1. /\ pc' = "unwinding" /\ exc' = "error" /\ frames' = <<>>
        /\ UNCHANGED <<program, caches, values, stack, handler, output, paths, history>>
    BY <1>6 DEF ResolvingRaises
  <2>2. frames' \in Seq(Frame)
    BY <2>1
  <2> QED
    BY <1>1, <2>1, <2>2 DEF Typed, program, history
<1>7. CASE StartHandler
  BY <1>1, <1>7 DEF StartHandler, Typed, program, history, resolution
<1> QED
  BY <1>2, <1>4, <1>5, <1>6, <1>7 DEF Resolve
(* The youngest generator that is open. *)
LEMMA Youngest ==
  ASSUME IInv, stack # <<>>
  PROVE  LET n == Len(stack)
             v == Last(stack)
         IN
         /\ n \in Nat /\ n > 0 /\ v = stack[n] /\ v \in 1 .. Len(values)
         /\ values[v].state = "open" /\ Len(values) \in Nat
         /\ Front(stack) \in Seq(Nat) /\ Len(Front(stack)) = n - 1
         /\ \A i \in 1 .. (n - 1) : Front(stack)[i] = stack[i] /\ stack[i] < v
         /\ \A w \in 1 .. Len(values) : values[w].state = "open" /\ w # v =>
              w < v /\ \E i \in 1 .. (n - 1) : stack[i] = w
<1> DEFINE n == Len(stack)
           v == Last(stack)
<1>1. stack \in Seq(Nat) /\ values \in Seq(Values) /\ Generators
  BY DEF IInv, Typed
<1>2. n \in Nat /\ n > 0
  BY <1>1
<1>3. /\ v = stack[n] /\ Front(stack) \in Seq(Nat) /\ Len(Front(stack)) = n - 1
      /\ \A i \in 1 .. (n - 1) : Front(stack)[i] = stack[i]
  BY <1>1, <1>2, Fronts
<1>4. n \in 1 .. n /\ v \in 1 .. Len(values) /\ values[v].state = "open"
  BY <1>1, <1>2, <1>3 DEF Generators
<1>5. ASSUME NEW i \in 1 .. (n - 1) PROVE stack[i] < v
  <2>1. i \in 1 .. Len(stack) /\ Len(stack) \in 1 .. Len(stack) /\ i < Len(stack)
    BY <1>2
  <2>2. stack[i] < stack[Len(stack)]
    BY <1>1, <2>1 DEF Generators
  <2> QED
    BY <1>3, <2>2
<1>6. ASSUME NEW w \in 1 .. Len(values), values[w].state = "open", w # v
      PROVE  w < v /\ \E i \in 1 .. (n - 1) : stack[i] = w
  <2>1. PICK i \in 1 .. n : stack[i] = w
    BY <1>1, <1>6 DEF Generators
  <2>2. i \in 1 .. (n - 1)
    BY <1>2, <1>3, <1>6, <2>1
  <2> QED
    BY <1>5, <2>1, <2>2
<1>7. Len(values) \in Nat
  BY <1>1
<1> HIDE DEF n, v
<1> QED
  BY <1>2, <1>3, <1>4, <1>5, <1>6, <1>7 DEF n, v

(* A generator is left, by itself or because the process stops. *)
LEMMA LeavesOne ==
  ASSUME IInv, Unwind \/ CancelUnwinding
  PROVE  /\ pc = "unwinding" /\ stack # <<>> /\ stack' = Front(stack)
         /\ UNCHANGED <<program, resolution, pc, handler, output, paths, reported, jammed>>
         /\ exc' \in {"none", "error", "cancelled"}
         /\ exc' = "cancelled" => stopped'
         /\ stopped' \in BOOLEAN /\ (stopped => stopped')
         /\ \E st \in {"left", "abandoned"} :
              /\ values' = [values EXCEPT ![Last(stack)].state = st]
              /\ st = "abandoned" =>
                   kind[values[Last(stack)].call] = "gen" /\ stopped'
<1>1. CASE Unwind
  <2>1. /\ pc = "unwinding" /\ stack # <<>> /\ stack' = Front(stack)
        /\ UNCHANGED <<program, resolution, pc, handler, output, paths, reported,
                       jammed, stopped>>
        /\ exc' \in IF Skipped(Last(stack)) THEN {exc} ELSE {exc, "error", "none"}
        /\ values' = [values EXCEPT ![Last(stack)].state =
                        IF Skipped(Last(stack)) THEN "abandoned" ELSE "left"]
    BY <1>1 DEF Unwind, history
  <2>2. /\ exc \in {"none", "error", "cancelled"} /\ stopped \in BOOLEAN
        /\ exc = "cancelled" => stopped
    BY DEF IInv, Typed, Outcomes
  <2>3. exc' \in {"none", "error", "cancelled"} /\ (exc' = "cancelled" => stopped')
    BY <2>1, <2>2
  <2>4. stopped' \in BOOLEAN /\ (stopped => stopped')
    BY <2>1, <2>2, Zenon
  <2>5. CASE Skipped(Last(stack))
    <3>1. kind[values[Last(stack)].call] = "gen" /\ stopped'
      BY <2>1, <2>2, <2>5 DEF Skipped
    <3>2. values' = [values EXCEPT ![Last(stack)].state = "abandoned"]
      BY <2>1, <2>5
    <3> QED
      BY <2>1, <2>3, <2>4, <3>1, <3>2
  <2>6. CASE ~Skipped(Last(stack))
    <3>1. values' = [values EXCEPT ![Last(stack)].state = "left"]
      BY <2>1, <2>6
    <3> QED
      BY <2>1, <2>3, <2>4, <3>1
  <2> QED
    BY <2>5, <2>6
<1>2. CASE CancelUnwinding
  BY <1>2 DEF CancelUnwinding
<1> QED
  BY <1>1, <1>2

(* The removal of paths, as far as it gets. *)
LEMMA Removes ==
  ASSUME Typed, RemovePaths
  PROVE  /\ paths' \in Seq(Path) /\ Len(paths') = Len(paths)
         /\ \A i \in 1 .. Len(paths) :
              /\ paths'[i].flag = paths[i].flag /\ paths'[i].late = paths[i].late
              /\ paths'[i].gone => Due(paths[i])
              /\ Due(paths[i]) => \/ paths'[i].gone
                                  \/ jammed' # 0 /\ i >= jammed'
         /\ jammed' \in 0 .. Len(paths)
         /\ exc' \in {"none", "error", "cancelled"}
         /\ exc' = "cancelled" => exc = "cancelled"
<1>1. paths \in Seq(Path) /\ Len(paths) \in Nat /\ DOMAIN paths = 1 .. Len(paths)
  BY DEF Typed
<1>2. ASSUME NEW i \in 1 .. Len(paths), NEW b \in BOOLEAN
      PROVE  LET p == [paths[i] EXCEPT !.gone = b] IN
             p \in Path /\ p.flag = paths[i].flag /\ p.late = paths[i].late
             /\ (p.gone <=> b)
  <2>1. paths[i] \in Path
    BY <1>1, <1>2
  <2> QED
    BY <2>1 DEF Path
<1>3. ASSUME NEW G \in [1 .. Len(paths) -> BOOLEAN],
             paths' = [i \in DOMAIN paths |-> [paths[i] EXCEPT !.gone = G[i]]]
      PROVE  /\ paths' \in Seq(Path) /\ Len(paths') = Len(paths)
             /\ \A i \in 1 .. Len(paths) :
                  /\ paths'[i].flag = paths[i].flag /\ paths'[i].late = paths[i].late
                  /\ paths'[i].gone <=> G[i]
  <2>1. \A i \in 1 .. Len(paths) : G[i] \in BOOLEAN
    BY <1>3
  <2>2. \A i \in 1 .. Len(paths) :
          /\ [paths[i] EXCEPT !.gone = G[i]] \in Path
          /\ paths'[i] = [paths[i] EXCEPT !.gone = G[i]]
    BY <1>1, <1>2, <1>3, <2>1
  <2>3. paths' \in [1 .. Len(paths) -> Path]
    BY <1>1, <1>3, <2>2
  <2>4. paths' \in Seq(Path) /\ Len(paths') = Len(paths)
    BY <1>1, <2>3
  <2>5. ASSUME NEW i \in 1 .. Len(paths)
        PROVE  /\ paths'[i].flag = paths[i].flag /\ paths'[i].late = paths[i].late
               /\ paths'[i].gone <=> G[i]
    <3> DEFINE g == G[i]
    <3>1. g \in BOOLEAN /\ paths'[i] = [paths[i] EXCEPT !.gone = g]
      BY <2>1, <2>2
    <3> HIDE DEF g
    <3>2. LET p == [paths[i] EXCEPT !.gone = g] IN
          p.flag = paths[i].flag /\ p.late = paths[i].late /\ (p.gone <=> g)
      BY <1>2, <3>1
    <3> QED
      BY <3>1, <3>2, Zenon DEF g
  <2> QED
    BY <2>4, <2>5
<1>4. CASE /\ paths' = [i \in DOMAIN paths |-> [paths[i] EXCEPT !.gone = Due(paths[i])]]
           /\ UNCHANGED <<exc, jammed>>
  <2> DEFINE G == [i \in 1 .. Len(paths) |-> Due(paths[i])]
  <2>1. G \in [1 .. Len(paths) -> BOOLEAN]
    BY DEF Due
  <2>2. paths' = [i \in DOMAIN paths |-> [paths[i] EXCEPT !.gone = G[i]]]
    BY <1>1, <1>4
  <2>3. \A i \in 1 .. Len(paths) : G[i] <=> Due(paths[i])
    OBVIOUS
  <2> HIDE DEF G
  <2>4. /\ paths' \in Seq(Path) /\ Len(paths') = Len(paths)
        /\ \A i \in 1 .. Len(paths) :
             /\ paths'[i].flag = paths[i].flag /\ paths'[i].late = paths[i].late
             /\ paths'[i].gone <=> G[i]
    BY <1>3, <2>1, <2>2
  <2> QED
    BY <1>4, <2>3, <2>4 DEF Typed
<1>5. ASSUME NEW n \in DOMAIN paths, jammed' = n, exc' = "error",
             paths' = [i \in DOMAIN paths |->
                         [paths[i] EXCEPT !.gone = i < n /\ Due(paths[i])]]
      PROVE  /\ paths' \in Seq(Path) /\ Len(paths') = Len(paths)
             /\ \A i \in 1 .. Len(paths) :
                  /\ paths'[i].flag = paths[i].flag /\ paths'[i].late = paths[i].late
                  /\ paths'[i].gone => Due(paths[i])
                  /\ Due(paths[i]) => \/ paths'[i].gone
                                      \/ jammed' # 0 /\ i >= jammed'
             /\ jammed' \in 0 .. Len(paths)
  <2> DEFINE G == [i \in 1 .. Len(paths) |-> i < n /\ Due(paths[i])]
  <2>1. G \in [1 .. Len(paths) -> BOOLEAN]
    BY DEF Due
  <2>2. paths' = [i \in DOMAIN paths |-> [paths[i] EXCEPT !.gone = G[i]]]
    BY <1>1, <1>5
  <2>3. \A i \in 1 .. Len(paths) : G[i] <=> i < n /\ Due(paths[i])
    OBVIOUS
  <2> HIDE DEF G
  <2>4. /\ paths' \in Seq(Path) /\ Len(paths') = Len(paths)
        /\ \A i \in 1 .. Len(paths) :
             /\ paths'[i].flag = paths[i].flag /\ paths'[i].late = paths[i].late
             /\ paths'[i].gone <=> G[i]
    BY <1>3, <2>1, <2>2
  <2>5. n \in 1 .. Len(paths)
    BY <1>1, <1>5
  <2>6. \A i \in 1 .. Len(paths) : i < n \/ (jammed' # 0 /\ i >= jammed')
    BY <1>1, <1>5, <2>5
  <2>7. jammed' \in 0 .. Len(paths)
    BY <1>1, <1>5, <2>5
  <2> QED
    BY <2>3, <2>4, <2>6, <2>7
<1>6. /\ exc' \in {"none", "error", "cancelled"}
      /\ exc' = "cancelled" => exc = "cancelled"
  BY DEF RemovePaths, Typed
<1> QED
  BY <1>4, <1>5, <1>6, Zenon DEF RemovePaths
(* A path that is taken. *)
LEMMA Takes ==
  ASSUME Typed, TakePath
  PROVE  /\ paths' \in Seq(Path) /\ Len(paths') = Len(paths) + 1
         /\ Len(paths) \in Nat /\ Len(paths') <= MaxPaths
         /\ \A i \in 1 .. Len(paths) : paths'[i] = paths[i]
         /\ ~paths'[Len(paths) + 1].gone
         /\ paths'[Len(paths) + 1].late <=> pc = "over"
<1>1. PICK flag \in Flags :
        paths' = Append(paths, [flag |-> flag, gone |-> FALSE, late |-> pc = "over"])
  BY DEF TakePath
<1> DEFINE p == [flag |-> flag, gone |-> FALSE, late |-> pc = "over"]
<1>2. p \in Path /\ ~p.gone /\ (p.late <=> pc = "over")
  BY DEF Path
<1>3. paths' = Append(paths, p)
  BY <1>1
<1> HIDE DEF p
<1>4. /\ paths' \in Seq(Path) /\ Len(paths') = Len(paths) + 1
      /\ paths'[Len(paths) + 1] = p
      /\ \A i \in 1 .. Len(paths) : paths'[i] = paths[i]
      /\ Len(paths) \in Nat
  BY <1>2, <1>3, Appended DEF Typed
<1>5. Len(paths') <= MaxPaths
  BY <1>4, MaxPathsAssumption DEF TakePath
<1> QED
  BY <1>2, <1>4, <1>5

(* Every step keeps the types. *)
LEMMA TypedKeeps ==
  ASSUME IInv, [Next]_vars
  PROVE  Typed'
<1>1. Typed /\ Framed
  BY DEF IInv
<1> USE DEF program, resolution, history
<1>2. CASE HandlerEnds \/ HandlerEndsLate \/ Unwound \/ Report \/ ReceiveEnd
             \/ CancelReport \/ CancelReceiving \/ CancelRemoval \/ UNCHANGED vars
  <2>1. UNCHANGED <<program, resolution, values, stack, paths, jammed>>
    BY <1>2 DEF HandlerEnds, HandlerEndsLate, Unwound, Report, ReceiveEnd,
       CancelReport, CancelReceiving, CancelRemoval, vars
  <2>2. /\ pc' \in {"resolving", "running", "unwinding", "reporting", "receiving",
            "leaving", "over"}
        /\ handler' \in {"off", "running", "behind", "done"}
        /\ exc' \in {"none", "error", "cancelled"}
    BY <1>1, <1>2 DEF Typed, HandlerEnds, HandlerEndsLate, Unwound, Report, ReceiveEnd,
       CancelReport, CancelReceiving, CancelRemoval, vars
  <2>3. output' \in BOOLEAN
    BY <1>1, <1>2, Zenon DEF Typed, HandlerEnds, HandlerEndsLate, Unwound,
       Report, ReceiveEnd, CancelReport, CancelReceiving, CancelRemoval, vars
  <2>4. reported' \in BOOLEAN /\ stopped' \in BOOLEAN
    BY <1>1, <1>2, Zenon DEF Typed, HandlerEnds, HandlerEndsLate, Unwound,
       Report, ReceiveEnd, CancelReport, CancelReceiving, CancelRemoval, vars
  <2> QED
    BY <1>1, <2>1, <2>2, <2>3, <2>4 DEF Typed
<1>3. CASE TakePath
  <2>1. UNCHANGED <<program, resolution, values, stack, pc, handler, output, exc, history>>
    BY <1>3 DEF TakePath
  <2>2. jammed \in 0 .. Len(paths')
    BY <1>1, <1>3, Takes DEF Typed
  <2> QED
    BY <1>1, <1>3, <2>1, <2>2, Takes DEF Typed
<1>4. CASE RemovePaths
  <2>1. /\ UNCHANGED <<program, resolution, values, stack, handler, output,
                       reported, stopped>>
        /\ pc' = "over"
    BY <1>4 DEF RemovePaths
  <2> QED
    BY <1>1, <1>4, <2>1, Removes DEF Typed
<1>5. CASE Unwind \/ CancelUnwinding
  <2>1. /\ stack # <<>> /\ stack' = Front(stack)
        /\ UNCHANGED <<program, resolution, pc, handler, output, paths, reported, jammed>>
        /\ exc' \in {"none", "error", "cancelled"} /\ stopped' \in BOOLEAN
    BY <1>5, LeavesOne
  <2>2. PICK st \in {"left", "abandoned"} :
          values' = [values EXCEPT ![Last(stack)].state = st]
    BY <1>5, LeavesOne
  <2>3. Front(stack) \in Seq(Nat) /\ Last(stack) \in 1 .. Len(values)
    BY <2>1, Youngest
  <2>4. values' \in Seq(Values)
    BY <1>1, <2>2, <2>3, Marks
  <2> QED
    BY <1>1, <2>1, <2>3, <2>4 DEF Typed
<1>6. CASE CancelResolving
  <2>1. /\ UNCHANGED <<program, caches, stack, handler, output, paths, reported, jammed>>
        /\ stopped' = TRUE /\ pc' = "unwinding" /\ exc' = "cancelled" /\ frames' = <<>>
        /\ \/ values' = values
           \/ Ready /\ values' = Append(values, NewValue("abandoned"))
    BY <1>6 DEF CancelResolving
  <2>2. values' \in Seq(Values) /\ frames' \in Seq(Frame)
    BY <1>1, <2>1, Makes DEF Typed
  <2> QED
    BY <1>1, <2>1, <2>2 DEF Typed
<1> QED
  BY <1>2, <1>3, <1>4, <1>5, <1>6, ResolveTyped DEF Next, Cancel
-----------------------------------------------------------------------------
(* The outcome, and the paths.                                              *)

(* Every step keeps the order of the end. *)
LEMMA OutcomesKeep ==
  ASSUME IInv, [Next]_vars
  PROVE  Outcomes'
<1>1. Typed /\ Outcomes
  BY DEF IInv
<1> USE DEF Outcomes, program, resolution, history
<1>2. CASE Resolve
  <2>1. /\ UNCHANGED history /\ pc = "resolving"
        /\ \/ UNCHANGED <<handler, exc, pc>>
           \/ exc' = "error" /\ handler' = handler /\ pc' = "unwinding"
           \/ exc' = exc /\ handler' = "running" /\ pc' = "running"
    BY <1>2 DEF Resolve, Descend, TakeCached, Call, ResolvingRaises, StartHandler, Ready
  <2> QED
    BY <1>1, <2>1
<1>3. CASE HandlerEnds \/ HandlerEndsLate
  BY <1>1, <1>3 DEF HandlerEnds, HandlerEndsLate
<1>4. CASE Unwound
  BY <1>1, <1>4 DEF Unwound, Typed
<1>5. CASE Report \/ ReceiveEnd
  BY <1>1, <1>5 DEF Report, ReceiveEnd, Typed
<1>6. CASE TakePath
  BY <1>1, <1>6 DEF TakePath
<1>7. CASE RemovePaths
  <2>1. exc' = "cancelled" => exc = "cancelled"
    BY <1>1, <1>7, Removes
  <2> QED
    BY <1>1, <1>7, <2>1 DEF RemovePaths
<1>8. CASE Unwind \/ CancelUnwinding
  BY <1>1, <1>8, LeavesOne
<1>9. CASE CancelResolving \/ CancelReport \/ CancelReceiving \/ CancelRemoval
  BY <1>1, <1>9 DEF CancelResolving, CancelReport, CancelReceiving, CancelRemoval, Ready
<1>10. CASE UNCHANGED vars
  BY <1>1, <1>10 DEF vars
<1> QED
  BY <1>2, <1>3, <1>4, <1>5, <1>6, <1>7, <1>8, <1>9, <1>10 DEF Next, Cancel

(* Every step keeps what is said of the paths. *)
LEMMA RemovalsKeep ==
  ASSUME IInv, [Next]_vars
  PROVE  Removals'
<1>1. Typed /\ Outcomes /\ Removals
  BY DEF IInv
<1> USE DEF program, resolution, history
<1>2. ASSUME UNCHANGED paths, pc # "over", pc' # "over" PROVE Removals'
  BY <1>1, <1>2 DEF Removals
<1>3. CASE Resolve \/ HandlerEnds \/ Unwound \/ Report \/ ReceiveEnd \/ Unwind
             \/ CancelResolving \/ CancelUnwinding \/ CancelReport
             \/ CancelReceiving
  <2>1. UNCHANGED paths /\ pc # "over" /\ pc' # "over"
    BY <1>3, LeavesOne DEF Resolve, Descend, TakeCached, Call, ResolvingRaises,
       StartHandler, Ready, HandlerEnds, Unwound, Report, ReceiveEnd, CancelResolving,
       CancelReport, CancelReceiving
  <2> QED
    BY <1>2, <2>1
<1>4. CASE HandlerEndsLate \/ UNCHANGED vars
  <2>1. UNCHANGED <<paths, pc, history>>
    BY <1>4 DEF HandlerEndsLate, vars
  <2> QED
    BY <1>1, <2>1 DEF Removals
<1>5. CASE TakePath
  <2>1. UNCHANGED <<pc, history>>
    BY <1>5 DEF TakePath
  <2>2. /\ Len(paths') = Len(paths) + 1 /\ Len(paths) \in Nat
        /\ \A i \in 1 .. Len(paths) : paths'[i] = paths[i]
        /\ ~paths'[Len(paths) + 1].gone
        /\ paths'[Len(paths) + 1].late <=> pc = "over"
    BY <1>1, <1>5, Takes
  <2>3. \A i \in 1 .. Len(paths') : i \in 1 .. Len(paths) \/ i = Len(paths) + 1
    BY <2>2
  <2> QED
    BY <1>1, <2>1, <2>2, <2>3 DEF Removals
<1>6. CASE RemovePaths
  <2>1. /\ pc = "leaving" /\ pc' = "over" /\ UNCHANGED <<reported, stopped>>
        /\ IF exc = "none" THEN reported ELSE reported => stopped
    BY <1>1, <1>6 DEF RemovePaths, Outcomes
  <2>2. ASSUME NEW i \in 1 .. Len(paths)
        PROVE  /\ paths[i].flag \in Flags
               /\ Due(paths[i]) =>
                    \/ paths[i].flag \in
                         {"always", IF reported THEN "success" ELSE "failure"}
                    \/ paths[i].flag = "failure" /\ stopped
               /\ ~Due(paths[i]) /\ ~stopped =>
                    paths[i].flag \in
                      {"never", IF reported THEN "failure" ELSE "success"}
    <3>1. paths[i] \in Path
      BY <1>1 DEF Typed
    <3>2. paths[i].flag \in {"never", "success", "failure", "always"}
      BY <3>1 DEF Path, Flags
    <3>3. CASE exc = "none"
      BY <2>1, <3>2, <3>3 DEF Due, Flags
    <3>4. CASE exc # "none"
      BY <2>1, <3>2, <3>4 DEF Due, Flags
    <3> QED
      BY <3>3, <3>4
  <2>3. /\ Len(paths') = Len(paths)
        /\ \A i \in 1 .. Len(paths) :
             /\ paths'[i].flag = paths[i].flag
             /\ paths'[i].gone => Due(paths[i])
             /\ Due(paths[i]) => \/ paths'[i].gone
                                 \/ jammed' # 0 /\ i >= jammed'
    BY <1>1, <1>6, Removes
  <2> QED
    BY <2>1, <2>2, <2>3 DEF Removals
<1>7. CASE CancelRemoval
  <2>1. /\ pc = "leaving" /\ pc' = "over" /\ stopped' /\ UNCHANGED <<paths, reported>>
    BY <1>7 DEF CancelRemoval
  <2> QED
    BY <1>1, <2>1 DEF Removals
<1> QED
  BY <1>3, <1>4, <1>5, <1>6, <1>7 DEF Next, Cancel
-----------------------------------------------------------------------------
(* Generators.                                                              *)

(* One value more, which is not left, and is on the stack if it is open. *)
LEMMA OneMore ==
  ASSUME IInv, Len(values) \in Nat, Len(values') = Len(values) + 1,
         \A w \in 1 .. Len(values) : values'[w] = values[w],
         values'[Len(values) + 1].state # "left",
         values'[Len(values) + 1].state = "open" =>
           stack' = Append(stack, Len(values) + 1),
         values'[Len(values) + 1].state # "open" => stack' = stack,
         values'[Len(values) + 1].state = "abandoned" =>
           kind[values'[Len(values) + 1].call] = "gen" /\ stopped',
         kind' = kind, stopped => stopped', pc \in {"resolving", "running"}
  PROVE  Generators'
<1> DEFINE v == Len(values) + 1
           new == values'[v].state
<1>1. Generators /\ stack \in Seq(Nat)
  BY DEF IInv, Typed
<1>2. \A w \in 1 .. Len(values') : w \in 1 .. Len(values) \/ w = v
  OBVIOUS
<1>3. \A w \in 1 .. Len(values) : w < v /\ w # v /\ values[w].state # "left"
  BY <1>1 DEF Generators
<1>4. \A i \in 1 .. Len(stack) : stack[i] \in 1 .. Len(values)
  BY <1>1 DEF Generators
<1>5. \A w \in 1 .. Len(values') : values'[w].state # "left"
  BY <1>2, <1>3
<1>6. \A w \in 1 .. Len(values') : values'[w].state = "abandoned" =>
        kind'[values'[w].call] = "gen" /\ stopped'
  BY <1>1, <1>2 DEF Generators
<1>7. CASE new = "open"
  <2>1. v \in Nat
    OBVIOUS
  <2>2. /\ stack' = Append(stack, v)
        /\ stack' \in Seq(Nat) /\ Len(stack') = Len(stack) + 1 /\ Len(stack) \in Nat
        /\ stack'[Len(stack) + 1] = v
        /\ \A i \in 1 .. Len(stack) : stack'[i] = stack[i]
    <3>1. stack' = Append(stack, v)
      BY <1>7
    <3> HIDE DEF v
    <3> QED
      BY <1>1, <2>1, <3>1, Appended
  <2>3. \A i \in 1 .. Len(stack') : i \in 1 .. Len(stack) \/ i = Len(stack) + 1
    BY <2>2
  <2>4. \A i \in 1 .. Len(stack') : stack'[i] \in 1 .. Len(values')
    BY <1>3, <1>4, <2>2, <2>3
  <2>5. \A i, j \in 1 .. Len(stack') : i < j => stack'[i] < stack'[j]
    <3> SUFFICES ASSUME NEW i \in 1 .. Len(stack'), NEW j \in 1 .. Len(stack'), i < j
                 PROVE  stack'[i] < stack'[j]
      OBVIOUS
    <3>1. i \in 1 .. Len(stack)
      BY <2>2
    <3>2. CASE j \in 1 .. Len(stack)
      BY <1>1, <2>2, <3>1, <3>2 DEF Generators
    <3>3. CASE j = Len(stack) + 1
      BY <1>3, <1>4, <2>2, <3>1, <3>3
    <3> QED
      BY <2>3, <3>2, <3>3
  <2>6. ASSUME NEW w \in 1 .. Len(values')
        PROVE  values'[w].state = "open" <=> \E i \in 1 .. Len(stack') : stack'[i] = w
    <3>1. CASE w = v
      <4>1. Len(stack) + 1 \in 1 .. Len(stack')
        BY <2>2
      <4> QED
        BY <1>7, <2>2, <3>1, <4>1
    <3>2. CASE w \in 1 .. Len(values)
      <4>1. values[w].state = "open" <=> \E i \in 1 .. Len(stack) : stack[i] = w
        BY <1>1, <3>2 DEF Generators
      <4>2. w # v /\ values'[w] = values[w]
        BY <1>3, <3>2
      <4>3. \A i \in 1 .. Len(stack) : i \in 1 .. Len(stack')
        BY <2>2
      <4> QED
        BY <2>2, <2>3, <4>1, <4>2, <4>3
    <3> QED
      BY <1>2, <3>1, <3>2
  <2> QED
    BY <1>5, <1>6, <2>4, <2>5, <2>6 DEF Generators
<1>8. CASE new # "open"
  <2>1. stack' = stack
    BY <1>8
  <2>2. \A w \in 1 .. Len(values') :
          values'[w].state = "open" <=> \E i \in 1 .. Len(stack') : stack'[i] = w
    BY <1>1, <1>2, <1>3, <1>4, <1>8, <2>1 DEF Generators
  <2>3. \A i \in 1 .. Len(stack') : stack'[i] \in 1 .. Len(values')
    BY <1>4, <2>1
  <2> QED
    BY <1>1, <1>5, <1>6, <2>1, <2>2, <2>3 DEF Generators
<1> QED
  BY <1>7, <1>8

(* The youngest one is left. *)
LEMMA OneLess ==
  ASSUME IInv, stack # <<>>, stack' = Front(stack),
         NEW st \in {"left", "abandoned"},
         values' = [values EXCEPT ![Last(stack)].state = st],
         st = "abandoned" => kind[values[Last(stack)].call] = "gen" /\ stopped',
         kind' = kind, stopped => stopped', pc' \notin {"resolving", "running"}
  PROVE  Generators'
<1> DEFINE v == Last(stack)
           n == Len(stack)
<1>1. Generators /\ Typed
  BY DEF IInv
<1>2. /\ n \in Nat /\ n > 0 /\ v = stack[n] /\ v \in 1 .. Len(values)
      /\ values[v].state = "open" /\ Len(values) \in Nat
      /\ Len(stack') = n - 1
      /\ \A i \in 1 .. (n - 1) : stack'[i] = stack[i] /\ stack[i] < v
      /\ \A w \in 1 .. Len(values) : values[w].state = "open" /\ w # v =>
           w < v /\ \E i \in 1 .. (n - 1) : stack[i] = w
  BY Youngest
<1>3. /\ Len(values') = Len(values)
      /\ \A w \in 1 .. Len(values) :
           /\ values'[w].state = IF w = v THEN st ELSE values[w].state
           /\ values'[w].call = values[w].call
  BY <1>1, <1>2, Marks
<1> HIDE DEF v, n
<1>4. \A i \in 1 .. (n - 1) : i \in 1 .. n
  BY <1>2
<1>5. /\ \A i \in 1 .. Len(stack') : stack'[i] \in 1 .. Len(values')
      /\ \A i, j \in 1 .. Len(stack') : i < j => stack'[i] < stack'[j]
  BY <1>1, <1>2, <1>3, <1>4 DEF Generators, n
<1>6. ASSUME NEW w \in 1 .. Len(values)
      PROVE  values'[w].state = "open" <=> \E i \in 1 .. Len(stack') : stack'[i] = w
  <2>1. CASE w = v
    BY <1>2, <1>3, <2>1
  <2>2. CASE w # v
    <3>1. values'[w].state = values[w].state
      BY <1>3, <2>2
    <3>2. values[w].state = "open" => \E i \in 1 .. Len(stack') : stack'[i] = w
      BY <1>2, <2>2
    <3>3. (\E i \in 1 .. Len(stack') : stack'[i] = w) => values[w].state = "open"
      BY <1>1, <1>2, <1>4 DEF Generators, n
    <3> QED
      BY <3>1, <3>2, <3>3
  <2> QED
    BY <2>1, <2>2
<1>7. ASSUME NEW u \in 1 .. Len(values), NEW w \in 1 .. Len(values),
             values'[u].state = "open", values'[w].state = "left"
      PROVE  u < w
  <2>1. u # v /\ values[u].state = "open" /\ u < v
    BY <1>2, <1>3, <1>7
  <2>2. CASE w = v
    BY <2>1, <2>2
  <2>3. CASE w # v
    <3>1. values[w].state = "left"
      BY <1>3, <1>7, <2>3
    <3> QED
      BY <1>1, <2>1, <3>1 DEF Generators
  <2> QED
    BY <2>2, <2>3
<1>8. ASSUME NEW w \in 1 .. Len(values), values'[w].state = "abandoned"
      PROVE  kind'[values'[w].call] = "gen" /\ stopped'
  BY <1>1, <1>3, <1>8 DEF Generators, v
<1> QED
  BY <1>3, <1>5, <1>6, <1>7, <1>8 DEF Generators

(* Every step keeps the generators in order. *)
LEMMA GeneratorsKeep ==
  ASSUME IInv, [Next]_vars
  PROVE  Generators'
<1>1. Typed /\ Framed /\ Generators /\ Outcomes
  BY DEF IInv
<1> USE DEF program, resolution, history
<1>2. CASE \/ Descend \/ TakeCached \/ ResolvingRaises \/ StartHandler
           \/ HandlerEnds \/ HandlerEndsLate \/ Unwound \/ Report
           \/ ReceiveEnd \/ TakePath
           \/ RemovePaths \/ CancelReport \/ CancelReceiving \/ CancelRemoval
           \/ UNCHANGED vars
  <2>1. /\ UNCHANGED <<values, stack, kind>>
        /\ pc' \in {"resolving", "running"} => pc \in {"resolving", "running"}
    BY <1>2 DEF Descend, TakeCached, ResolvingRaises, StartHandler, HandlerEnds,
       HandlerEndsLate, Unwound, Report, ReceiveEnd, TakePath, RemovePaths,
       CancelReport, CancelReceiving, CancelRemoval, vars
  <2>2. stopped => stopped'
    BY <1>2 DEF Descend, TakeCached, ResolvingRaises, StartHandler, HandlerEnds,
       HandlerEndsLate, Unwound, Report, ReceiveEnd, TakePath, RemovePaths,
       CancelReport, CancelReceiving, CancelRemoval, vars
  <2> QED
    BY <1>1, <2>1, <2>2 DEF Generators
<1>3. CASE Call
  <2>1. /\ Ready /\ UNCHANGED <<kind, stopped>> /\ pc = "resolving"
        /\ \/ values' = Append(values, NewValue("made")) /\ stack' = stack
           \/ /\ values' = Append(values, NewValue("open"))
              /\ stack' = Append(stack, Len(values) + 1)
    BY <1>3 DEF Call, Ready
  <2>2. ASSUME values' = Append(values, NewValue("made")), stack' = stack
        PROVE  Generators'
    <3>1. /\ Len(values) \in Nat /\ Len(values') = Len(values) + 1
          /\ \A w \in 1 .. Len(values) : values'[w] = values[w]
          /\ values'[Len(values) + 1].state = "made"
      BY <1>1, <2>1, <2>2, Makes
    <3> QED
      BY <2>1, <2>2, <3>1, OneMore
  <2>3. ASSUME values' = Append(values, NewValue("open")),
               stack' = Append(stack, Len(values) + 1)
        PROVE  Generators'
    <3>1. /\ Len(values) \in Nat /\ Len(values') = Len(values) + 1
          /\ \A w \in 1 .. Len(values) : values'[w] = values[w]
          /\ values'[Len(values) + 1].state = "open"
      BY <1>1, <2>1, <2>3, Makes
    <3> QED
      BY <2>1, <2>3, <3>1, OneMore
  <2> QED
    BY <2>1, <2>2, <2>3
<1>4. CASE CancelResolving
  <2>1. /\ UNCHANGED <<kind, stack>> /\ stopped' /\ pc' = "unwinding"
        /\ pc \in {"resolving", "running"}
        /\ \/ values' = values
           \/ /\ Ready /\ values' = Append(values, NewValue("abandoned"))
              /\ kind[Top.call] = "gen"
    BY <1>4 DEF CancelResolving, Ready
  <2>2. CASE values' = values
    BY <1>1, <2>1, <2>2 DEF Generators
  <2>3. CASE /\ Ready /\ values' = Append(values, NewValue("abandoned"))
             /\ kind[Top.call] = "gen"
    <3>1. /\ Len(values) \in Nat /\ Len(values') = Len(values) + 1
          /\ \A w \in 1 .. Len(values) : values'[w] = values[w]
          /\ values'[Len(values) + 1].state = "abandoned"
          /\ values'[Len(values) + 1].call = Top.call
      BY <1>1, <2>3, Makes
    <3> QED
      BY <2>1, <2>3, <3>1, OneMore
  <2> QED
    BY <2>1, <2>2, <2>3
<1>5. CASE Unwind \/ CancelUnwinding
  <2>1. /\ pc = "unwinding" /\ pc' = pc /\ stack # <<>> /\ stack' = Front(stack)
        /\ kind' = kind /\ (stopped => stopped')
    BY <1>5, LeavesOne
  <2>2. PICK st \in {"left", "abandoned"} :
          /\ values' = [values EXCEPT ![Last(stack)].state = st]
          /\ st = "abandoned" =>
               kind[values[Last(stack)].call] = "gen" /\ stopped'
    BY <1>5, LeavesOne
  <2> QED
    BY <2>1, <2>2, OneLess
<1> QED
  BY <1>2, <1>3, <1>4, <1>5 DEF Next, Resolve, Cancel
-----------------------------------------------------------------------------
(* Calls and their caches.                                                  *)

(* The caller of a call that can return, and what it is waiting for. *)
LEMMA Waiting ==
  ASSUME IInv, Ready
  PROVE  LET n == Len(frames) IN
         /\ n \in Nat /\ n > 1 /\ pc = "resolving"
         /\ Caller = frames[n - 1] /\ Top = frames[n]
         /\ Top.call \in Callable /\ Caller.cache \in 1 .. Len(caches)
         /\ Top.call = params[Caller.call][Len(Caller.args) + 1]
         /\ Cached \in Nat /\ Cached <= Len(values) /\ Len(values) \in Nat
         /\ Len(frames[1].args) > 0 => Caller.cache = 1
<1>1. Typed /\ Framed /\ Handed
  BY DEF IInv
<1>2. /\ Len(frames) \in Nat /\ Len(frames) > 1 /\ pc = "resolving"
      /\ Len(values) \in Nat
  BY <1>1 DEF Ready, Typed
<1>3. /\ Len(frames) \in 2 .. Len(frames) /\ Len(frames) \in 1 .. Len(frames)
      /\ Len(frames) - 1 \in 1 .. Len(frames) /\ Caller = frames[Len(frames) - 1]
  BY <1>2 DEF Caller
<1>4. /\ Top = frames[Len(frames)] /\ Top.call \in Callable
      /\ Caller.cache \in 1 .. Len(caches)
  BY <1>1, <1>2, <1>3, Innermost
<1>5. Top.call = params[Caller.call][Len(Caller.args) + 1]
  BY <1>1, <1>2, <1>3, <1>4 DEF Framed
<1>6. Cached \in Nat /\ Cached <= Len(values)
  <2>1. caches[Caller.cache] \in [Callable -> Nat]
    BY <1>1, <1>4 DEF Typed
  <2> QED
    BY <1>1, <1>4, <2>1 DEF Framed, Cached
<1>7. Len(frames[1].args) > 0 => Caller.cache = 1
  BY <1>1, <1>2, <1>3 DEF Handed
<1> QED
  BY <1>2, <1>3, <1>4, <1>5, <1>6, <1>7

(* An entry that is there stays, and there is one more. *)
LEMMA EntriesStay ==
  ASSUME IInv, Ready, NEW v \in Nat, v > 0, Return(v), Cached \in {0, v}
  PROVE  /\ Len(caches') = Len(caches)
         /\ \A i \in 1 .. Len(caches) : \A c \in Callable :
              caches[i][c] # 0 => caches'[i][c] = caches[i][c]
         /\ caches'[Caller.cache][Top.call] = v
<1>1. Typed /\ Framed
  BY DEF IInv
<1>2. /\ Caller = frames[Len(frames) - 1] /\ Top = frames[Len(frames)]
      /\ Top.call \in Callable /\ Caller.cache \in 1 .. Len(caches)
  BY Waiting
<1>3. /\ Len(caches') = Len(caches)
      /\ \A i \in 1 .. Len(caches) : \A c \in Callable :
           caches'[i][c] = IF i = Caller.cache /\ c = Top.call
                             THEN v ELSE caches[i][c]
  BY <1>1, <1>2, Returns
<1> QED
  BY <1>2, <1>3 DEF Cached

(* A call that returns leaves the others in order. *)
LEMMA ReturnKeeps ==
  ASSUME IInv, Ready, NEW v \in Nat, v > 0, Return(v), Cached \in {0, v},
         Len(values') \in Nat, v <= Len(values'), Len(values) <= Len(values'),
         params' = params, pc' = pc
  PROVE  Framed' /\ Handed'
<1> DEFINE n == Len(frames)
           f == frames[n - 1]
<1>1. Typed /\ Framed /\ Handed
  BY DEF IInv
<1>2. /\ n \in Nat /\ n > 1 /\ pc = "resolving" /\ Caller = f
      /\ Top.call \in Callable /\ Top.call = params[f.call][Len(f.args) + 1]
      /\ f.cache \in 1 .. Len(caches) /\ Len(values) \in Nat
  BY Waiting
<1>3. /\ frames' \in Seq(Frame) /\ Len(frames') = n - 1
      /\ \A k \in 1 .. (n - 2) : frames'[k] = frames[k]
      /\ frames'[n - 1].call = f.call /\ frames'[n - 1].cache = f.cache
      /\ frames'[n - 1].args = Append(f.args, v)
      /\ caches' \in Seq([Callable -> Nat])
      /\ \A i \in 1 .. Len(caches) : \A c \in Callable :
           caches'[i][c] = IF i = f.cache /\ c = frames[n].call
                             THEN v ELSE caches[i][c]
  BY <1>1, Returns
<1>4. /\ Len(caches') = Len(caches)
      /\ \A i \in 1 .. Len(caches) : \A c \in Callable :
           caches[i][c] # 0 => caches'[i][c] = caches[i][c]
      /\ caches'[f.cache][Top.call] = v
  BY <1>2, EntriesStay
<1>5. /\ f.args \in Seq(Nat) /\ Len(f.args) \in Nat
      /\ Len(Append(f.args, v)) = Len(f.args) + 1
      /\ Append(f.args, v)[Len(f.args) + 1] = v
      /\ \A i \in 1 .. Len(f.args) : Append(f.args, v)[i] = f.args[i]
  <2>1. n - 1 \in 1 .. n
    BY <1>2
  <2>2. f.args \in Seq(Nat)
    BY <1>1, <1>2, <2>1, Innermost
  <2> QED
    BY <2>2, Appended
<1>6. ASSUME NEW k \in 1 .. (n - 1), NEW i \in 1 .. Len(frames[k].args)
      PROVE  /\ frames[k].args[i] \in 1 .. Len(values')
             /\ caches'[frames[k].cache][params[frames[k].call][i]] = frames[k].args[i]
  <2>1. k \in 1 .. n /\ k + 1 \in 2 .. n /\ (k + 1) - 1 = k
    <3>1. n \in Nat /\ n > 1
      BY <1>2
    <3> HIDE DEF n
    <3> QED
      BY <1>6, <3>1
  <2>2. /\ frames[k].cache \in 1 .. Len(caches)
        /\ params[frames[k].call] \in Seq(Callable)
        /\ Len(frames[k].args) \in Nat
        /\ Len(frames[k].args) + 1 \in 1 .. Len(params[frames[k].call])
    <3>1. Len(frames) > 0
      BY <1>2
    <3>2. frames[k].args \in Seq(Nat)
      BY <1>1, <2>1, <3>1, Innermost
    <3>3. Len(frames[k].args) + 1 \in 1 .. Len(params[frames[k].call])
      BY <1>1, <2>1, <3>1, Innermost
    <3> QED
      BY <1>1, <2>1, <3>1, <3>2, <3>3, Innermost
  <2>3. params[frames[k].call][i] \in Callable
    <3>1. i \in 1 .. Len(params[frames[k].call])
      BY <2>2
    <3> QED
      BY <2>2, <3>1
  <2>4. /\ frames[k].args[i] \in 1 .. Len(values)
        /\ caches[frames[k].cache][params[frames[k].call][i]] = frames[k].args[i]
    BY <1>1, <2>1 DEF Framed
  <2>5. frames[k].args[i] # 0 /\ frames[k].args[i] \in 1 .. Len(values')
    <3>1. Len(values) \in Nat
      BY <1>2
    <3> QED
      BY <2>4, <3>1
  <2>6. caches[frames[k].cache][params[frames[k].call][i]] # 0
    BY <2>4, <2>5
  <2>7. caches'[frames[k].cache][params[frames[k].call][i]]
          = caches[frames[k].cache][params[frames[k].call][i]]
    BY <1>4, <2>2, <2>3, <2>6
  <2> QED
    BY <2>4, <2>5, <2>7
<1> HIDE DEF n, f
<1>7. ASSUME NEW k \in 1 .. Len(frames')
      PROVE  /\ frames'[k].cache = frames[k].cache /\ frames'[k].call = frames[k].call
             /\ k \in 1 .. (n - 1) /\ k \in 1 .. n
             /\ k < n - 1 => frames'[k] = frames[k]
  <2>1. k \in 1 .. (n - 1) /\ k \in 1 .. n /\ (k \in 1 .. (n - 2) \/ k = n - 1)
    BY <1>2, <1>3
  <2> QED
    BY <1>2, <1>3, <2>1 DEF f
<1>8. ASSUME NEW k \in 1 .. Len(frames')
      PROVE  /\ frames'[k].cache \in 1 .. Len(caches')
             /\ k = 1 => frames'[k].call = Handler /\ frames'[k].cache = 1
  BY <1>1, <1>4, <1>7 DEF Framed, n
<1>9. ASSUME NEW k \in 1 .. Len(frames'), k > 1
      PROVE  /\ Len(frames'[k - 1].args) < Len(params[frames'[k - 1].call])
             /\ frames'[k].call =
                  params[frames'[k - 1].call][Len(frames'[k - 1].args) + 1]
  <2>1. k \in 1 .. n /\ k - 1 \in 1 .. (n - 2)
    BY <1>2, <1>7, <1>9
  <2>2. frames'[k - 1] = frames[k - 1] /\ frames'[k].call = frames[k].call
    BY <1>3, <1>7, <2>1
  <2> QED
    BY <1>1, <1>9, <2>1, <2>2 DEF Framed, n
<1>10. ASSUME NEW k \in 1 .. Len(frames'), NEW i \in 1 .. Len(frames'[k].args)
       PROVE  /\ frames'[k].args[i] \in 1 .. Len(values')
              /\ caches'[frames'[k].cache][params[frames'[k].call][i]]
                   = frames'[k].args[i]
  <2>1. CASE k < n - 1
    <3>1. frames'[k] = frames[k] /\ k \in 1 .. (n - 1)
      BY <1>7, <2>1
    <3>2. i \in 1 .. Len(frames[k].args)
      BY <1>10, <3>1
    <3> QED
      BY <1>6, <3>1, <3>2
  <2>2. CASE k = n - 1
    <3>1. /\ frames'[k].args = Append(f.args, v) /\ frames[k] = f
          /\ frames'[k].cache = f.cache /\ frames'[k].call = f.call
      BY <1>3, <2>2 DEF f
    <3>2. i \in 1 .. Len(f.args) \/ i = Len(f.args) + 1
      BY <1>5, <3>1
    <3>3. CASE i \in 1 .. Len(f.args)
      <4>1. frames'[k].args[i] = frames[k].args[i] /\ i \in 1 .. Len(frames[k].args)
        BY <1>5, <3>1, <3>3
      <4> QED
        BY <1>6, <1>7, <3>1, <4>1
    <3>4. CASE i = Len(f.args) + 1
      <4>1. frames'[k].args[i] = v
        BY <1>5, <3>1, <3>4
      <4>2. caches'[f.cache][params[f.call][i]] = v
        BY <1>2, <1>4, <3>4
      <4> QED
        BY <3>1, <4>1, <4>2
    <3> QED
      BY <3>2, <3>3, <3>4
  <2>3. k < n - 1 \/ k = n - 1
    BY <1>2, <1>7
  <2> QED
    BY <2>1, <2>2, <2>3
<1>11. ASSUME NEW i \in 1 .. Len(caches'), NEW c \in Callable
       PROVE  caches'[i][c] <= Len(values')
  <2>1. i \in 1 .. Len(caches)
    BY <1>4
  <2>2. caches[i][c] \in Nat /\ caches[i][c] <= Len(values)
    BY <1>1, <2>1 DEF Typed, Framed
  <2>3. caches'[i][c] \in {v, caches[i][c]}
    BY <1>3, <2>1
  <2> QED
    BY <1>2, <2>2, <2>3
<1>12. Framed'
  <2>1. Len(caches') > 0 /\ Len(frames') > 0 /\ pc' = "resolving"
    BY <1>1, <1>2, <1>3, <1>4 DEF Framed
  <2> QED
    BY <1>8, <1>9, <1>10, <1>11, <2>1 DEF Framed
<1>13. Handed'
  <2> SUFFICES ASSUME Len(frames') > 0, Len(frames'[1].args) > 0
               PROVE  /\ caches'[1] # EmptyCache
                      /\ \A k \in 1 .. Len(frames') : frames'[k].cache = 1
    BY DEF Handed, EmptyCache
  <2>1. CASE n = 2
    <3>1. f = frames[1] /\ f.cache = 1 /\ Len(frames') = 1
      BY <1>1, <1>2, <1>3, <2>1 DEF f, Framed, n
    <3>2. caches'[1][Top.call] = v
      BY <1>4, <3>1
    <3>3. EmptyCache[Top.call] = 0
      BY <1>2 DEF EmptyCache
    <3> QED
      BY <1>7, <3>1, <3>2, <3>3
  <2>2. CASE n > 2
    <3>1. 1 \in 1 .. (n - 2) /\ frames'[1] = frames[1]
      BY <1>2, <1>3, <2>2
    <3>2. /\ caches[1] # EmptyCache
          /\ \A k \in 1 .. Len(frames) : frames[k].cache = 1
      BY <1>1, <1>2, <3>1 DEF Handed, n
    <3>3. 1 \in 1 .. Len(caches) /\ caches[1] \in [Callable -> Nat]
      BY <1>1 DEF Framed, Typed
    <3>4. PICK c \in Callable : caches[1][c] # 0
      BY <3>2, <3>3 DEF EmptyCache
    <3>5. caches'[1][c] # 0 /\ EmptyCache[c] = 0
      BY <1>4, <3>3, <3>4 DEF EmptyCache
    <3> QED
      BY <1>7, <3>2, <3>5 DEF n
  <2> QED
    BY <1>2, <2>1, <2>2
<1> QED
  BY <1>12, <1>13

(* A call for a parameter has the cache of its caller, unless that was     *)
(* empty.                                                                  *)
LEMMA DescendKeeps ==
  ASSUME IInv, Descend
  PROVE  Framed' /\ Handed'
<1> DEFINE n == Len(frames)
           fresh == caches[Top.cache] = EmptyCache
<1>1. Typed /\ Framed /\ Handed
  BY DEF IInv
<1>2. /\ pc = "resolving" /\ Pending(Top) /\ UNCHANGED <<params, values, pc>>
  BY DEF Descend, program
<1>3. /\ n \in Nat /\ n > 0 /\ Top = frames[n]
      /\ frames' \in Seq(Frame) /\ Len(frames') = n + 1
      /\ \A k \in 1 .. n : frames'[k] = frames[k]
      /\ frames'[n + 1].call = params[frames[n].call][Len(frames[n].args) + 1]
      /\ frames'[n + 1].args = <<>>
      /\ frames'[n + 1].cache = IF fresh THEN Len(caches) + 1 ELSE Top.cache
      /\ \A i \in 1 .. Len(caches) : caches'[i] = caches[i]
      /\ fresh => /\ Len(caches') = Len(caches) + 1
                  /\ caches'[Len(caches) + 1] = EmptyCache
      /\ ~fresh => caches' = caches
  BY <1>1, Descends
<1>4. Top.cache \in 1 .. Len(caches) /\ Len(caches) \in Nat
  <2>1. n \in 1 .. n
    BY <1>3
  <2> QED
    BY <1>1, <1>3, <2>1 DEF Framed, Typed
<1>5. Len(caches') \in Nat /\ Len(caches') >= Len(caches)
      /\ frames'[n + 1].cache \in 1 .. Len(caches')
  BY <1>3, <1>4
<1> HIDE DEF fresh, n
<1>6. \A k \in 1 .. Len(frames') : k \in 1 .. n \/ k = n + 1
  BY <1>3
<1>7. ASSUME NEW k \in 1 .. Len(frames')
      PROVE  /\ frames'[k].cache \in 1 .. Len(caches')
             /\ k = 1 => frames'[k].call = Handler /\ frames'[k].cache = 1
             /\ \A i \in 1 .. Len(frames'[k].args) :
                  /\ frames'[k].args[i] \in 1 .. Len(values)
                  /\ caches'[frames'[k].cache][params[frames'[k].call][i]]
                       = frames'[k].args[i]
  <2>1. CASE k \in 1 .. n
    <3>1. frames'[k] = frames[k] /\ frames[k].cache \in 1 .. Len(caches)
      BY <1>1, <1>3, <2>1 DEF Framed, n
    <3>2. caches'[frames[k].cache] = caches[frames[k].cache]
      BY <1>3, <3>1
    <3> QED
      BY <1>1, <1>4, <1>5, <2>1, <3>1, <3>2 DEF Framed, n
  <2>2. CASE k = n + 1
    BY <1>3, <1>5, <2>2
  <2> QED
    BY <1>6, <2>1, <2>2
<1>8. ASSUME NEW k \in 1 .. Len(frames'), k > 1
      PROVE  /\ Len(frames'[k - 1].args) < Len(params[frames'[k - 1].call])
             /\ frames'[k].call =
                  params[frames'[k - 1].call][Len(frames'[k - 1].args) + 1]
  <2>1. k - 1 \in 1 .. n /\ frames'[k - 1] = frames[k - 1]
    BY <1>3, <1>8
  <2>2. CASE k \in 1 .. n
    BY <1>1, <1>3, <1>8, <2>1, <2>2 DEF Framed, n
  <2>3. CASE k = n + 1
    <3>1. k - 1 = n
      BY <1>3, <2>3
    <3> QED
      BY <1>2, <1>3, <2>1, <2>3, <3>1 DEF Pending
  <2> QED
    BY <1>6, <2>2, <2>3
<1>9. ASSUME NEW i \in 1 .. Len(caches'), NEW c \in Callable
      PROVE  caches'[i][c] <= Len(values)
  <2>1. CASE i \in 1 .. Len(caches)
    BY <1>1, <1>3, <2>1 DEF Framed
  <2>2. CASE i \notin 1 .. Len(caches)
    <3>1. caches'[i] = EmptyCache
      BY <1>3, <1>4, <2>2
    <3>2. EmptyCache[c] = 0
      BY DEF EmptyCache
    <3> QED
      BY <1>1, <3>1, <3>2 DEF Typed
  <2> QED
    BY <2>1, <2>2
<1>10. Framed'
  <2>1. Len(caches') > 0 /\ Len(frames') > 0 /\ pc' = "resolving"
    BY <1>1, <1>2, <1>3, <1>4, <1>5 DEF Framed
  <2> QED
    BY <1>2, <1>7, <1>8, <1>9, <2>1 DEF Framed
<1>11. Handed'
  <2> SUFFICES ASSUME Len(frames') > 0, Len(frames'[1].args) > 0
               PROVE  /\ caches'[1] # EmptyCache
                      /\ \A k \in 1 .. Len(frames') : frames'[k].cache = 1
    BY DEF Handed, EmptyCache
  <2>1. 1 \in 1 .. n /\ frames'[1] = frames[1] /\ n \in 1 .. n
    BY <1>3
  <2>2. /\ caches[1] # EmptyCache
        /\ \A k \in 1 .. n : frames[k].cache = 1
    BY <1>1, <1>3, <2>1 DEF Handed, n
  <2>3. ~fresh /\ frames'[n + 1].cache = 1 /\ caches' = caches
    BY <1>3, <2>1, <2>2 DEF fresh
  <2> QED
    BY <1>3, <1>6, <2>2, <2>3
<1> QED
  BY <1>10, <1>11

(* What leaves the calls and the number of values alone. *)
LEMMA CallsStay ==
  ASSUME Framed, Handed, UNCHANGED <<params, frames, caches>>,
         Len(values') = Len(values),
         pc' = "resolving" => pc = "resolving",
         pc' = "running" => Len(frames) = 1
  PROVE  Framed' /\ Handed'
BY DEF Framed, Handed, EmptyCache

(* Every step keeps the calls and their caches in order. *)
LEMMA FramedKeep ==
  ASSUME IInv, [Next]_vars
  PROVE  Framed' /\ Handed'
<1>1. Typed /\ Framed /\ Handed
  BY DEF IInv
<1>2. Len(values) \in Nat
  BY <1>1 DEF Typed
<1> USE DEF program, resolution, history
<1>3. CASE Descend
  BY <1>3, DescendKeeps
<1>4. CASE TakeCached
  <2>1. /\ Ready /\ Return(Cached) /\ Cached # 0
        /\ UNCHANGED <<params, values, pc>>
    BY <1>4 DEF TakeCached
  <2>2. Cached \in Nat /\ Cached <= Len(values)
    BY <2>1, Waiting
  <2>3. Cached > 0 /\ Len(values') = Len(values)
    BY <2>1, <2>2
  <2>4. /\ Cached \in {0, Cached} /\ Len(values') \in Nat
        /\ Cached <= Len(values') /\ Len(values) <= Len(values')
    BY <1>2, <2>2, <2>3
  <2> QED
    BY <2>1, <2>2, <2>3, <2>4, ReturnKeeps
<1>5. CASE Call
  <2> DEFINE v == Len(values) + 1
  <2>1. Ready /\ Return(v) /\ Cached = 0 /\ UNCHANGED <<params, pc>>
    BY <1>5 DEF Call
  <2>2. PICK st \in {"made", "open"} : values' = Append(values, NewValue(st))
    BY <1>5 DEF Call
  <2>3. Len(values') = v
    BY <1>1, <2>1, <2>2, Makes
  <2>4. /\ v \in Nat /\ v > 0 /\ v <= Len(values') /\ Len(values) <= Len(values')
        /\ Len(values') \in Nat /\ Cached \in {0, v}
    BY <1>2, <2>1, <2>3
  <2> HIDE DEF v
  <2> QED
    BY <2>1, <2>4, ReturnKeeps
<1>6. CASE ResolvingRaises \/ CancelResolving
  <2>1. /\ frames' = <<>> /\ caches' = caches /\ pc' = "unwinding"
        /\ \/ values' = values
           \/ Ready /\ values' = Append(values, NewValue("abandoned"))
    BY <1>6 DEF ResolvingRaises, CancelResolving, Ready
  <2>2. Len(values') \in Nat /\ Len(values) <= Len(values')
    <3>1. CASE values' = values
      BY <1>2, <3>1
    <3>2. CASE Ready /\ values' = Append(values, NewValue("abandoned"))
      <4>1. Len(values') = Len(values) + 1
        BY <1>1, <3>2, Makes
      <4> QED
        BY <1>2, <4>1
    <3> QED
      BY <2>1, <3>1, <3>2
  <2>3. Len(frames') = 0
    BY <2>1
  <2>4. ASSUME NEW n \in 1 .. Len(caches), NEW c \in Callable
        PROVE  caches[n][c] <= Len(values')
    <3>1. caches[n][c] \in Nat /\ caches[n][c] <= Len(values)
      BY <1>1, <2>4 DEF Typed, Framed
    <3> QED
      BY <1>2, <2>2, <3>1
  <2>5. Len(caches) > 0
    BY <1>1 DEF Framed
  <2> QED
    BY <2>1, <2>3, <2>4, <2>5 DEF Framed, Handed
<1>7. CASE StartHandler \/ HandlerEnds \/ HandlerEndsLate \/ Unwound \/ Report
           \/ ReceiveEnd
           \/ TakePath \/ RemovePaths \/ CancelReport \/ CancelReceiving
           \/ CancelRemoval
           \/ UNCHANGED vars
  <2>1. UNCHANGED <<params, frames, caches, values>>
    BY <1>7 DEF StartHandler, HandlerEnds, HandlerEndsLate, Unwound, Report, ReceiveEnd,
       TakePath, RemovePaths, CancelReport, CancelReceiving, CancelRemoval, vars
  <2>2. /\ pc' = "resolving" => pc = "resolving"
        /\ pc' = "running" => pc = "running" \/ Len(frames) = 1
    BY <1>7 DEF StartHandler, HandlerEnds, HandlerEndsLate, Unwound, Report, ReceiveEnd,
       TakePath, RemovePaths, CancelReport, CancelReceiving, CancelRemoval, vars
  <2>3. pc' = "running" => Len(frames) = 1
    BY <1>1, <2>2 DEF Framed
  <2> QED
    BY <1>1, <2>1, <2>2, <2>3, CallsStay
<1>8. CASE Unwind \/ CancelUnwinding
  <2>1. /\ pc = "unwinding" /\ pc' = pc /\ stack # <<>>
        /\ UNCHANGED <<params, frames, caches>>
    BY <1>8, LeavesOne
  <2>2. PICK st \in {"left", "abandoned"} :
          values' = [values EXCEPT ![Last(stack)].state = st]
    BY <1>8, LeavesOne
  <2>3. Last(stack) \in 1 .. Len(values)
    BY <2>1, Youngest
  <2>4. Len(values') = Len(values)
    BY <1>1, <2>2, <2>3, Marks
  <2> QED
    BY <1>1, <2>1, <2>4, CallsStay
<1> QED
  BY <1>3, <1>4, <1>5, <1>6, <1>7, <1>8 DEF Next, Resolve, Cancel
-----------------------------------------------------------------------------
(* What is shared.                                                          *)

(* The parameters of a call agree, for they are in one cache. *)
LEMMA FramesAgree ==
  ASSUME Typed, Framed, NEW k \in 1 .. Len(frames)
  PROVE  ParametersAgree(frames[k].call, frames[k].args)
<1>1. Len(frames) > 0
  BY DEF Typed
<1>2. frames[k].args \in Seq(Nat)
  BY <1>1, Innermost
<1>3. DOMAIN frames[k].args = 1 .. Len(frames[k].args)
  BY <1>2
<1>4. ASSUME NEW i \in 1 .. Len(frames[k].args), NEW j \in 1 .. Len(frames[k].args),
             params[frames[k].call][i] = params[frames[k].call][j]
      PROVE  frames[k].args[i] = frames[k].args[j]
  <2>1. /\ caches[frames[k].cache][params[frames[k].call][i]] = frames[k].args[i]
        /\ caches[frames[k].cache][params[frames[k].call][j]] = frames[k].args[j]
    BY <1>4 DEF Framed
  <2> QED
    BY <1>4, <2>1
<1> QED
  BY <1>3, <1>4 DEF ParametersAgree

(* Values whose calls, arguments and order stay, with the entries of the   *)
(* first cache.                                                            *)
LEMMA OldShared ==
  ASSUME Shared, params' = params, NEW v \in 1 .. Len(values),
         values'[v].call = values[v].call, values'[v].args = values[v].args,
         values'[v].serves = values[v].serves,
         values[v].serves > 1 =>
           \/ caches'[1][values[v].call] = v
           \/ /\ caches'[1][values[v].call] = 0
              /\ v = Len(values') /\ pc' # "resolving"
  PROVE  /\ values'[v].serves > 0
         /\ values'[v].serves > 1 =>
              \/ caches'[1][values'[v].call] = v
              \/ /\ caches'[1][values'[v].call] = 0
                 /\ v = Len(values') /\ pc' # "resolving"
         /\ \A i \in 1 .. Len(values'[v].args) :
              values'[v].args[i] \in 1 .. (v - 1)
         /\ ParametersAgree(values[v].call, values[v].args)'
<1>1. /\ values[v].serves > 0
      /\ \A i \in 1 .. Len(values[v].args) : values[v].args[i] \in 1 .. (v - 1)
      /\ ParametersAgree(values[v].call, values[v].args)
  BY DEF Shared
<1>2. ParametersAgree(values[v].call, values[v].args)'
  BY <1>1 DEF ParametersAgree
<1> QED
  BY <1>1, <1>2

(* A value that is made for the call that is about to return. *)
LEMMA NewShared ==
  ASSUME IInv, Ready, params' = params,
         NEW st \in {"made", "open", "left", "abandoned"},
         values' = Append(values, NewValue(st)),
         NEW v \in Nat, v = Len(values) + 1
  PROVE  /\ values'[v].call = Top.call
         /\ values'[v].serves > 0
         /\ values'[v].serves > 1 => Caller.cache = 1
         /\ \A i \in 1 .. Len(values'[v].args) :
              values'[v].args[i] \in 1 .. (v - 1)
         /\ ParametersAgree(values[v].call, values[v].args)'
<1> DEFINE n == Len(frames)
<1>1. Typed /\ Framed
  BY DEF IInv
<1>2. /\ values'[v].call = Top.call /\ values'[v].args = Top.args
      /\ values'[v].serves = Len(frames[1].args) + 1 /\ Len(values) \in Nat
  BY <1>1, Makes
<1>3. /\ n \in Nat /\ n > 1 /\ Top = frames[n]
      /\ Len(frames[1].args) > 0 => Caller.cache = 1
  BY Waiting
<1>4. n \in 1 .. n /\ 1 \in 1 .. n
  BY <1>3
<1>5. Len(frames[1].args) \in Nat
  <2>1. frames[1].args \in Seq(Nat)
    BY <1>1, <1>3, <1>4, Innermost
  <2> QED
    BY <2>1
<1>6. \A i \in 1 .. Len(Top.args) : Top.args[i] \in 1 .. Len(values)
  BY <1>1, <1>3, <1>4 DEF Framed
<1>7. ParametersAgree(Top.call, Top.args)
  BY <1>1, <1>3, <1>4, FramesAgree
<1>8. ParametersAgree(values[v].call, values[v].args)'
  BY <1>2, <1>7 DEF ParametersAgree
<1>9. values'[v].serves > 0 /\ (values'[v].serves > 1 => Caller.cache = 1)
  BY <1>2, <1>3, <1>5
<1>10. \A i \in 1 .. Len(values'[v].args) : values'[v].args[i] \in 1 .. (v - 1)
  BY <1>2, <1>6
<1> QED
  BY <1>2, <1>8, <1>9, <1>10

(* Every step keeps what is shared. *)
LEMMA SharedKeep ==
  ASSUME IInv, [Next]_vars
  PROVE  Shared'
<1>1. Typed /\ Framed /\ Handed /\ Shared
  BY DEF IInv
<1>2. Len(values) \in Nat /\ 1 \in 1 .. Len(caches)
  BY <1>1 DEF Typed, Framed
<1>3. \A v \in 1 .. Len(values) : values[v].call \in Callable
  <2>1. \A v \in 1 .. Len(values) : values[v] \in Values
    BY <1>1 DEF Typed
  <2> QED
    BY <2>1 DEF Values
<1>4. \A v \in 1 .. Len(values) : values[v].serves > 1 =>
        \/ caches[1][values[v].call] = v
        \/ /\ caches[1][values[v].call] = 0
           /\ v = Len(values) /\ pc # "resolving"
  BY <1>1 DEF Shared
<1> USE DEF program, resolution, history
<1>5. ASSUME params' = params,
             \A v \in 1 .. Len(values) : caches'[1][values[v].call] = caches[1][values[v].call],
             pc' = "resolving" => pc = "resolving",
             Len(values') = Len(values),
             \A v \in 1 .. Len(values) :
               /\ values'[v].call = values[v].call
               /\ values'[v].args = values[v].args
               /\ values'[v].serves = values[v].serves
      PROVE  Shared'
  <2> SUFFICES ASSUME NEW v \in 1 .. Len(values)
               PROVE  /\ values'[v].serves > 0
                      /\ values'[v].serves > 1 =>
                           \/ caches'[1][values'[v].call] = v
                           \/ /\ caches'[1][values'[v].call] = 0
                              /\ v = Len(values') /\ pc' # "resolving"
                      /\ \A i \in 1 .. Len(values'[v].args) :
                           values'[v].args[i] \in 1 .. (v - 1)
                      /\ ParametersAgree(values[v].call, values[v].args)'
    BY <1>5 DEF Shared
  <2>1. values[v].serves > 1 =>
          \/ caches'[1][values[v].call] = v
          \/ /\ caches'[1][values[v].call] = 0
             /\ v = Len(values') /\ pc' # "resolving"
    BY <1>4, <1>5
  <2> QED
    BY <1>1, <1>5, <2>1, OldShared
<1>6. CASE Descend
  <2>1. /\ UNCHANGED <<params, values, pc>> /\ caches'[1] = caches[1]
    BY <1>1, <1>2, <1>6, Descends DEF Descend
  <2> QED
    BY <1>5, <2>1
<1>7. CASE TakeCached
  <2>1. /\ Ready /\ Return(Cached) /\ Cached # 0 /\ pc = "resolving"
        /\ UNCHANGED <<params, values, pc>>
    BY <1>7 DEF TakeCached, Ready
  <2>2. Cached \in Nat /\ Cached > 0 /\ Cached \in {0, Cached}
    BY <2>1, Waiting
  <2>3. \A c \in Callable : caches[1][c] # 0 => caches'[1][c] = caches[1][c]
    BY <1>2, <2>1, <2>2, EntriesStay
  <2> SUFFICES ASSUME NEW v \in 1 .. Len(values)
               PROVE  /\ values'[v].serves > 0
                      /\ values'[v].serves > 1 =>
                           \/ caches'[1][values'[v].call] = v
                           \/ /\ caches'[1][values'[v].call] = 0
                              /\ v = Len(values') /\ pc' # "resolving"
                      /\ \A i \in 1 .. Len(values'[v].args) :
                           values'[v].args[i] \in 1 .. (v - 1)
                      /\ ParametersAgree(values[v].call, values[v].args)'
    BY <2>1 DEF Shared
  <2>4. values[v].serves > 1 => caches'[1][values[v].call] = v
    <3> SUFFICES ASSUME values[v].serves > 1
                 PROVE  caches'[1][values[v].call] = v
      OBVIOUS
    <3>1. caches[1][values[v].call] = v /\ v # 0
      BY <1>2, <1>4, <2>1
    <3> QED
      BY <1>3, <2>3, <3>1
  <2> QED
    BY <1>1, <2>1, <2>4, OldShared
<1>8. CASE Call
  <2>1. /\ Ready /\ Return(Len(values) + 1) /\ Cached = 0 /\ pc = "resolving"
        /\ UNCHANGED <<params, pc>>
    BY <1>8 DEF Call, Ready
  <2>2. PICK st \in {"made", "open"} : values' = Append(values, NewValue(st))
    BY <1>8 DEF Call
  <2>3. /\ Len(values') = Len(values) + 1
        /\ \A w \in 1 .. Len(values) : values'[w] = values[w]
    BY <1>1, <2>1, <2>2, Makes
  <2>4. Len(values) + 1 \in Nat /\ Len(values) + 1 > 0
    BY <1>2
  <2>5. /\ \A c \in Callable : caches[1][c] # 0 => caches'[1][c] = caches[1][c]
        /\ caches'[Caller.cache][Top.call] = Len(values) + 1
    BY <1>2, <2>1, <2>4, EntriesStay
  <2> SUFFICES ASSUME NEW v \in 1 .. Len(values')
               PROVE  /\ values'[v].serves > 0
                      /\ values'[v].serves > 1 =>
                           \/ caches'[1][values'[v].call] = v
                           \/ /\ caches'[1][values'[v].call] = 0
                              /\ v = Len(values') /\ pc' # "resolving"
                      /\ \A i \in 1 .. Len(values'[v].args) :
                           values'[v].args[i] \in 1 .. (v - 1)
                      /\ ParametersAgree(values[v].call, values[v].args)'
    BY DEF Shared
  <2>6. CASE v \in 1 .. Len(values)
    <3>1. values[v].serves > 1 => caches'[1][values[v].call] = v
      <4> SUFFICES ASSUME values[v].serves > 1
                   PROVE  caches'[1][values[v].call] = v
        OBVIOUS
      <4>1. caches[1][values[v].call] = v /\ v # 0
        BY <1>2, <1>4, <2>1, <2>6
      <4> QED
        BY <1>3, <2>5, <2>6, <4>1
    <3>2. values'[v] = values[v]
      BY <2>3, <2>6
    <3> QED
      BY <1>1, <2>1, <2>6, <3>1, <3>2, OldShared
  <2>7. CASE v = Len(values) + 1
    <3>1. /\ values'[v].call = Top.call
          /\ values'[v].serves > 0
          /\ values'[v].serves > 1 => Caller.cache = 1
          /\ \A i \in 1 .. Len(values'[v].args) :
               values'[v].args[i] \in 1 .. (v - 1)
          /\ ParametersAgree(values[v].call, values[v].args)'
      <4>1. v \in Nat /\ st \in {"made", "open", "left", "abandoned"}
        BY <2>4, <2>7
      <4> QED
        BY <2>1, <2>2, <2>7, <4>1, NewShared
    <3> QED
      BY <2>5, <2>7, <3>1
  <2>8. v \in 1 .. Len(values) \/ v = Len(values) + 1
    BY <1>2, <2>3
  <2> QED
    BY <2>6, <2>7, <2>8
<1>9. CASE CancelResolving
  <2>1. /\ UNCHANGED <<params, caches>> /\ pc' = "unwinding"
        /\ \/ values' = values
           \/ /\ Ready /\ pc = "resolving" /\ Cached = 0
              /\ values' = Append(values, NewValue("abandoned"))
    BY <1>9 DEF CancelResolving, Ready
  <2>2. CASE values' = values
    BY <1>5, <2>1, <2>2
  <2>3. CASE /\ Ready /\ pc = "resolving" /\ Cached = 0
             /\ values' = Append(values, NewValue("abandoned"))
    <3>1. /\ Len(values') = Len(values) + 1
          /\ \A w \in 1 .. Len(values) : values'[w] = values[w]
      BY <1>1, <2>3, Makes
    <3> SUFFICES ASSUME NEW v \in 1 .. Len(values')
                 PROVE  /\ values'[v].serves > 0
                        /\ values'[v].serves > 1 =>
                             \/ caches'[1][values'[v].call] = v
                             \/ /\ caches'[1][values'[v].call] = 0
                                /\ v = Len(values') /\ pc' # "resolving"
                        /\ \A i \in 1 .. Len(values'[v].args) :
                             values'[v].args[i] \in 1 .. (v - 1)
                        /\ ParametersAgree(values[v].call, values[v].args)'
      BY DEF Shared
    <3>2. CASE v \in 1 .. Len(values)
      <4>1. values[v].serves > 1 => caches'[1][values[v].call] = v
        BY <1>4, <2>1, <2>3, <3>2
      <4>2. values'[v] = values[v]
        BY <3>1, <3>2
      <4> QED
        BY <1>1, <2>1, <3>2, <4>1, <4>2, OldShared
    <3>3. CASE v = Len(values) + 1
      <4>1. v \in Nat
        BY <1>2, <3>3
      <4>2. /\ values'[v].call = Top.call
            /\ values'[v].serves > 0
            /\ values'[v].serves > 1 => Caller.cache = 1
            /\ \A i \in 1 .. Len(values'[v].args) :
                 values'[v].args[i] \in 1 .. (v - 1)
            /\ ParametersAgree(values[v].call, values[v].args)'
        BY <2>1, <2>3, <3>3, <4>1, NewShared
      <4>3. Caller.cache = 1 => caches'[1][Top.call] = 0
        BY <2>1, <2>3 DEF Cached
      <4> QED
        BY <2>1, <3>1, <3>3, <4>2, <4>3
    <3>4. v \in 1 .. Len(values) \/ v = Len(values) + 1
      BY <1>2, <3>1
    <3> QED
      BY <3>2, <3>3, <3>4
  <2> QED
    BY <2>1, <2>2, <2>3
<1>10. CASE ResolvingRaises \/ StartHandler \/ HandlerEnds \/ HandlerEndsLate
            \/ Unwound \/ Report \/ ReceiveEnd \/ TakePath \/ RemovePaths
            \/ CancelReport \/ CancelReceiving
            \/ CancelRemoval \/ UNCHANGED vars
  <2>1. /\ UNCHANGED <<params, caches, values>>
        /\ pc' = "resolving" => pc = "resolving"
    BY <1>10 DEF ResolvingRaises, StartHandler, HandlerEnds, HandlerEndsLate,
       Unwound, Report, ReceiveEnd, TakePath, RemovePaths, CancelReport,
       CancelReceiving, CancelRemoval, vars
  <2> QED
    BY <1>5, <2>1
<1>11. CASE Unwind \/ CancelUnwinding
  <2>1. /\ pc' = pc /\ stack # <<>> /\ UNCHANGED <<params, caches>>
    BY <1>11, LeavesOne
  <2>2. PICK st \in {"left", "abandoned"} :
          values' = [values EXCEPT ![Last(stack)].state = st]
    BY <1>11, LeavesOne
  <2>3. Last(stack) \in 1 .. Len(values)
    BY <2>1, Youngest
  <2>4. /\ Len(values') = Len(values)
        /\ \A w \in 1 .. Len(values) :
             /\ values'[w].call = values[w].call
             /\ values'[w].args = values[w].args
             /\ values'[w].serves = values[w].serves
    BY <1>1, <2>2, <2>3, Marks
  <2> QED
    BY <1>5, <2>1, <2>4
<1> QED
  BY <1>6, <1>7, <1>8, <1>9, <1>10, <1>11 DEF Next, Resolve, Cancel
-----------------------------------------------------------------------------
(* Init => IInv. *)
LEMMA InitHolds ==
  ASSUME Init
  PROVE  IInv
<1>1. Typed
  <2> DEFINE f == [call |-> Handler, args |-> <<>>, cache |-> 1]
  <2>1. f \in Frame
    BY DEF Frame, Function
  <2>2. frames = <<f>>
    BY DEF Init
  <2> HIDE DEF f
  <2>3. frames \in Seq(Frame)
    BY <2>1, <2>2
  <2>4. EmptyCache \in [Callable -> Nat]
    BY DEF EmptyCache
  <2>5. caches = <<EmptyCache>>
    BY DEF Init
  <2>6. caches \in Seq([Callable -> Nat])
    BY <2>4, <2>5
  <2>7. paths \in Seq(Path) /\ Len(paths) = 0 /\ Len(paths) <= MaxPaths
    BY MaxPathsAssumption DEF Init
  <2>8. values \in Seq(Values) /\ stack \in Seq(Nat) /\ jammed \in 0 .. Len(paths)
    BY <2>7 DEF Init
  <2> QED
    BY <2>3, <2>6, <2>7, <2>8 DEF Init, Typed
<1>2. Outcomes
  BY DEF Init, Outcomes
<1>3. Removals
  BY DEF Init, Removals
<1>4. Generators
  BY DEF Init, Generators
<1>5. /\ Len(frames) = 1 /\ frames[1].call = Handler /\ frames[1].cache = 1
      /\ Len(frames[1].args) = 0 /\ Len(caches) = 1 /\ caches[1] = EmptyCache
      /\ Len(values) = 0
  BY DEF Init
<1>6. \A k \in 1 .. 1 : k = 1
  OBVIOUS
<1>7. Framed
  <2>1. \A c \in Callable : EmptyCache[c] = 0
    BY DEF EmptyCache
  <2> QED
    BY <1>5, <1>6, <2>1 DEF Framed
<1>8. Handed
  BY <1>5 DEF Handed
<1>9. Shared
  BY <1>5 DEF Shared
<1> QED
  BY <1>1, <1>2, <1>3, <1>4, <1>7, <1>8, <1>9 DEF IInv

(* IInv is inductive: calls, caches, values, the exit stack and the paths   *)
(* fit each other in every state.                                           *)
THEOREM ExecutionInvariant == Spec => []IInv
<1>1. Init => IInv
  BY InitHolds
<1>2. IInv /\ [Next]_vars => IInv'
  BY TypedKeeps, OutcomesKeep, RemovalsKeep, GeneratorsKeep, FramedKeep, SharedKeep
     DEF IInv
<1> QED
  BY <1>1, <1>2, PTL DEF Spec

(* A sequence whose elements are in a smaller set. *)
LEMMA Narrowed ==
  ASSUME NEW S, NEW T, NEW s \in Seq(S), \A i \in 1 .. Len(s) : s[i] \in T
  PROVE  s \in Seq(T)
OBVIOUS

(* The variables have their types in every state, and the exit stack names *)
(* the generators that are open.                                           *)
THEOREM ExecutionTypes == Spec => []TypeOK
<1>1. IInv => TypeOK
  <2> SUFFICES ASSUME IInv PROVE TypeOK
    OBVIOUS
  <2>1. Typed /\ Generators /\ Framed /\ Shared
    BY DEF IInv
  <2>2. frames \in Seq([call : Callable \cup {Handler}, args : Seq(Nat),
                        cache : 1 .. Len(caches)])
    <3> DEFINE T == [call : Callable \cup {Handler}, args : Seq(Nat),
                     cache : 1 .. Len(caches)]
    <3>1. frames \in Seq(Frame)
      BY <2>1 DEF Typed
    <3>2. ASSUME NEW k \in 1 .. Len(frames) PROVE frames[k] \in T
      <4>1. frames[k] \in Frame /\ frames[k].cache \in 1 .. Len(caches)
        BY <2>1, <3>1 DEF Framed
      <4> QED
        BY <4>1 DEF Frame, Function
    <3> HIDE DEF T
    <3>3. frames \in Seq(T)
      BY <3>1, <3>2, Narrowed
    <3> QED
      BY <3>3 DEF T
  <2>3. caches \in Seq([Callable -> 0 .. Len(values)])
    <3> DEFINE T == [Callable -> 0 .. Len(values)]
    <3>1. caches \in Seq([Callable -> Nat]) /\ Len(values) \in Nat
      BY <2>1 DEF Typed
    <3>2. ASSUME NEW k \in 1 .. Len(caches) PROVE caches[k] \in T
      <4>1. caches[k] \in [Callable -> Nat]
        BY <3>1
      <4>2. \A c \in Callable : caches[k][c] \in 0 .. Len(values)
        BY <2>1, <3>1, <4>1 DEF Framed
      <4> QED
        BY <4>1, <4>2
    <3> HIDE DEF T
    <3>3. caches \in Seq(T)
      BY <3>1, <3>2, Narrowed
    <3> QED
      BY <3>3 DEF T
  <2>4. values \in Seq(Values) /\ stack \in Seq(Nat)
        /\ DOMAIN values = 1 .. Len(values) /\ DOMAIN stack = 1 .. Len(stack)
    BY <2>1 DEF Typed
  <2>5. \A v \in DOMAIN values : ToSet(values[v].args) \subseteq 1 .. v - 1
    <3> SUFFICES ASSUME NEW v \in 1 .. Len(values)
                 PROVE  ToSet(values[v].args) \subseteq 1 .. v - 1
      BY <2>4
    <3>1. values[v].args \in Seq(Nat)
      <4>1. values[v] \in Values
        BY <2>4
      <4> QED
        BY <4>1 DEF Values
    <3>2. \A i \in 1 .. Len(values[v].args) : values[v].args[i] \in 1 .. (v - 1)
      BY <2>1 DEF Shared
    <3> QED
      BY <3>1, <3>2 DEF ToSet
  <2>6. ToSet(stack) = {v \in DOMAIN values : values[v].state = "open"}
    BY <2>1, <2>4 DEF Generators, ToSet
  <2> QED
    BY <2>1, <2>2, <2>3, <2>4, <2>5, <2>6 DEF Typed, Path, TypeOK
<1> QED
  BY <1>1, ExecutionInvariant, PTL

(* When the outcome is reported, or an exception leaves the processor,     *)
(* every generator that was entered has been left.                         *)
THEOREM AllLeft == Spec => []LeftBeforeReport
<1>1. IInv => LeftBeforeReport
  <2> SUFFICES ASSUME IInv, pc \in {"reporting", "receiving", "leaving", "over"},
                      NEW v \in DOMAIN values
               PROVE  \/ values[v].state \in {"made", "left"}
                      \/ /\ values[v].state = "abandoned"
                         /\ kind[values[v].call] = "gen" /\ stopped
    BY DEF LeftBeforeReport
  <2>1. values \in Seq(Values) /\ v \in 1 .. Len(values) /\ Generators /\ Outcomes
    BY DEF IInv, Typed
  <2>2. values[v].state \in {"made", "open", "left", "abandoned"}
    <3>1. values[v] \in Values
      BY <2>1
    <3> QED
      BY <3>1 DEF Values
  <2>3. stack = <<>>
    BY <2>1 DEF Outcomes
  <2>4. values[v].state # "open"
    BY <2>1, <2>3 DEF Generators
  <2> QED
    BY <2>1, <2>2, <2>4 DEF Generators
<1> QED
  BY <1>1, ExecutionInvariant, PTL

(* Paths are removed as their flags say of the outcome, and behind all     *)
(* that may use them.                                                      *)
THEOREM PathsRemoved == Spec => []PathsFollowFlags
<1>1. IInv => PathsFollowFlags
  <2> SUFFICES ASSUME IInv PROVE PathsFollowFlags
    OBVIOUS
  <2>1. Outcomes /\ Removals /\ DOMAIN paths = 1 .. Len(paths)
    BY DEF IInv, Typed
  <2> QED
    BY <2>1 DEF Outcomes, Removals, PathsFollowFlags
<1> QED
  BY <1>1, ExecutionInvariant, PTL

(* From the handler's second parameter on every callable is called once,   *)
(* and the parameters of each call agree.                                  *)
THEOREM SharedOnce == Spec => []SharedAfterFirst
<1>1. IInv => SharedAfterFirst
  <2> SUFFICES ASSUME IInv PROVE SharedAfterFirst
    OBVIOUS
  <2>1. Typed /\ Outcomes /\ Framed /\ Shared
    BY DEF IInv
  <2>2. values \in Seq(Values) /\ DOMAIN values = 1 .. Len(values)
        /\ Len(values) \in Nat
    BY <2>1 DEF Typed
  <2>3. ASSUME NEW v \in 1 .. Len(values), NEW w \in 1 .. Len(values),
               v # w, values[v].call = values[w].call
        PROVE  1 \in {values[v].serves, values[w].serves}
    <3>1. values[v].serves \in Nat /\ values[w].serves \in Nat
      <4>1. values[v] \in Values /\ values[w] \in Values
        BY <2>2
      <4> QED
        BY <4>1 DEF Values
    <3>2. values[v].serves > 0 /\ values[w].serves > 0
      BY <2>1 DEF Shared
    <3>3. ASSUME values[v].serves > 1, values[w].serves > 1 PROVE FALSE
      <4>1. \/ caches[1][values[v].call] = v
            \/ caches[1][values[v].call] = 0 /\ v = Len(values)
        BY <2>1, <3>3 DEF Shared
      <4>2. \/ caches[1][values[v].call] = w
            \/ caches[1][values[v].call] = 0 /\ w = Len(values)
        BY <2>1, <2>3, <3>3 DEF Shared
      <4>3. v # 0 /\ w # 0
        BY <2>2
      <4> QED
        BY <2>3, <4>1, <4>2, <4>3
    <3> QED
      BY <3>1, <3>2, <3>3
  <2>4. \A v \in 1 .. Len(values) : ParametersAgree(values[v].call, values[v].args)
    BY <2>1 DEF Shared
  <2>5. ASSUME handler = "running", ~stopped
        PROVE  ParametersAgree(Handler, frames[1].args)
    <3>1. pc = "running" /\ Len(frames) = 1
      BY <2>1, <2>5 DEF Outcomes, Framed
    <3>2. 1 \in 1 .. Len(frames) /\ frames[1].call = Handler
      BY <2>1, <3>1 DEF Framed
    <3>3. ParametersAgree(frames[1].call, frames[1].args)
      BY <2>1, <3>2, FramesAgree
    <3> QED
      BY <3>2, <3>3
  <2> QED
    BY <2>2, <2>3, <2>4, <2>5 DEF SharedAfterFirst
<1> QED
  BY <1>1, ExecutionInvariant, PTL
-----------------------------------------------------------------------------
(* What a value was made from: Sources is defined by a recursion along the  *)
(* arguments, which are older than the value.                               *)

(* The recursive equation has a solution: the smallest relation that holds *)
(* of a value with its arguments, and with what they are related to.       *)
LEMMA SourcesExists ==
  ASSUME NEW D, NEW A \in [D -> SUBSET D]
  PROVE  \E f : f = [v \in D |-> UNION {{w} \cup f[w] : w \in A[v]}]
<1> DEFINE Closed(S) == \A v \in D : \A w \in A[v] :
             /\ <<v, w>> \in S
             /\ \A x \in D : <<w, x>> \in S => <<v, x>> \in S
           R == {p \in D \X D : \A S \in SUBSET (D \X D) : Closed(S) => p \in S}
           f == [v \in D |-> {x \in D : <<v, x>> \in R}]
           F == {p \in D \X D : \E w \in A[p[1]] : p[2] = w \/ <<w, p[2]>> \in R}
<1>1. \A v \in D : A[v] \subseteq D
  OBVIOUS
<1>2. Closed(R)
  <2> SUFFICES ASSUME NEW v \in D, NEW w \in A[v]
               PROVE  /\ <<v, w>> \in R
                      /\ \A x \in D : <<w, x>> \in R => <<v, x>> \in R
    OBVIOUS
  <2>1. w \in D
    BY <1>1
  <2>2. <<v, w>> \in R
    <3> SUFFICES ASSUME NEW S \in SUBSET (D \X D), Closed(S)
                 PROVE  <<v, w>> \in S
      BY <2>1
    <3> QED
      OBVIOUS
  <2>3. ASSUME NEW x \in D, <<w, x>> \in R PROVE <<v, x>> \in R
    <3> SUFFICES ASSUME NEW S \in SUBSET (D \X D), Closed(S)
                 PROVE  <<v, x>> \in S
      BY <2>1
    <3>1. <<w, x>> \in S
      BY <2>3
    <3> QED
      BY <3>1
  <2> QED
    BY <2>2, <2>3
<1>3. Closed(F)
  <2> SUFFICES ASSUME NEW v \in D, NEW w \in A[v]
               PROVE  /\ <<v, w>> \in F
                      /\ \A x \in D : <<w, x>> \in F => <<v, x>> \in F
    OBVIOUS
  <2>1. w \in D
    BY <1>1
  <2>2. <<v, w>> \in F
    BY <2>1
  <2>3. ASSUME NEW x \in D, <<w, x>> \in F PROVE <<v, x>> \in F
    <3>1. PICK u \in A[w] : x = u \/ <<u, x>> \in R
      BY <2>3
    <3>2. u \in D
      BY <1>1, <2>1
    <3> HIDE DEF R
    <3>3. <<w, x>> \in R
      BY <1>2, <2>1, <3>1, <3>2
    <3> QED
      BY <2>3, <3>3
  <2> QED
    BY <2>2, <2>3
<1>4. R \subseteq F
  <2> SUFFICES ASSUME NEW p \in R PROVE p \in F
    OBVIOUS
  <2>1. F \in SUBSET (D \X D)
    OBVIOUS
  <2> HIDE DEF F, Closed
  <2> QED
    BY <1>3, <2>1
<1> HIDE DEF R
<1>5. ASSUME NEW v \in D
      PROVE  f[v] = UNION {{w} \cup f[w] : w \in A[v]}
  <2>1. ASSUME NEW x \in f[v] PROVE x \in UNION {{w} \cup f[w] : w \in A[v]}
    <3>1. x \in D /\ <<v, x>> \in R
      OBVIOUS
    <3>2. <<v, x>> \in F
      BY <1>4, <3>1
    <3>3. PICK w \in A[v] : x = w \/ <<w, x>> \in R
      BY <3>2
    <3>4. w \in D
      BY <1>1
    <3>5. x \in {w} \cup f[w]
      BY <3>1, <3>3, <3>4
    <3> QED
      BY <3>5
  <2>2. ASSUME NEW x \in UNION {{w} \cup f[w] : w \in A[v]} PROVE x \in f[v]
    <3>1. PICK w \in A[v] : x \in {w} \cup f[w]
      OBVIOUS
    <3>2. w \in D
      BY <1>1
    <3>3. x \in D /\ (x = w \/ <<w, x>> \in R)
      BY <3>1, <3>2
    <3>4. <<v, x>> \in R
      BY <1>2, <3>1, <3>3
    <3> QED
      BY <3>3, <3>4
  <2> QED
    BY <2>1, <2>2
<1>6. f = [v \in D |-> UNION {{w} \cup f[w] : w \in A[v]}]
  <2> DEFINE g == [v \in D |-> UNION {{w} \cup f[w] : w \in A[v]}]
  <2>1. \A v \in D : f[v] = g[v]
    BY <1>5
  <2>2. f \in [D -> SUBSET D] /\ DOMAIN f = D /\ DOMAIN g = D
    OBVIOUS
  <2>3. f = [v \in D |-> f[v]] /\ g = [v \in D |-> g[v]]
    OBVIOUS
  <2> HIDE DEF f, g
  <2>4. f = g
    BY <2>1, <2>3
  <2> QED
    BY <2>4 DEF g
<1> HIDE DEF f
<1> QED
  BY <1>6

(* Sources satisfies its equation. *)
LEMMA SourcesEquation ==
  ASSUME Typed, Shared
  PROVE  \A v \in 1 .. Len(values) :
           Sources[v] = UNION {{w} \cup Sources[w] : w \in ToSet(values[v].args)}
<1> DEFINE D == DOMAIN values
           A == [v \in D |-> ToSet(values[v].args)]
<1>1. D = 1 .. Len(values) /\ values \in Seq(Values) /\ Len(values) \in Nat
  BY DEF Typed
<1>2. A \in [D -> SUBSET D]
  <2> SUFFICES ASSUME NEW v \in D PROVE ToSet(values[v].args) \subseteq D
    OBVIOUS
  <2>1. values[v] \in Values
    BY <1>1
  <2>2. values[v].args \in Seq(Nat)
    BY <2>1 DEF Values
  <2>3. \A i \in 1 .. Len(values[v].args) : values[v].args[i] \in 1 .. (v - 1)
    BY <1>1 DEF Shared
  <2> QED
    BY <1>1, <2>2, <2>3 DEF ToSet
<1>3. \E f : f = [v \in D |-> UNION {{w} \cup f[w] : w \in A[v]}]
  <2> HIDE DEF D, A
  <2> QED
    BY <1>2, SourcesExists
<1>4. \E f : f = [v \in DOMAIN values |->
                    UNION {{w} \cup f[w] : w \in ToSet(values[v].args)}]
  BY <1>3
<1>5. Sources = [v \in DOMAIN values |->
                   UNION {{w} \cup Sources[w] : w \in ToSet(values[v].args)}]
  BY <1>4 DEF Sources
<1> QED
  BY <1>1, <1>5

(* A value was made from older ones. *)
LEMMA SourcesOlder ==
  ASSUME Typed, Shared
  PROVE  \A v \in 1 .. Len(values) : Sources[v] \subseteq 1 .. (v - 1)
<1> DEFINE B == {v \in 1 .. Len(values) : ~ (Sources[v] \subseteq 1 .. (v - 1))}
<1>1. values \in Seq(Values) /\ Len(values) \in Nat
  BY DEF Typed
<1> SUFFICES ASSUME B # {} PROVE FALSE
  OBVIOUS
<1>2. PICK v \in B : \A w \in B : ~ (<<w, v>> \in OpToRel(<, Nat))
  <2> DEFINE R == OpToRel(<, Nat)
  <2>1. IsWellFoundedOn(R, Nat)
    BY NatLessThanWellFounded
  <2>2. B \subseteq Nat
    BY <1>1
  <2> HIDE DEF R, B
  <2>3. \E v \in B : \A w \in B : ~ (<<w, v>> \in R)
    BY <2>1, <2>2, WFMin
  <2> QED
    BY <2>3 DEF R
<1>3. v \in 1 .. Len(values) /\ v \in Nat
  BY <1>1
<1>4. \A w \in 1 .. (v - 1) : w \in 1 .. Len(values) /\ Sources[w] \subseteq 1 .. (w - 1)
  <2> SUFFICES ASSUME NEW w \in 1 .. (v - 1)
               PROVE  w \in 1 .. Len(values) /\ Sources[w] \subseteq 1 .. (w - 1)
    OBVIOUS
  <2>1. w \in 1 .. Len(values) /\ w \in Nat /\ w < v
    BY <1>1, <1>3
  <2>2. <<w, v>> \in OpToRel(<, Nat)
    BY <1>3, <2>1 DEF OpToRel
  <2>3. w \notin B
    BY <1>2, <2>2
  <2> QED
    BY <2>1, <2>3
<1>5. ASSUME NEW w \in ToSet(values[v].args)
      PROVE  {w} \cup Sources[w] \subseteq 1 .. (v - 1)
  <2>1. values[v] \in Values
    BY <1>1, <1>3
  <2>2. values[v].args \in Seq(Nat)
    BY <2>1 DEF Values
  <2>3. w \in 1 .. (v - 1)
    <3>1. \A i \in 1 .. Len(values[v].args) : values[v].args[i] \in 1 .. (v - 1)
      BY <1>3 DEF Shared
    <3> QED
      BY <2>2, <3>1 DEF ToSet
  <2>4. Sources[w] \subseteq 1 .. (w - 1)
    BY <1>4, <2>3
  <2>5. 1 .. (w - 1) \subseteq 1 .. (v - 1)
    BY <1>3, <2>3
  <2> QED
    BY <2>3, <2>4, <2>5
<1>6. Sources[v] = UNION {{w} \cup Sources[w] : w \in ToSet(values[v].args)}
  BY <1>3, SourcesEquation
<1>7. Sources[v] \subseteq 1 .. (v - 1)
  BY <1>5, <1>6
<1> QED
  BY <1>2, <1>7

(* No generator is left while another one that was made from it is open,   *)
(* nor any while the handler runs.                                         *)
THEOREM OpenForUse == Spec => []OpenWhileUsed
<1>1. IInv => OpenWhileUsed
  <2> SUFFICES ASSUME IInv PROVE OpenWhileUsed
    OBVIOUS
  <2>1. Typed /\ Outcomes /\ Generators /\ Shared
    BY DEF IInv
  <2>2. DOMAIN values = 1 .. Len(values) /\ Len(values) \in Nat
    BY <2>1 DEF Typed
  <2>3. ASSUME NEW v \in 1 .. Len(values), values[v].state = "open",
               NEW w \in Sources[v]
        PROVE  values[w].state # "left"
    <3>1. w \in 1 .. (v - 1)
      BY <2>1, SourcesOlder
    <3>2. w \in 1 .. Len(values) /\ ~ (v < w)
      BY <2>2, <3>1
    <3> QED
      BY <2>1, <2>3, <3>2 DEF Generators
  <2>4. ASSUME handler = "running", ~stopped, NEW v \in 1 .. Len(values)
        PROVE  values[v].state # "left"
    <3>1. pc = "running"
      BY <2>1, <2>4 DEF Outcomes
    <3> QED
      BY <2>1, <3>1 DEF Generators
  <2> QED
    BY <2>2, <2>3, <2>4 DEF OpenWhileUsed
<1> QED
  BY <1>1, ExecutionInvariant, PTL

=============================================================================
