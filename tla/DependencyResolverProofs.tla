---------------------- MODULE DependencyResolverProofs ----------------------
(***************************************************************************)
(* For any dependency graph, the exit stack of a handler call is a scoped  *)
(* resource: what generators yield stays open as long as it may be used    *)
(* and is closed in reverse order, whatever raises or is cancelled; and    *)
(* every callable is called with the arguments it declares.                *)
(***************************************************************************)
EXTENDS DependencyResolver, SequenceTheorems, TLAPS

USE HandlerAssumption, UsesAssumption, KindAssumption

Inside == {"resolving", "handling", "reporting", "hooks"}

LEMMA ElementsTyped ==
    ASSUME NEW S, NEW s \in Seq(S)
    PROVE  /\ Len(s) \in Nat /\ DOMAIN s = 1..Len(s)
           /\ \A k \in 1..Len(s) : s[k] \in S
OBVIOUS

LEMMA AppendTo ==
    ASSUME NEW S, NEW s \in Seq(S), NEW e \in S
    PROVE  /\ Append(s, e) \in Seq(S) /\ Append(s, e) # <<>>
           /\ Len(Append(s, e)) = Len(s) + 1
           /\ \A k \in 1..Len(s) : Append(s, e)[k] = s[k]
           /\ Append(s, e)[Len(s) + 1] = e
OBVIOUS

LEMMA FrontOf ==
    ASSUME NEW S, NEW s \in Seq(S), s # <<>>
    PROVE  /\ Len(s) \in Nat \ {0}
           /\ Front(s) \in Seq(S) /\ Len(Front(s)) = Len(s) - 1
           /\ \A k \in 1..Len(s)-1 : Front(s)[k] = s[k]
           /\ Last(s) = s[Len(s)]
<1>1. Len(s) \in Nat \ {0} /\ \A k \in 1..Len(s)-1 : s[k] \in S
  OBVIOUS
<1> DEFINE n == Len(s) - 1
<1>2. n \in Int /\ 1 \in Int /\ \A k \in 1..n : s[k] \in S
  BY <1>1
<1>3. \A m, k \in Int : (\A i \in m..k : s[i] \in S) =>
        /\ SubSeq(s, m, k) \in Seq(S)
        /\ Len(SubSeq(s, m, k)) = IF m <= k THEN k - m + 1 ELSE 0
        /\ \A i \in 1..k-m+1 : SubSeq(s, m, k)[i] = s[m+i-1]
  BY SubSeqProperties
<1>4. /\ SubSeq(s, 1, n) \in Seq(S)
      /\ Len(SubSeq(s, 1, n)) = IF 1 <= n THEN n - 1 + 1 ELSE 0
      /\ \A i \in 1..n-1+1 : SubSeq(s, 1, n)[i] = s[1+i-1]
  <2> HIDE DEF n
  <2> QED BY <1>2, <1>3
<1>5. Len(SubSeq(s, 1, n)) = n /\ \A k \in 1..n : SubSeq(s, 1, n)[k] = s[k]
  <2>1. n \in Nat /\ n - 1 + 1 = n
    BY <1>1
  <2> HIDE DEF n
  <2>2. \A k \in 1..n : 1 + k - 1 = k
    BY <2>1
  <2> QED BY <1>4, <2>1, <2>2
<1> QED BY <1>1, <1>4, <1>5 DEF Front, Last

LEMMA SeqOfSubset ==
    ASSUME NEW S, NEW T, S \subseteq T, NEW s \in Seq(S)
    PROVE  s \in Seq(T)
<1>1. s \in [1..Len(s) -> T] /\ Len(s) \in Nat
  BY ElementsTyped
<1> QED BY <1>1

LEMMA TopTyped ==
    ASSUME TypeOK
    PROVE  /\ Len(frames) \in Nat \ {0} /\ DOMAIN frames = 1..Len(frames)
           /\ Top \in Call /\ Uses[Top.fn] \in Seq(Dependency)
           /\ Wanting => Uses[Top.fn][Len(Top.args) + 1] \in Dependency
<1>1. Len(frames) \in Nat \ {0} /\ DOMAIN frames = 1..Len(frames)
  BY DEF TypeOK
<1>2. Top \in Call
  BY <1>1 DEF TypeOK, Top
<1>3. Uses[Top.fn] \in Seq(Dependency)
  BY <1>2 DEF Call
<1>4. Wanting => Uses[Top.fn][Len(Top.args) + 1] \in Dependency
  BY <1>2, <1>3 DEF Wanting, Call
<1> QED BY <1>1, <1>2, <1>3, <1>4

\* The arguments of the frame below the top grow by one, the others stay.
LEMMA PassedTyped ==
    ASSUME TypeOK, Len(frames) > 1, NEW i \in Nat
    PROVE  LET n == Len(frames) - 1 IN
           /\ n \in Nat \ {0}
           /\ Passed(i) \in Seq(Call) /\ Passed(i) # <<>>
           /\ Len(Passed(i)) = n
           /\ \A k \in 1..n-1 : Passed(i)[k] = frames[k]
           /\ Passed(i)[n].fn = frames[n].fn
           /\ Passed(i)[n].args = Append(frames[n].args, i)
<1> DEFINE n == Len(frames) - 1
<1>1. n \in Nat \ {0} /\ \A k \in 1..n : k \in DOMAIN frames /\ frames[k] \in Call
  <2>1. Len(frames) \in Nat /\ DOMAIN frames = 1..Len(frames)
    BY TopTyped
  <2>2. n \in Nat \ {0} /\ \A k \in 1..n : k \in DOMAIN frames
    BY <2>1
  <2>3. \A k \in DOMAIN frames : frames[k] \in Call
    BY ElementsTyped DEF TypeOK
  <2> QED BY <2>2, <2>3
<1>2. ASSUME NEW k \in 1..n PROVE Passed(i)[k] \in Call
  <2>1. frames[k] = [fn |-> frames[k].fn, args |-> frames[k].args]
        /\ frames[k].fn \in Callable /\ frames[k].args \in Seq(Nat)
    BY <1>1 DEF Call
  <2>2. Append(frames[k].args, i) \in Seq(Nat)
    BY <2>1
  <2> QED BY <1>1, <2>1, <2>2 DEF Passed, Call
<1>3. Passed(i) \in Seq(Call) /\ Len(Passed(i)) = n
  <2>1. Passed(i) = [k \in 1..n |-> Passed(i)[k]]
    BY DEF Passed
  <2> HIDE DEF n
  <2>2. Passed(i) \in [1..n -> Call]
    BY <1>2, <2>1
  <2> QED BY <1>1, <2>2
<1>4. /\ \A k \in 1..n-1 : Passed(i)[k] = frames[k]
      /\ Passed(i)[n].fn = frames[n].fn
      /\ Passed(i)[n].args = Append(frames[n].args, i)
  BY <1>1 DEF Passed, Call
<1> QED BY <1>1, <1>3, <1>4

-----------------------------------------------------------------------------
LEMMA TypeInit == Init => TypeOK
<1> SUFFICES ASSUME Init PROVE TypeOK
  OBVIOUS
<1>1. [fn |-> Handler, args |-> <<>>] \in Call
  BY DEF Call, Callable
<1>2. frames \in Seq(Call) /\ frames # <<>>
  BY <1>1 DEF Init
<1>3. built \in Seq(Call) /\ stack \in Seq(1..Len(built))
  BY DEF Init
<1> QED BY <1>2, <1>3 DEF Init, TypeOK

LEMMA LeaveBodyTyped ==
    ASSUME TypeOK, NEW how \in {"returned", "failed", "cancelled"}, LeaveBody(how),
           cancel' \in {"no", "requested", "raised"}
    PROVE  TypeOK'
BY DEF TypeOK, LeaveBody

LEMMA CloseTopTyped ==
    ASSUME TypeOK, NEW fault \in BOOLEAN, CloseTop(fault),
           cancel' \in {"no", "requested", "raised"}
    PROVE  TypeOK'
<1>1. Front(stack) \in Seq(1..Len(built))
  BY FrontOf DEF TypeOK, CloseTop
<1> QED BY <1>1 DEF TypeOK, CloseTop

LEMMA TypeStep == TypeOK /\ [Next]_vars => TypeOK'
<1> SUFFICES ASSUME TypeOK, [Next]_vars PROVE TypeOK'
  OBVIOUS
<1>1. CASE Descend
  <2>1. [fn |-> Uses[Top.fn][Len(Top.args) + 1], args |-> <<>>] \in Call
    BY <1>1, TopTyped DEF Descend, Call, Callable
  <2>2. frames' \in Seq(Call) /\ frames' # <<>>
    BY <1>1, <2>1 DEF Descend, TypeOK
  <2> QED BY <1>1, <2>2 DEF Descend, TypeOK
<1>2. CASE DependencyReturns
  <2>1. built' \in Seq(Call) /\ Len(built') = Len(built) + 1 /\ Len(built) \in Nat
    BY <1>2, TopTyped DEF DependencyReturns, TypeOK
  <2>2. frames' \in Seq(Call) /\ frames' # <<>>
    BY <1>2, <2>1, PassedTyped DEF DependencyReturns, Calling
  <2>3. stack' \in Seq(1..Len(built')) /\ open' \subseteq 1..Len(built')
    <3>1. stack \in Seq(1..Len(built')) /\ open \subseteq 1..Len(built')
      <4>1. 1..Len(built) \subseteq 1..Len(built')
        BY <2>1
      <4> QED BY <4>1, SeqOfSubset DEF TypeOK
    <3>2. Len(built') \in 1..Len(built')
      BY <2>1
    <3>3. CASE Top.fn \in Generator
      <4>1. stack' = Append(stack, Len(built')) /\ open' = open \cup {Len(built')}
        BY <1>2, <3>3 DEF DependencyReturns
      <4> QED BY <3>1, <3>2, <4>1, AppendTo
    <3>4. CASE Top.fn \notin Generator
      BY <1>2, <3>1, <3>4 DEF DependencyReturns
    <3> QED BY <3>3, <3>4
  <2> QED BY <1>2, <2>1, <2>2, <2>3 DEF DependencyReturns, TypeOK
<1>3. CASE DependencyRaises \/ HandlerReturns \/ HandlerRaises
  BY <1>3, LeaveBodyTyped
     DEF DependencyRaises, HandlerReturns, HandlerRaises, TypeOK
<1>4. CASE CleanupEnds
  BY <1>4, CloseTopTyped DEF CleanupEnds, TypeOK
<1>5. CASE HandlerCalled \/ HooksEnd \/ Ends \/ CancelRequested \/ Swallowed
  BY <1>5 DEF HandlerCalled, HooksEnd, Ends, CancelRequested, Swallowed, TypeOK
<1>6. CASE Reported
  <2>1. answers' \in Nat
    BY <1>6 DEF Reported, TypeOK
  <2> QED BY <1>6, <2>1 DEF Reported, TypeOK
<1>7. CASE Interrupted
  BY <1>7, LeaveBodyTyped, CloseTopTyped DEF Interrupted
<1>8. CASE UNCHANGED vars
  BY <1>8 DEF vars, TypeOK
<1> QED BY <1>1, <1>2, <1>3, <1>4, <1>5, <1>6, <1>7, <1>8 DEF Next

\* Type correctness, for any dependency graph.
THEOREM TypeCorrect == Spec => []TypeOK
<1> QED BY TypeInit, TypeStep, PTL DEF Spec

-----------------------------------------------------------------------------
(* The exit stack.                                                         *)
Ordered(s) == \A k, l \in 1..Len(s) : k < l => s[k] < s[l]
Elements(s) == {s[k] : k \in 1..Len(s)}

\* The stack holds the open generators in the order in which they were entered.
StackInv ==
    /\ Ordered(stack)
    /\ open = Elements(stack)
    /\ open \subseteq Entered
    /\ InUseIsOpen
    /\ phase = "done" => stack = <<>>

LEMMA Pushed ==
    ASSUME NEW n \in Nat, NEW s \in Seq(1..n), Ordered(s)
    PROVE  Ordered(Append(s, n + 1)) /\ Elements(Append(s, n + 1)) = Elements(s) \cup {n + 1}
<1> DEFINE t == Append(s, n + 1)
<1>1. Len(s) \in Nat /\ Len(t) = Len(s) + 1 /\ t[Len(s) + 1] = n + 1
      /\ \A k \in 1..Len(s) : t[k] = s[k] /\ s[k] \in 1..n
  OBVIOUS
<1> HIDE DEF t
<1>2. ASSUME NEW k \in 1..Len(t), NEW l \in 1..Len(t), k < l PROVE t[k] < t[l]
  <2>1. k \in 1..Len(s) /\ t[k] = s[k] /\ s[k] \in 1..n
    BY <1>1, <1>2
  <2>2. CASE l \in 1..Len(s)
    BY <1>1, <1>2, <2>1, <2>2 DEF Ordered
  <2>3. CASE l = Len(s) + 1
    BY <1>1, <2>1, <2>3
  <2> QED BY <1>1, <2>2, <2>3
<1>3. 1..Len(t) = 1..Len(s) \cup {Len(s) + 1}
  BY <1>1
<1>4. Elements(t) = Elements(s) \cup {n + 1}
  BY <1>1, <1>3 DEF Elements
<1> QED BY <1>2, <1>4 DEF t, Ordered

LEMMA Popped ==
    ASSUME NEW n \in Nat, NEW s \in Seq(1..n), Ordered(s), s # <<>>
    PROVE  /\ Ordered(Front(s)) /\ Elements(Front(s)) = Elements(s) \ {Last(s)}
           /\ Last(s) \in Elements(s) /\ \A i \in Elements(s) : i <= Last(s)
<1> DEFINE t == Front(s)
<1>1. Len(s) \in Nat \ {0} /\ Len(t) = Len(s) - 1 /\ Last(s) = s[Len(s)]
      /\ \A k \in 1..Len(t) : t[k] = s[k]
  BY FrontOf
<1>2. \A k \in 1..Len(s) : s[k] \in 1..n
  BY ElementsTyped
<1> HIDE DEF t
<1>3. 1..Len(s) = 1..Len(t) \cup {Len(s)}
  BY <1>1
<1>4. ASSUME NEW k \in 1..Len(t) PROVE s[k] < s[Len(s)]
  <2>1. k \in 1..Len(s) /\ Len(s) \in 1..Len(s) /\ k < Len(s)
    BY <1>1
  <2> QED BY <2>1 DEF Ordered
<1>5. \A k \in 1..Len(s) : s[k] <= s[Len(s)]
  BY <1>2, <1>3, <1>4
<1>6. ASSUME NEW k \in 1..Len(t), NEW l \in 1..Len(t), k < l PROVE t[k] < t[l]
  BY <1>1, <1>3, <1>6 DEF Ordered
<1>7. Elements(t) = Elements(s) \ {Last(s)}
  <2>1. \A k \in 1..Len(t) : s[k] # s[Len(s)]
    BY <1>2, <1>3, <1>4
  <2> QED BY <1>1, <1>3, <2>1 DEF Elements
<1>8. Last(s) \in Elements(s)
  BY <1>1, <1>3 DEF Elements
<1>9. \A i \in Elements(s) : i <= Last(s)
  BY <1>1, <1>5 DEF Elements
<1> QED BY <1>6, <1>7, <1>8, <1>9 DEF t, Ordered

LEMMA StackInit == Init => StackInv
BY DEF Init, StackInv, Ordered, Elements, Entered, InUseIsOpen

\* A step that leaves the stack, the values and the phase's side of the scope.
LEMMA StackKept ==
    ASSUME TypeOK, StackInv, UNCHANGED <<built, stack, open>>,
           phase' \in Inside => phase \in Inside,
           phase' = "done" => stack = <<>>
    PROVE  StackInv'
BY DEF StackInv, Inside, Ordered, Elements, Entered, InUseIsOpen

LEMMA StackPop ==
    ASSUME TypeOK, StackInv, NEW fault \in BOOLEAN, CloseTop(fault)
    PROVE  StackInv' /\ Last(stack) \in open /\ \A i \in open : i <= Last(stack)
<1> DEFINE top == Last(stack)
<1>1. /\ stack \in Seq(1..Len(built)) /\ Len(built) \in Nat /\ stack # <<>>
      /\ Ordered(stack)
  BY DEF TypeOK, CloseTop, StackInv
<1>2. /\ Ordered(Front(stack)) /\ Elements(Front(stack)) = Elements(stack) \ {top}
      /\ top \in Elements(stack) /\ \A i \in Elements(stack) : i <= top
  BY <1>1, Popped
<1>3. stack' = Front(stack) /\ open' = open \ {top} /\ phase' = phase /\ built' = built
      /\ phase = "closing"
  BY DEF CloseTop
<1> HIDE DEF top
<1>4. Ordered(stack') /\ open' = Elements(stack') /\ open' \subseteq Entered'
  BY <1>2, <1>3 DEF StackInv, Entered
<1>5. ASSUME NEW j \in open', NEW i \in Entered', i < j PROVE i \in open'
  <2>1. j \in open /\ j # top /\ i \in open
    BY <1>3, <1>5 DEF StackInv, InUseIsOpen, Entered
  <2>2. j <= top /\ i \in Nat /\ j \in Nat /\ top \in Nat
    BY <1>2, <2>1 DEF StackInv, TypeOK
  <2>3. i # top
    BY <1>5, <2>1, <2>2
  <2> QED BY <1>3, <2>1, <2>3
<1>6. InUseIsOpen'
  BY <1>3, <1>5 DEF InUseIsOpen
<1>7. phase' # "done"
  BY <1>3
<1> QED BY <1>2, <1>4, <1>6, <1>7 DEF StackInv, top

LEMMA StackPush ==
    ASSUME TypeOK, StackInv, DependencyReturns, Top.fn \in Generator
    PROVE  /\ StackInv' /\ open' = open \cup {Len(built')} /\ phase' = phase
           /\ \A i \in open : i < Len(built')
<1> DEFINE n == Len(built)
<1>1. n \in Nat /\ DOMAIN built = 1..n /\ stack \in Seq(1..n) /\ Top \in Call
      /\ open \subseteq 1..n
  BY TopTyped DEF TypeOK
<1>2. built' = Append(built, Top)
  BY DEF DependencyReturns
<1>3. Len(built') = n + 1 /\ DOMAIN built' = 1..n+1 /\ built'[n + 1] = Top
      /\ \A i \in 1..n : built'[i] = built[i]
  BY <1>1, <1>2 DEF TypeOK
<1>4. stack' = Append(stack, n + 1) /\ open' = open \cup {n + 1} /\ phase' = phase
      /\ phase = "resolving"
  BY <1>3 DEF DependencyReturns, Calling
<1> HIDE DEF n
<1>5. Ordered(stack') /\ open' = Elements(stack')
  BY <1>1, <1>4, Pushed DEF StackInv
<1>6. DOMAIN built' = DOMAIN built \cup {n + 1}
  BY <1>1, <1>3
<1>7. Entered' = Entered \cup {n + 1}
  BY <1>1, <1>3, <1>6 DEF Entered
<1>8. Entered \subseteq open
  BY <1>4 DEF StackInv, InUseIsOpen
<1>9. open' \subseteq Entered' /\ Entered' \subseteq open'
  BY <1>4, <1>7, <1>8 DEF StackInv
<1>10. InUseIsOpen'
  BY <1>9 DEF InUseIsOpen
<1>11. \A i \in open : i < n + 1
  BY <1>1
<1> QED BY <1>3, <1>4, <1>5, <1>9, <1>10, <1>11 DEF StackInv

LEMMA StackSkip ==
    ASSUME TypeOK, StackInv, DependencyReturns, Top.fn \notin Generator
    PROVE  StackInv' /\ UNCHANGED <<open, phase>>
<1> DEFINE n == Len(built)
<1>1. n \in Nat /\ DOMAIN built = 1..n /\ Top \in Call
  BY TopTyped DEF TypeOK
<1>2. built' = Append(built, Top)
  BY DEF DependencyReturns
<1>3. DOMAIN built' = 1..n+1 /\ built'[n + 1] = Top /\ \A i \in 1..n : built'[i] = built[i]
  BY <1>1, <1>2 DEF TypeOK
<1> HIDE DEF n
<1>4. DOMAIN built' = DOMAIN built \cup {n + 1}
  BY <1>1, <1>3
<1>5. Entered' = Entered
  BY <1>1, <1>3, <1>4 DEF Entered
<1>6. stack' = stack /\ open' = open /\ phase' = phase
  BY DEF DependencyReturns
<1> QED BY <1>5, <1>6 DEF StackInv, InUseIsOpen

LEMMA StackStep == TypeOK /\ StackInv /\ [Next]_vars => StackInv'
<1> SUFFICES ASSUME TypeOK, StackInv, [Next]_vars PROVE StackInv'
  OBVIOUS
<1>1. CASE DependencyReturns
  BY <1>1, StackPush, StackSkip
<1>2. CASE CleanupEnds
  BY <1>2, StackPop DEF CleanupEnds
<1>3. CASE Interrupted
  <2>1. CASE CloseTop(TRUE)
    BY <2>1, StackPop
  <2>2. CASE LeaveBody("cancelled")
    BY <2>2, StackKept DEF LeaveBody, Inside
  <2> QED BY <1>3, <2>1, <2>2 DEF Interrupted
<1>4. CASE \/ Descend \/ DependencyRaises \/ HandlerCalled \/ HandlerReturns \/ HandlerRaises
           \/ Reported \/ HooksEnd
  BY <1>4, StackKept
     DEF Descend, DependencyRaises, HandlerCalled, HandlerReturns, HandlerRaises, Reported,
         HooksEnd, LeaveBody, Calling, Inside
<1>5. CASE Ends \/ CancelRequested \/ Swallowed \/ UNCHANGED vars
  BY <1>5, StackKept DEF Ends, CancelRequested, Swallowed, vars, Inside, StackInv
<1> QED BY <1>1, <1>2, <1>3, <1>4, <1>5 DEF Next

LEMMA StackInvariant == Spec => [](TypeOK /\ StackInv)
<1>1. Init => TypeOK /\ StackInv
  BY TypeInit, StackInit
<1>2. TypeOK /\ StackInv /\ [Next]_vars => (TypeOK /\ StackInv)'
  BY TypeStep, StackStep
<1> QED BY <1>1, <1>2, PTL DEF Spec

\* What a generator yielded is open for whatever was made from it, and for the
\* handler and the report of its failure: nobody uses a closed resource.
THEOREM InUseAlwaysOpen == Spec => []InUseIsOpen
<1>1. StackInv => InUseIsOpen
  BY DEF StackInv
<1> QED BY <1>1, StackInvariant, PTL

\* When the task ends no generator is left at its yield, whatever failed, was
\* cancelled or raised in a clean-up.
THEOREM NothingStaysOpen == Spec => []NothingLeftOpen
<1>1. TypeOK /\ StackInv => NothingLeftOpen
  BY DEF StackInv, NothingLeftOpen, Elements
<1> QED BY <1>1, StackInvariant, PTL

-----------------------------------------------------------------------------
LEMMA ScopesInit == Init => Scopes!Init
BY DEF Init, Scopes!Init

\* Steps that leave the open generators alone and keep the phase on its side.
LEMMA ScopesStutter ==
    ASSUME UNCHANGED open,
           \/ UNCHANGED phase
           \/ phase \in Inside /\ phase' \in Inside
    PROVE  UNCHANGED Scopes!vars
BY DEF Scopes!vars, Inside

LEMMA ScopesLeave ==
    ASSUME UNCHANGED open, phase \in Inside, phase' = "closing"
    PROVE  Scopes!Leave
BY DEF Scopes!Leave, Inside

LEMMA ScopesAcquire ==
    ASSUME UNCHANGED phase, phase \in Inside, NEW n, open' = open \cup {n},
           \A i \in open : i < n
    PROVE  Scopes!Acquire
BY DEF Scopes!Acquire, Inside

LEMMA ScopesRelease ==
    ASSUME UNCHANGED phase, phase = "closing", NEW n \in open, open' = open \ {n},
           \A i \in open : i <= n
    PROVE  Scopes!Release
BY DEF Scopes!Release

LEMMA ScopesPop ==
    ASSUME TypeOK, StackInv, NEW fault \in BOOLEAN, CloseTop(fault)
    PROVE  Scopes!Release
<1>1. /\ UNCHANGED phase /\ phase = "closing" /\ open' = open \ {Last(stack)}
  BY DEF CloseTop
<1> QED BY <1>1, StackPop, ScopesRelease

LEMMA ScopesStep == TypeOK /\ StackInv /\ [Next]_vars => [Scopes!Next]_(Scopes!vars)
<1> SUFFICES ASSUME TypeOK, StackInv, [Next]_vars
             PROVE  Scopes!Next \/ UNCHANGED Scopes!vars
  OBVIOUS
<1>1. CASE DependencyReturns
  <2>1. CASE Top.fn \in Generator
    <3>1. phase \in Inside
      BY <1>1 DEF DependencyReturns, Calling, Inside
    <3> QED BY <1>1, <2>1, <3>1, StackPush, ScopesAcquire DEF Scopes!Next
  <2>2. CASE Top.fn \notin Generator
    BY <1>1, <2>2, StackSkip, ScopesStutter
  <2> QED BY <2>1, <2>2
<1>2. CASE CleanupEnds
  BY <1>2, ScopesPop DEF CleanupEnds, Scopes!Next
<1>3. CASE Interrupted
  <2>1. CASE CloseTop(TRUE)
    BY <2>1, ScopesPop DEF Scopes!Next
  <2>2. CASE ((InUserCode /\ phase # "closing") \/ phase = "reporting") /\ LeaveBody("cancelled")
    <3>1. phase \in Inside
      BY <2>2 DEF InUserCode, Calling, Inside
    <3> QED BY <2>2, <3>1, ScopesLeave DEF LeaveBody, Scopes!Next
  <2> QED BY <1>3, <2>1, <2>2 DEF Interrupted
<1>4. CASE Descend \/ HandlerCalled \/ Reported \/ CancelRequested \/ Swallowed \/ UNCHANGED vars
  BY <1>4, ScopesStutter
     DEF Descend, HandlerCalled, Reported, CancelRequested, Swallowed, vars, Inside
<1>5. CASE DependencyRaises \/ HandlerRaises
  BY <1>5, ScopesStutter DEF DependencyRaises, HandlerRaises, LeaveBody, Calling, Inside
<1>6. CASE HandlerReturns
  BY <1>6, ScopesLeave DEF HandlerReturns, LeaveBody, Inside, Scopes!Next
<1>7. CASE HooksEnd
  BY <1>7, ScopesLeave DEF HooksEnd, Inside, Scopes!Next
<1>8. CASE Ends
  <2>1. open = {} /\ open' = open /\ phase = "closing" /\ phase' = "done"
    BY <1>8 DEF Ends, StackInv, Elements
  <2> QED BY <2>1 DEF Scopes!End, Scopes!Next
<1> QED BY <1>1, <1>2, <1>3, <1>4, <1>5, <1>6, <1>7, <1>8 DEF Next

\* The exit stack of _run_handler implements scoped resources: the latest opened
\* is closed first, only once the handler is over, and all of them are.
THEOREM ScopesImplemented == Spec => ImplementsScopes
<1> QED BY StackInvariant, ScopesInit, ScopesStep, PTL DEF Spec, ImplementsScopes, Scopes!Spec

-----------------------------------------------------------------------------
(* Arguments.                                                              *)

\* The arguments a call has so far.
Prefilled(call) ==
    /\ Len(call.args) <= Len(Uses[call.fn])
    /\ \A k \in DOMAIN call.args :
          call.args[k] \in DOMAIN built /\ built[call.args[k]].fn = Uses[call.fn][k]

\* A value is the argument of one call only, made or being made.
UsedOnce(c, d) ==
    \A i \in DOMAIN c, j \in DOMAIN d :
        \A k \in DOMAIN c[i].args, l \in DOMAIN d[j].args :
            c[i].args[k] = d[j].args[l] => i = j /\ k = l

UsedApart ==
    \A i \in DOMAIN built, j \in DOMAIN frames :
        \A k \in DOMAIN built[i].args, l \in DOMAIN frames[j].args :
            built[i].args[k] # frames[j].args[l]

\* Each frame makes the next argument of the frame below it.
FramesInv ==
    /\ \A k \in DOMAIN frames : Prefilled(frames[k])
    /\ \A k \in 1..Len(frames)-1 :
          /\ Len(frames[k].args) < Len(Uses[frames[k].fn])
          /\ frames[k + 1].fn = Uses[frames[k].fn][Len(frames[k].args) + 1]

ArgsInv ==
    /\ FramesInv
    /\ \A i \in DOMAIN built : Complete(built[i])
    /\ phase = "handling" => Complete(frames[1])
    /\ UsedOnce(built, built) /\ UsedOnce(frames, frames) /\ UsedApart

LEMMA ArgsInit == Init => ArgsInv
<1> SUFFICES ASSUME Init PROVE ArgsInv
  OBVIOUS
<1>1. /\ DOMAIN built = {} /\ DOMAIN frames = {1} /\ Len(frames) = 1
      /\ frames[1].fn = Handler /\ frames[1].args = <<>>
  BY DEF Init
<1>2. Len(frames[1].args) = 0 /\ DOMAIN frames[1].args = {} /\ Len(Uses[Handler]) \in Nat
  BY <1>1 DEF Callable
<1>3. Prefilled(frames[1])
  BY <1>1, <1>2 DEF Prefilled
<1>4. FramesInv
  BY <1>1, <1>3 DEF FramesInv
<1>5. UsedOnce(built, built) /\ UsedOnce(frames, frames) /\ UsedApart
  BY <1>1, <1>2 DEF UsedOnce, UsedApart
<1> QED BY <1>1, <1>4, <1>5 DEF Init, ArgsInv

\* Steps that make no value and start no call.
LEMMA ArgsKept ==
    ASSUME ArgsInv, UNCHANGED <<frames, built>>, phase' = "handling" => Complete(frames[1])
    PROVE  ArgsInv'
BY DEF ArgsInv, FramesInv, Prefilled, Complete, UsedOnce, UsedApart

LEMMA ArgsDescend ==
    ASSUME TypeOK, ArgsInv, Descend
    PROVE  ArgsInv'
<1> DEFINE n == Len(frames)
           call == [fn |-> Uses[Top.fn][Len(Top.args) + 1], args |-> <<>>]
<1>1. /\ n \in Nat \ {0} /\ DOMAIN frames = 1..n /\ Top = frames[n] /\ Top \in Call
      /\ Len(Top.args) \in Nat /\ Len(Uses[Top.fn]) \in Nat
      /\ Len(Top.args) < Len(Uses[Top.fn])
      /\ call.fn \in Dependency
  BY TopTyped DEF Top, Descend, Wanting, Call
<1>2. frames' = Append(frames, call)
  BY DEF Descend
<1>3. Len(frames') = n + 1 /\ DOMAIN frames' = 1..n+1 /\ frames'[n + 1] = call
      /\ \A k \in 1..n : frames'[k] = frames[k]
  BY <1>1, <1>2 DEF TypeOK
<1>4. built' = built /\ phase' = phase /\ phase = "resolving"
  BY DEF Descend
<1>5. call.args = <<>> /\ DOMAIN call.args = {} /\ Len(call.args) = 0
      /\ Len(Uses[call.fn]) \in Nat
  BY <1>1 DEF Callable
<1>6. call.fn = Uses[Top.fn][Len(Top.args) + 1]
  OBVIOUS
<1> HIDE DEF n, call
<1>7. DOMAIN frames' = DOMAIN frames \cup {n + 1}
  BY <1>1, <1>3
<1>8. ASSUME NEW k \in DOMAIN frames' PROVE Prefilled(frames[k])'
  <2>1. CASE k = n + 1
    BY <1>3, <1>5, <2>1 DEF Prefilled
  <2>2. CASE k \in 1..n
    <3>1. frames'[k] = frames[k] /\ Prefilled(frames[k])
      BY <1>1, <1>3, <2>2 DEF ArgsInv, FramesInv
    <3> QED BY <1>4, <3>1 DEF Prefilled
  <2> QED BY <1>1, <1>7, <2>1, <2>2
<1>9. ASSUME NEW k \in 1..n
      PROVE  /\ Len(frames'[k].args) < Len(Uses[frames'[k].fn])
             /\ frames'[k + 1].fn = Uses[frames'[k].fn][Len(frames'[k].args) + 1]
  <2>1. CASE k = n
    BY <1>1, <1>3, <1>6, <2>1
  <2>2. CASE k # n
    <3>1. k \in 1..n-1 /\ k + 1 \in 1..n
      BY <1>1, <2>2
    <3> QED BY <1>1, <1>3, <3>1 DEF ArgsInv, FramesInv, n
  <2> QED BY <2>1, <2>2
<1>10. FramesInv'
  <2>1. 1..Len(frames')-1 = 1..n
    BY <1>1, <1>3
  <2> QED BY <1>8, <1>9, <2>1 DEF FramesInv
<1>11. UsedOnce(built, built)'
  BY <1>4 DEF ArgsInv, UsedOnce
<1>12. \A k \in DOMAIN frames' : DOMAIN frames'[k].args # {} => k \in DOMAIN frames /\ frames'[k] = frames[k]
  BY <1>1, <1>3, <1>5, <1>7
<1>13. UsedOnce(frames, frames)'
  <2> SUFFICES ASSUME NEW i \in DOMAIN frames', NEW j \in DOMAIN frames',
                      NEW k \in DOMAIN frames'[i].args, NEW l \in DOMAIN frames'[j].args,
                      frames'[i].args[k] = frames'[j].args[l]
               PROVE  i = j /\ k = l
    BY DEF UsedOnce
  <2> QED BY <1>12 DEF ArgsInv, UsedOnce
<1>14. UsedApart'
  <2> SUFFICES ASSUME NEW i \in DOMAIN built', NEW j \in DOMAIN frames',
                      NEW k \in DOMAIN built'[i].args, NEW l \in DOMAIN frames'[j].args
               PROVE  built'[i].args[k] # frames'[j].args[l]
    BY DEF UsedApart
  <2> QED BY <1>4, <1>12 DEF ArgsInv, UsedApart
<1>15. \A i \in DOMAIN built' : Complete(built[i])'
  BY <1>4 DEF ArgsInv, Complete
<1> QED BY <1>4, <1>10, <1>11, <1>13, <1>14, <1>15 DEF ArgsInv

LEMMA ArgsReturn ==
    ASSUME TypeOK, ArgsInv, DependencyReturns
    PROVE  ArgsInv'
<1> DEFINE n == Len(frames) - 1
           v == Len(built) + 1
           below == frames[n].args
<1>1. /\ n \in Nat \ {0} /\ DOMAIN frames = 1..n+1 /\ Top = frames[n + 1] /\ Top \in Call
      /\ frames[n] \in Call /\ below \in Seq(Nat) /\ Len(Uses[frames[n].fn]) \in Nat
  <2>1. Len(frames) \in Nat /\ Len(frames) > 1 /\ DOMAIN frames = 1..Len(frames) /\ Top \in Call
    BY TopTyped DEF DependencyReturns, Calling
  <2>2. n \in Nat \ {0} /\ n + 1 = Len(frames) /\ n \in 1..Len(frames)
    BY <2>1
  <2>3. frames[n] \in Call
    BY <2>2, ElementsTyped DEF TypeOK
  <2> QED BY <2>1, <2>2, <2>3 DEF Top, Call
<1>2. /\ v \in Nat /\ DOMAIN built = 1..v-1 /\ DOMAIN built' = DOMAIN built \cup {v}
      /\ v \notin DOMAIN built /\ built'[v] = frames[n + 1]
      /\ \A i \in DOMAIN built : built'[i] = built[i]
  <2>1. built \in Seq(Call) /\ built' = Append(built, Top) /\ Top \in Call
    BY <1>1 DEF DependencyReturns, TypeOK
  <2>2. Len(built) \in Nat /\ DOMAIN built = 1..Len(built) /\ DOMAIN built' = 1..Len(built)+1
        /\ built'[Len(built) + 1] = Top /\ \A i \in 1..Len(built) : built'[i] = built[i]
    BY <2>1
  <2> QED BY <1>1, <2>2
<1>3. /\ DOMAIN frames' = 1..n /\ Len(frames') = n
      /\ \A k \in 1..n-1 : frames'[k] = frames[k]
      /\ frames'[n].fn = frames[n].fn /\ frames'[n].args = Append(below, v)
  <2>1. frames' = Passed(v)
    BY <1>2 DEF DependencyReturns, TypeOK
  <2>2. Len(frames) > 1 /\ v \in Nat
    BY <1>2 DEF DependencyReturns, Calling
  <2>3. /\ n \in Nat \ {0} /\ frames' \in Seq(Call) /\ Len(frames') = n
        /\ \A k \in 1..n-1 : frames'[k] = frames[k]
        /\ frames'[n].fn = frames[n].fn /\ frames'[n].args = Append(below, v)
    BY <2>1, <2>2, PassedTyped
  <2>4. DOMAIN frames' = 1..n
    <3> HIDE DEF n
    <3> QED BY <2>3, ElementsTyped
  <2> QED BY <2>3, <2>4
<1>4. phase' = phase /\ phase = "resolving"
  BY DEF DependencyReturns, Calling
<1>5. /\ Len(below) \in Nat /\ DOMAIN below = 1..Len(below)
      /\ DOMAIN frames'[n].args = DOMAIN below \cup {Len(below) + 1}
      /\ Len(frames'[n].args) = Len(below) + 1
      /\ frames'[n].args[Len(below) + 1] = v
      /\ \A l \in DOMAIN below : frames'[n].args[l] = below[l]
  <2> DEFINE t == Append(below, v)
  <2> HIDE DEF below, v
  <2>1. /\ Len(below) \in Nat /\ DOMAIN below = 1..Len(below)
        /\ t \in Seq(Nat) /\ Len(t) = Len(below) + 1 /\ t[Len(below) + 1] = v
        /\ \A l \in 1..Len(below) : t[l] = below[l]
    BY <1>1, <1>2
  <2> HIDE DEF t
  <2>2. DOMAIN t = 1..Len(below) + 1
    BY <2>1, ElementsTyped
  <2>3. 1..Len(below) + 1 = DOMAIN below \cup {Len(below) + 1}
    BY <2>1
  <2>4. frames'[n].args = t
    BY <1>3 DEF t
  <2> QED BY <2>1, <2>2, <2>3, <2>4
<1>6. /\ Len(below) < Len(Uses[frames[n].fn])
      /\ Top.fn = Uses[frames[n].fn][Len(below) + 1]
  <2>1. n \in 1..Len(frames)-1
    BY <1>1
  <2> QED BY <1>1, <2>1 DEF ArgsInv, FramesInv
<1>7. Complete(Top)
  <2>1. Prefilled(Top) /\ Len(Top.args) = Len(Uses[Top.fn])
    <3>1. Prefilled(Top) /\ ~Wanting
      BY <1>1 DEF ArgsInv, FramesInv, DependencyReturns, Calling
    <3>2. Len(Top.args) \in Nat /\ Len(Uses[Top.fn]) \in Nat
      BY TopTyped DEF Call
    <3> QED BY <3>1, <3>2 DEF Prefilled, Wanting
  <2> QED BY <2>1 DEF Prefilled, Complete
<1> HIDE DEF n, v
<1>8. \A i \in DOMAIN built' : Complete(built[i])'
  <2> SUFFICES ASSUME NEW i \in DOMAIN built' PROVE Complete(built[i])'
    OBVIOUS
  <2>1. Complete(built'[i])
    BY <1>1, <1>2, <1>7 DEF ArgsInv
  <2> QED BY <1>2, <2>1 DEF Complete
<1>9. ASSUME NEW k \in DOMAIN frames' PROVE Prefilled(frames[k])'
  <2>1. CASE k # n
    <3>1. k \in DOMAIN frames /\ frames'[k] = frames[k]
      BY <1>1, <1>3, <1>9, <2>1
    <3>2. Prefilled(frames[k])
      BY <3>1 DEF ArgsInv, FramesInv
    <3> QED BY <1>2, <3>1, <3>2 DEF Prefilled
  <2>2. CASE k = n
    <3>1. Prefilled(frames[n])
      BY <1>1 DEF ArgsInv, FramesInv
    <3>2. Len(frames'[n].args) <= Len(Uses[frames'[n].fn])
      BY <1>1, <1>3, <1>5, <1>6
    <3>3. ASSUME NEW l \in DOMAIN frames'[n].args
          PROVE  frames'[n].args[l] \in DOMAIN built'
                 /\ built'[frames'[n].args[l]].fn = Uses[frames'[n].fn][l]
      <4>1. CASE l = Len(below) + 1
        BY <1>1, <1>2, <1>3, <1>5, <1>6, <4>1
      <4>2. CASE l \in DOMAIN below
        BY <1>2, <1>3, <1>5, <3>1, <4>2 DEF Prefilled
      <4> QED BY <1>5, <3>3, <4>1, <4>2
    <3> QED BY <2>2, <3>2, <3>3 DEF Prefilled
  <2> QED BY <2>1, <2>2
<1>10. FramesInv'
  <2>1. ASSUME NEW k \in 1..n-1
        PROVE  /\ Len(frames'[k].args) < Len(Uses[frames'[k].fn])
               /\ frames'[k + 1].fn = Uses[frames'[k].fn][Len(frames'[k].args) + 1]
    <3>1. n - 1 \in Nat /\ 1..n = 1..Len(frames)-1
      BY <1>1 DEF n
    <3>2. k \in 1..Len(frames)-1 /\ k + 1 \in 1..n /\ frames'[k] = frames[k]
      BY <1>1, <1>3, <3>1
    <3>3. frames'[k + 1].fn = frames[k + 1].fn
      BY <1>1, <1>3, <3>2
    <3> QED BY <3>2, <3>3 DEF ArgsInv, FramesInv
  <2>2. Len(frames') - 1 = n - 1
    BY <1>1, <1>3
  <2> QED BY <1>9, <2>1, <2>2 DEF FramesInv
<1>11. ASSUME NEW j \in DOMAIN frames', NEW l \in DOMAIN frames'[j].args
       PROVE  \/ /\ l \in DOMAIN frames[j].args /\ frames'[j].args[l] = frames[j].args[l]
                 /\ frames'[j].args[l] # v
              \/ j = n /\ l = Len(below) + 1 /\ frames'[j].args[l] = v
  <2>1. Prefilled(frames[j]) /\ j \in DOMAIN frames
    BY <1>1, <1>3 DEF ArgsInv, FramesInv
  <2>2. CASE j # n
    BY <1>1, <1>2, <1>3, <2>1, <2>2 DEF Prefilled
  <2>3. CASE j = n
    BY <1>2, <1>5, <2>1, <2>3 DEF Prefilled
  <2> QED BY <2>2, <2>3
<1>12. ASSUME NEW i \in DOMAIN built', NEW k \in DOMAIN built'[i].args
       PROVE  /\ built'[i].args[k] # v
              /\ \/ i \in DOMAIN built /\ built'[i] = built[i]
                 \/ i = v /\ built'[i] = frames[n + 1]
  BY <1>1, <1>2, <1>7 DEF ArgsInv, Complete
<1>13. UsedOnce(built, built)'
  <2> SUFFICES ASSUME NEW i \in DOMAIN built', NEW j \in DOMAIN built',
                      NEW k \in DOMAIN built'[i].args, NEW l \in DOMAIN built'[j].args,
                      built'[i].args[k] = built'[j].args[l]
               PROVE  i = j /\ k = l
    BY DEF UsedOnce
  <2>1. n + 1 \in DOMAIN frames
    BY <1>1
  <2> QED BY <1>12, <2>1 DEF ArgsInv, UsedOnce, UsedApart
<1>14. \A j \in DOMAIN frames' : j \in DOMAIN frames /\ j # n + 1
  BY <1>1, <1>3
<1>15. UsedOnce(frames, frames)'
  <2> SUFFICES ASSUME NEW i \in DOMAIN frames', NEW j \in DOMAIN frames',
                      NEW k \in DOMAIN frames'[i].args, NEW l \in DOMAIN frames'[j].args,
                      frames'[i].args[k] = frames'[j].args[l]
               PROVE  i = j /\ k = l
    BY DEF UsedOnce
  <2> QED BY <1>11, <1>14 DEF ArgsInv, UsedOnce
<1>16. UsedApart'
  <2> SUFFICES ASSUME NEW i \in DOMAIN built', NEW j \in DOMAIN frames',
                      NEW k \in DOMAIN built'[i].args, NEW l \in DOMAIN frames'[j].args,
                      built'[i].args[k] = frames'[j].args[l]
               PROVE  FALSE
    BY DEF UsedApart
  <2>1. l \in DOMAIN frames[j].args /\ built'[i].args[k] = frames[j].args[l]
    BY <1>11, <1>12
  <2>2. CASE i \in DOMAIN built /\ built'[i] = built[i]
    BY <1>14, <2>1, <2>2 DEF ArgsInv, UsedApart
  <2>3. CASE built'[i] = frames[n + 1]
    <3>1. n + 1 \in DOMAIN frames
      BY <1>1
    <3> QED BY <1>14, <2>1, <2>3, <3>1 DEF ArgsInv, UsedOnce
  <2> QED BY <1>12, <2>2, <2>3
<1> QED BY <1>4, <1>8, <1>10, <1>13, <1>15, <1>16 DEF ArgsInv

LEMMA ArgsCalled ==
    ASSUME TypeOK, ArgsInv, HandlerCalled
    PROVE  Complete(frames[1])
<1>1. Len(frames) = 1 /\ DOMAIN frames = 1..Len(frames) /\ Top = frames[1]
      /\ Len(Top.args) \in Nat /\ Len(Uses[Top.fn]) \in Nat /\ ~Wanting
  BY TopTyped DEF HandlerCalled, Top, Call
<1>2. Prefilled(frames[1])
  BY <1>1 DEF ArgsInv, FramesInv
<1> QED BY <1>1, <1>2 DEF Prefilled, Complete, Wanting

LEMMA ArgsStep == TypeOK /\ ArgsInv /\ [Next]_vars => ArgsInv'
<1> SUFFICES ASSUME TypeOK, ArgsInv, [Next]_vars PROVE ArgsInv'
  OBVIOUS
<1>1. CASE Descend
  BY <1>1, ArgsDescend
<1>2. CASE DependencyReturns
  BY <1>2, ArgsReturn
<1>3. CASE HandlerCalled
  BY <1>3, ArgsCalled, ArgsKept DEF HandlerCalled
<1>4. CASE \/ DependencyRaises \/ HandlerReturns \/ HandlerRaises \/ Reported \/ HooksEnd
           \/ CleanupEnds \/ Ends \/ Interrupted
  <2>1. UNCHANGED <<frames, built>> /\ phase' # "handling"
    BY <1>4 DEF DependencyRaises, HandlerReturns, HandlerRaises, Reported, HooksEnd,
                CleanupEnds, Ends, Interrupted, LeaveBody, CloseTop
  <2> QED BY <2>1, ArgsKept
<1>5. CASE CancelRequested \/ Swallowed \/ UNCHANGED vars
  <2>1. UNCHANGED <<frames, built, phase>>
    BY <1>5 DEF CancelRequested, Swallowed, vars
  <2> QED BY <2>1, ArgsKept DEF ArgsInv
<1> QED BY <1>1, <1>2, <1>3, <1>4, <1>5 DEF Next

LEMMA ArgsInvariant == Spec => [](TypeOK /\ ArgsInv)
<1>1. Init => TypeOK /\ ArgsInv
  BY TypeInit, ArgsInit
<1>2. TypeOK /\ ArgsInv /\ [Next]_vars => (TypeOK /\ ArgsInv)'
  BY TypeStep, ArgsStep
<1> QED BY <1>1, <1>2, PTL DEF Spec

LEMMA CallsUsedOnce ==
    ASSUME TypeOK, ArgsInv
    PROVE  UsedOnce(built \o frames, built \o frames)
<1> DEFINE calls == built \o frames
           n == Len(built)
<1>1. /\ n \in Nat /\ DOMAIN built = 1..n /\ DOMAIN frames = 1..Len(frames)
      /\ Len(frames) \in Nat
  BY DEF TypeOK
<1>2. /\ DOMAIN calls = 1..n + Len(frames)
      /\ \A i \in 1..n : calls[i] = built[i]
      /\ \A i \in n+1..n + Len(frames) : calls[i] = frames[i - n]
  BY <1>1 DEF TypeOK
<1> HIDE DEF calls, n
<1>3. ASSUME NEW i \in DOMAIN calls
      PROVE  \/ i \in DOMAIN built /\ calls[i] = built[i]
             \/ i \in Int /\ i - n \in DOMAIN frames /\ calls[i] = frames[i - n]
  <2>1. CASE i \in 1..n
    BY <1>1, <1>2, <2>1
  <2>2. CASE i \in n+1..n + Len(frames)
    <3>1. i \in Int /\ i - n \in 1..Len(frames)
      BY <1>1, <2>2
    <3> QED BY <1>1, <1>2, <2>2, <3>1
  <2> QED BY <1>1, <1>2, <1>3, <2>1, <2>2
<1> SUFFICES ASSUME NEW i \in DOMAIN calls, NEW j \in DOMAIN calls,
                    NEW k \in DOMAIN calls[i].args, NEW l \in DOMAIN calls[j].args,
                    calls[i].args[k] = calls[j].args[l]
             PROVE  i = j /\ k = l
  BY DEF UsedOnce, calls
<1>4. CASE i \in DOMAIN built /\ calls[i] = built[i]
  BY <1>3, <1>4 DEF ArgsInv, UsedOnce, UsedApart
<1>5. CASE i \in Int /\ i - n \in DOMAIN frames /\ calls[i] = frames[i - n]
  <2>1. CASE j \in DOMAIN built /\ calls[j] = built[j]
    BY <1>5, <2>1 DEF ArgsInv, UsedApart
  <2>2. CASE j \in Int /\ j - n \in DOMAIN frames /\ calls[j] = frames[j - n]
    <3>1. i - n = j - n /\ k = l
      BY <1>5, <2>2 DEF ArgsInv, UsedOnce
    <3> QED BY <1>1, <1>5, <2>2, <3>1
  <2> QED BY <1>3, <2>1, <2>2
<1> QED BY <1>3, <1>4, <1>5

\* Every callable is called with one value for each parameter, made by the
\* function the parameter names, and no value is used twice.
THEOREM ArgumentsAlwaysMatch == Spec => []ArgumentsMatch
<1>1. TypeOK /\ ArgsInv => ArgumentsMatch
  BY CallsUsedOnce DEF ArgsInv, ArgumentsMatch, UsedOnce
<1> QED BY <1>1, ArgsInvariant, PTL

-----------------------------------------------------------------------------
(* The answer.                                                             *)

\* What has happened to the failure of the body, phase by phase.
AnswerInv ==
    /\ phase \in {"resolving", "handling"} => outcome = "none" /\ answers = 0
    /\ phase = "reporting" => outcome = "failed" /\ answers = 0
    /\ phase = "hooks" => outcome = "failed" /\ answers = 1
    /\ FailureAnswered

LEMMA AnswerStep == ArgsInv /\ AnswerInv /\ [Next]_vars => AnswerInv'
<1> SUFFICES ASSUME ArgsInv, AnswerInv, [Next]_vars PROVE AnswerInv'
  OBVIOUS
<1>1. CASE Descend \/ DependencyReturns
  BY <1>1 DEF Descend, DependencyReturns, Calling, AnswerInv, FailureAnswered
<1>2. CASE HandlerCalled \/ DependencyRaises \/ HandlerRaises \/ Reported
  BY <1>2 DEF HandlerCalled, DependencyRaises, HandlerRaises, Reported, LeaveBody, Calling,
              AnswerInv, FailureAnswered
<1>3. CASE HandlerReturns
  <2>1. Complete(frames[1])'
    BY <1>3 DEF HandlerReturns, LeaveBody, ArgsInv, Complete
  <2> QED BY <1>3, <2>1 DEF HandlerReturns, LeaveBody, AnswerInv, FailureAnswered
<1>4. CASE HooksEnd
  BY <1>4 DEF HooksEnd, AnswerInv, FailureAnswered
<1>5. CASE CleanupEnds \/ Ends \/ CancelRequested \/ Swallowed \/ UNCHANGED vars
  <2>1. /\ frames' = frames /\ built' = built /\ outcome' = outcome /\ answers' = answers
        /\ phase' = phase \/ (phase = "closing" /\ phase' = "done")
    <3>1. CASE CleanupEnds
      BY <3>1 DEF CleanupEnds, CloseTop
    <3>2. CASE Ends
      BY <3>2 DEF Ends
    <3>3. CASE CancelRequested \/ Swallowed \/ UNCHANGED vars
      BY <3>3 DEF CancelRequested, Swallowed, vars
    <3> QED BY <1>5, <3>1, <3>2, <3>3
  <2> QED BY <2>1 DEF AnswerInv, FailureAnswered, Complete
<1>6. CASE Interrupted
  <2>1. CASE CloseTop(TRUE)
    BY <2>1 DEF CloseTop, AnswerInv, FailureAnswered, Complete
  <2>2. CASE LeaveBody("cancelled")
    BY <2>2 DEF LeaveBody, AnswerInv, FailureAnswered
  <2> QED BY <1>6, <2>1, <2>2 DEF Interrupted
<1> QED BY <1>1, <1>2, <1>3, <1>4, <1>5, <1>6 DEF Next

\* What fails is answered with one HANDLER_ERROR unless the task is cancelled;
\* what returns is not, and had its arguments.
THEOREM FailureAlwaysAnswered == Spec => []FailureAnswered
<1>1. Init => AnswerInv
  BY DEF Init, AnswerInv, FailureAnswered
<1>2. ArgsInv /\ AnswerInv /\ [Next]_vars => AnswerInv'
  BY AnswerStep
<1>3. AnswerInv => FailureAnswered
  BY DEF AnswerInv
<1> QED BY <1>1, <1>2, <1>3, ArgsInvariant, PTL DEF Spec
=============================================================================
