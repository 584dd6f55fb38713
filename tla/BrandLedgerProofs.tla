--------------------------- MODULE BrandLedgerProofs ---------------------------
(***************************************************************************)
(* Theorems about BrandLedger, for every set of invoices, handlers and     *)
(* admins and every amount.                                                *)
(***************************************************************************)
EXTENDS BrandLedger, FiniteSetTheorems, TLAPS

--------------------------------------------------------------------------------
(* Arithmetic of the split and of a refund.                                *)

\* Math.round of a quotient is a whole number of cents, not less than zero.
LEMMA RoundedIsNat ==
    ASSUME NEW a \in Nat, NEW b \in Nat, b > 0
    PROVE  RoundedQuotient(a, b) \in Nat
<1>1. 2 * a + b \in Nat /\ 2 * b \in Nat /\ 2 * b > 0
  OBVIOUS
<1>2. \A m, n \in Nat : n > 0 => m \div n \in Nat
  OBVIOUS
<1>3. QED
  BY <1>1, <1>2 DEF RoundedQuotient

\* splitFor: a brand never earns more than was paid, nor less than nothing.
LEMMA BrandShareBounds ==
    ASSUME NEW paid \in Nat, NEW split \in [base : Nat, addon : Nat]
    PROVE  BrandShare(paid, split) \in 0..paid
<1>1. CASE split.addon = 0
  BY <1>1 DEF BrandShare
<1>2. CASE split.addon # 0
  <2>1. paid * split.addon \in Nat
    OBVIOUS
  <2>2. split.base + split.addon \in Nat /\ split.base + split.addon > 0
    BY <1>2
  <2>3. RoundedQuotient(paid * split.addon, split.base + split.addon) \in Nat
    BY <2>1, <2>2, RoundedIsNat
  <2>4. QED
    BY <1>2, <2>3 DEF BrandShare, GreaterOf, LesserOf
<1>3. QED
  BY <1>1, <1>2

\* A refund takes back a whole number of cents, at most the amount itself.
LEMMA RefundedPartBounds ==
    ASSUME NEW amount \in Nat, NEW cum \in Nat, NEW paid \in Nat, paid > 0
    PROVE  /\ RefundedPart(amount, cum, paid) \in Nat
           /\ RefundedPart(amount, cum, paid) <= amount
<1>1. LesserOf(cum, paid) \in Nat
  BY DEF LesserOf
<1>2. amount * LesserOf(cum, paid) \in Nat
  BY <1>1
<1>3. RoundedQuotient(amount * LesserOf(cum, paid), paid) \in Nat
  BY <1>2, RoundedIsNat
<1>4. QED
  BY <1>3 DEF RefundedPart, LesserOf

\* What an event of Stripe carries.
LEMMA EventShape ==
    ASSUME NEW e \in Events
    PROVE  /\ e.inv \in Invoices
           /\ e.cum \in Nat
           /\ e # NoEvent
<1>1. CASE \E i \in Invoices : e = PaidEvent(i)
  BY <1>1 DEF PaidEvent, NoEvent
<1>2. CASE \E i \in Invoices : \E c \in RefundSteps[i] : e = RefundEvent(i, c)
  BY <1>2, LedgerAssumption DEF RefundEvent, NoEvent, LedgerAssumption
<1>3. QED
  BY <1>1, <1>2 DEF Events

--------------------------------------------------------------------------------
(* Sums over functions.  The library's SumFunction is a recursive function,*)
(* a CHOOSE to the provers: it has to be shown that one exists, and then   *)
(* facts about it follow by taking a least set that breaks them.           *)

\* A property of finite sets that fails somewhere fails at a least set.
LEMMA LeastSet ==
    ASSUME NEW I, IsFiniteSet(I), NEW T, T \subseteq SUBSET I, T # {}
    PROVE  \E s \in T : \A t \in T : t \subseteq s => t = s
<1>1. IsWellFoundedOn(StrictSubsetOrdering(I), FiniteSubsetsOf(I))
  BY FS_StrictSubsetOrderingWellFounded
<1>2. T \subseteq FiniteSubsetsOf(I)
  BY FS_FiniteSubsetsOfFinite
<1>3. \E s \in T : \A t \in T : <<t, s>> \notin StrictSubsetOrdering(I)
  BY <1>1, <1>2, WFMin
<1>4. QED
  BY <1>3 DEF StrictSubsetOrdering

LEMMA LeastNumber ==
    ASSUME NEW T, T \subseteq Nat, T # {}
    PROVE  \E n \in T : \A m \in T : ~(m < n)
<1>1. \E n \in T : \A m \in T : <<m, n>> \notin OpToRel(<, Nat)
  BY NatLessThanWellFounded, WFMin
<1>2. QED
  BY <1>1 DEF OpToRel

\* The element that a fold takes first.
Picked(s) == CHOOSE x \in s : TRUE

\* What a sum is, given the sums of smaller sets.
SumStep(f, sums, s) == IF s = {} THEN 0 ELSE f[Picked(s)] + sums[s \ {Picked(s)}]

IsSums(I, f, sums) == sums = [s \in SUBSET I |-> SumStep(f, sums, s)]

LEMMA PickedIn == ASSUME NEW s, s # {} PROVE Picked(s) \in s
BY DEF Picked

LEMMA SmallerSet ==
    ASSUME NEW I, IsFiniteSet(I), NEW s \in SUBSET I, s # {}
    PROVE  /\ s \ {Picked(s)} \in SUBSET I
           /\ Cardinality(s) \in Nat
           /\ Cardinality(s \ {Picked(s)}) = Cardinality(s) - 1
<1>1. IsFiniteSet(s)
  BY FS_Subset
<1>2. Picked(s) \in s
  BY PickedIn
<1>3. QED
  BY <1>1, <1>2, FS_RemoveElement, FS_CardinalityType

\* The sums of all subsets exist: up to one size first, then up to the next.
LEMMA SumsExist ==
    ASSUME NEW I, IsFiniteSet(I), NEW f \in [I -> Nat]
    PROVE  \E sums : IsSums(I, f, sums)
<1> DEFINE UpTo(n, g) == \A s \in SUBSET I : Cardinality(s) <= n => g[s] = SumStep(f, g, s)
           T == {n \in Nat : ~\E g \in [SUBSET I -> Nat] : UpTo(n, g)}
<1>0. \A s \in SUBSET I : Cardinality(s) \in Nat /\ (Cardinality(s) <= 0 => s = {})
  BY FS_Subset, FS_EmptySet, FS_CardinalityType
<1>1. 0 \notin T
  <2> DEFINE g == [s \in SUBSET I |-> 0]
  <2>1. g \in [SUBSET I -> Nat]
    OBVIOUS
  <2>2. UpTo(0, g)
    BY <1>0 DEF SumStep
  <2>3. QED
    BY <2>1, <2>2
<1>2. ASSUME NEW n \in Nat, n + 1 \in T
      PROVE  n \in T
  <2> SUFFICES ASSUME NEW g \in [SUBSET I -> Nat], UpTo(n, g)
               PROVE  \E k \in [SUBSET I -> Nat] : UpTo(n + 1, k)
    BY <1>2
  <2> DEFINE k == [s \in SUBSET I |-> SumStep(f, g, s)]
  <2>1. \A s \in SUBSET I : SumStep(f, g, s) \in Nat
    BY PickedIn, SmallerSet DEF SumStep
  <2>2. k \in [SUBSET I -> Nat]
    BY <2>1
  <2>3. ASSUME NEW s \in SUBSET I, Cardinality(s) <= n + 1
        PROVE  k[s] = SumStep(f, k, s)
    <3>1. CASE s = {}
      BY <3>1 DEF SumStep
    <3>2. CASE s # {}
      <4> DEFINE t == s \ {Picked(s)}
      <4>1. t \in SUBSET I /\ Cardinality(t) <= n
        BY <2>3, <3>2, SmallerSet
      <4>2. k[t] = g[t]
        BY <4>1
      <4>3. QED
        BY <3>2, <4>2 DEF SumStep
    <3>3. QED
      BY <3>1, <3>2
  <2>4. UpTo(n + 1, k)
    BY <2>3
  <2>5. QED
    BY <2>2, <2>4
<1>3. T = {}
  <2> SUFFICES ASSUME T # {}
               PROVE  FALSE
    OBVIOUS
  <2>1. T \subseteq Nat
    OBVIOUS
  <2> HIDE DEF T
  <2>2. PICK n \in T : \A m \in T : ~(m < n)
    BY <2>1, LeastNumber
  <2>3. n \in Nat /\ n # 0
    BY <1>1, <2>1
  <2>4. n - 1 \in Nat /\ (n - 1) + 1 = n /\ n - 1 < n
    BY <2>3
  <2>5. n - 1 \in T
    BY <1>2, <2>4
  <2>6. QED
    BY <2>2, <2>4, <2>5
<1>4. Cardinality(I) \in Nat /\ \A s \in SUBSET I : Cardinality(s) <= Cardinality(I)
  BY FS_CardinalityType, FS_Subset
<1>5. PICK g \in [SUBSET I -> Nat] : UpTo(Cardinality(I), g)
  BY <1>3, <1>4
<1>6. IsSums(I, f, g)
  BY <1>4, <1>5 DEF IsSums
<1>7. QED
  BY <1>6

LEMMA SumIsOfSums ==
    ASSUME NEW I, IsFiniteSet(I), NEW f \in [I -> Nat]
    PROVE  \E sums \in [SUBSET I -> Nat] : IsSums(I, f, sums) /\ SumFunction(f) = sums[I]
<1> DEFINE sums == CHOOSE it : IsSums(I, f, it)
<1>1. IsSums(I, f, sums)
  BY SumsExist
<1>2. SumFunction(f) = sums[I]
  BY DEF SumFunction, SumFunctionOnSet, FoldFunctionOnSet, MapThenFoldSet, Picked, IsSums, SumStep
<1> HIDE DEF sums
<1>3. \A s \in SUBSET I : sums[s] = SumStep(f, sums, s)
  BY <1>1 DEF IsSums
<1>4. \A s \in SUBSET I : sums[s] \in Nat
  <2> DEFINE T == {s \in SUBSET I : sums[s] \notin Nat}
  <2>1. SUFFICES ASSUME T # {}
                 PROVE  FALSE
    OBVIOUS
  <2>a. T \subseteq SUBSET I
    OBVIOUS
  <2> HIDE DEF T
  <2>2. PICK s \in T : \A t \in T : t \subseteq s => t = s
    BY <2>1, <2>a, LeastSet
  <2> USE DEF T
  <2>b. s \in SUBSET I /\ sums[s] \notin Nat /\ sums[s] = SumStep(f, sums, s)
    BY <1>3, <2>2
  <2>3. s # {}
    BY <2>b DEF SumStep
  <2>4. Picked(s) \in s /\ s \ {Picked(s)} \in SUBSET I /\ s \ {Picked(s)} # s
    BY <2>3, PickedIn
  <2>5. sums[s \ {Picked(s)}] \in Nat /\ f[Picked(s)] \in Nat
    BY <2>2, <2>4
  <2>6. sums[s] = f[Picked(s)] + sums[s \ {Picked(s)}]
    BY <1>3, <2>3 DEF SumStep
  <2>7. QED
    BY <2>5, <2>6
<1>5. sums \in [SUBSET I -> Nat]
  BY <1>1, <1>4 DEF IsSums
<1>6. QED
  BY <1>1, <1>2, <1>5

\* A sum of naturals is a natural.
LEMMA SumIsNat ==
    ASSUME NEW I, IsFiniteSet(I), NEW f \in [I -> Nat]
    PROVE  SumFunction(f) \in Nat
<1>1. PICK sums \in [SUBSET I -> Nat] : SumFunction(f) = sums[I]
  BY SumIsOfSums
<1>2. QED
  BY <1>1

\* A function that nowhere falls does not fall in sum.
LEMMA SumIsMonotone ==
    ASSUME NEW I, IsFiniteSet(I), NEW f \in [I -> Nat], NEW g \in [I -> Nat],
           \A i \in I : f[i] <= g[i]
    PROVE  SumFunction(f) <= SumFunction(g)
<1>1. PICK fs \in [SUBSET I -> Nat] : IsSums(I, f, fs) /\ SumFunction(f) = fs[I]
  BY SumIsOfSums
<1>2. PICK gs \in [SUBSET I -> Nat] : IsSums(I, g, gs) /\ SumFunction(g) = gs[I]
  BY SumIsOfSums
<1>3. \A s \in SUBSET I : fs[s] = SumStep(f, fs, s) /\ gs[s] = SumStep(g, gs, s)
  BY <1>1, <1>2 DEF IsSums
<1> DEFINE T == {s \in SUBSET I : ~(fs[s] <= gs[s])}
<1>4. SUFFICES ASSUME T # {}
               PROVE  FALSE
  BY <1>1, <1>2
<1>a. T \subseteq SUBSET I
  OBVIOUS
<1> HIDE DEF T
<1>5. PICK s \in T : \A t \in T : t \subseteq s => t = s
  BY <1>4, <1>a, LeastSet
<1> USE DEF T
<1>b. s \in SUBSET I /\ ~(fs[s] <= gs[s])
  BY <1>5
<1>c. s = {} => fs[s] = 0 /\ gs[s] = 0
  BY <1>3, <1>b DEF SumStep
<1>6. s # {}
  BY <1>b, <1>c
<1>7. Picked(s) \in s /\ s \ {Picked(s)} \in SUBSET I /\ s \ {Picked(s)} # s
  BY <1>6, PickedIn
<1>8. fs[s \ {Picked(s)}] <= gs[s \ {Picked(s)}] /\ f[Picked(s)] <= g[Picked(s)]
  BY <1>5, <1>7
<1>9. /\ fs[s] = f[Picked(s)] + fs[s \ {Picked(s)}]
      /\ gs[s] = g[Picked(s)] + gs[s \ {Picked(s)}]
  BY <1>3, <1>6 DEF SumStep
<1>10. QED
  BY <1>7, <1>8, <1>9

\* Changing one value changes the sum by the difference.
LEMMA SumOfChange ==
    ASSUME NEW I, IsFiniteSet(I), NEW f \in [I -> Nat], NEW g \in [I -> Nat], NEW h \in I,
           \A x \in I : x # h => g[x] = f[x]
    PROVE  SumFunction(g) = SumFunction(f) - f[h] + g[h]
<1>1. PICK fs \in [SUBSET I -> Nat] : IsSums(I, f, fs) /\ SumFunction(f) = fs[I]
  BY SumIsOfSums
<1>2. PICK gs \in [SUBSET I -> Nat] : IsSums(I, g, gs) /\ SumFunction(g) = gs[I]
  BY SumIsOfSums
<1>3. \A s \in SUBSET I : fs[s] = SumStep(f, fs, s) /\ gs[s] = SumStep(g, gs, s)
  BY <1>1, <1>2 DEF IsSums
<1> DEFINE Shifted(s) == gs[s] = fs[s] + IF h \in s THEN g[h] - f[h] ELSE 0
           T == {s \in SUBSET I : ~Shifted(s)}
<1>4. SUFFICES ASSUME T # {}
               PROVE  FALSE
  <2>1. h \in I /\ I \in SUBSET I /\ fs[I] \in Nat /\ f[h] \in Nat /\ g[h] \in Nat
    OBVIOUS
  <2>2. T = {} => Shifted(I)
    BY <2>1
  <2>3. Shifted(I) => SumFunction(g) = SumFunction(f) - f[h] + g[h]
    BY <1>1, <1>2, <2>1
  <2>4. QED
    BY <2>2, <2>3
<1>a. T \subseteq SUBSET I
  OBVIOUS
<1> HIDE DEF T
<1>5. PICK s \in T : \A t \in T : t \subseteq s => t = s
  BY <1>4, <1>a, LeastSet
<1> USE DEF T
<1>b. s \in SUBSET I /\ ~Shifted(s)
  BY <1>5
<1>6. s # {}
  <2>1. s = {} => fs[s] = 0 /\ gs[s] = 0 /\ h \notin s
    BY <1>3, <1>b DEF SumStep
  <2>2. QED
    BY <1>b, <2>1
<1> DEFINE x == Picked(s)
           t == s \ {x}
<1>7. x \in s /\ t \in SUBSET I /\ t # s /\ t \subseteq s
  BY <1>b, <1>6, PickedIn
<1>8. Shifted(t)
  BY <1>5, <1>7
<1>9. fs[s] = f[x] + fs[t] /\ gs[s] = g[x] + gs[t]
  BY <1>3, <1>b, <1>6 DEF SumStep
<1>10. /\ fs[t] \in Nat /\ gs[t] \in Nat /\ f[x] \in Nat /\ f[h] \in Nat
       /\ g[h] \in Nat
       /\ x = h => h \notin t /\ h \in s
       /\ x # h => g[x] = f[x] /\ (h \in t <=> h \in s)
  BY <1>7
<1> HIDE DEF x, t
<1>11. Shifted(s)
  BY <1>8, <1>9, <1>10
<1>12. QED
  BY <1>b, <1>11

\* A sum of so many values is at most so many times their bound.
LEMMA SumIsBounded ==
    ASSUME NEW I, IsFiniteSet(I), NEW f \in [I -> Nat], NEW c \in Nat,
           \A i \in I : f[i] <= c
    PROVE  SumFunction(f) <= Cardinality(I) * c
<1>1. PICK fs \in [SUBSET I -> Nat] : IsSums(I, f, fs) /\ SumFunction(f) = fs[I]
  BY SumIsOfSums
<1>2. \A s \in SUBSET I : fs[s] = SumStep(f, fs, s)
  BY <1>1 DEF IsSums
<1> DEFINE T == {s \in SUBSET I : ~(fs[s] <= Cardinality(s) * c)}
<1>3. SUFFICES ASSUME T # {}
               PROVE  FALSE
  BY <1>1
<1>a. T \subseteq SUBSET I
  OBVIOUS
<1> HIDE DEF T
<1>4. PICK s \in T : \A t \in T : t \subseteq s => t = s
  BY <1>3, <1>a, LeastSet
<1> USE DEF T
<1>b. s \in SUBSET I /\ ~(fs[s] <= Cardinality(s) * c)
  BY <1>4
<1>5. s # {}
  <2>1. s = {} => fs[s] = 0 /\ Cardinality(s) = 0
    BY <1>2, <1>b, FS_EmptySet DEF SumStep
  <2>2. QED
    BY <1>b, <2>1
<1> DEFINE x == Picked(s)
           t == s \ {x}
<1>6. /\ x \in s /\ t \in SUBSET I /\ t # s /\ t \subseteq s
      /\ Cardinality(s) \in Nat /\ Cardinality(t) = Cardinality(s) - 1
  BY <1>b, <1>5, PickedIn, SmallerSet
<1>7. fs[t] <= Cardinality(t) * c /\ f[x] <= c
  BY <1>4, <1>6
<1>8. fs[s] = f[x] + fs[t] /\ fs[t] \in Nat /\ f[x] \in Nat
  BY <1>2, <1>b, <1>5, <1>6 DEF SumStep
<1> HIDE DEF x, t
<1>9. Cardinality(s) * c = (Cardinality(s) - 1) * c + c
  BY <1>6
<1>10. fs[s] <= Cardinality(s) * c
  BY <1>6, <1>7, <1>8, <1>9
<1>11. QED
  BY <1>b, <1>10

\* One of them zero: room for one more under the bound.
LEMMA SumLeavesRoom ==
    ASSUME NEW I, IsFiniteSet(I), NEW f \in [I -> Nat], NEW c \in Nat,
           \A i \in I : f[i] <= c, NEW h \in I, f[h] = 0
    PROVE  SumFunction(f) + c <= Cardinality(I) * c
<1> DEFINE g == [f EXCEPT ![h] = c]
<1>1. /\ g \in [I -> Nat] /\ \A i \in I : g[i] <= c
      /\ g[h] = c /\ \A x \in I : x # h => g[x] = f[x]
  OBVIOUS
<1> HIDE DEF g
<1>2. SumFunction(g) = SumFunction(f) - f[h] + g[h]
  BY <1>1, SumOfChange
<1>3. SumFunction(f) \in Nat
  BY SumIsNat
<1>4. SumFunction(g) <= Cardinality(I) * c
  BY <1>1, SumIsBounded
<1>5. QED
  BY <1>1, <1>2, <1>3, <1>4

--------------------------------------------------------------------------------
(* The inductive invariant: what a handler carries between two calls still *)
(* agrees with the tables when it makes the second.                        *)

HandlerOK(h) ==
    LET i == job[h].event.inv
        n == job[h].amt
    IN  /\ job[h].step = "ledgerCreate" => n <= AmountPaid[i]
        /\ job[h].step = "ledgerReread" => ledger[i] # Unbooked
        /\ job[h].step \in {"creditLookup", "creditCreate"} => n = ledger[i]
        /\ job[h].step = "creditCreate" => n > 0
        /\ job[h].step \in {"reversalPrior", "reversalCreate"} =>
               credit[i] > 0 /\ n <= credit[i]
        /\ job[h].step = "reversalCreate" =>
               /\ job[h].delta > 0
               /\ job[h].delta <= n
               /\ n <= reversed[i] + job[h].delta
        /\ job[h].step = "refundLookup" => n <= reversed[i]

HandlerInv == \A h \in Handlers : HandlerOK(h)

IInv == TypeOK /\ HandlerInv /\ CreditMatchesLedger

--------------------------------------------------------------------------------
(* Types.                                                                  *)

\* Where a handler goes: one cell of job changes, and it stays a job.
LEMMA GotoType ==
    ASSUME TypeOK, NEW h \in Handlers, job[h].step # "idle",
           NEW s \in Steps \ {"idle"}, NEW n \in Nat, Goto(h, s, n)
    PROVE  /\ job' \in [Handlers -> Jobs]
           /\ \A k \in Handlers : job'[k].event = NoEvent <=> job'[k].step = "idle"
<1>1. job[h] \in Jobs
  BY DEF TypeOK
<1>2. job' = [job EXCEPT ![h] = [job[h] EXCEPT !.step = s, !.amt = n, !.delta = 0]]
  BY DEF Goto
<1>3. [job[h] EXCEPT !.step = s, !.amt = n, !.delta = 0] \in Jobs
  BY <1>1 DEF Jobs
<1>4. job[h].event # NoEvent
  BY DEF TypeOK
<1>5. QED
  BY <1>1, <1>2, <1>3, <1>4 DEF TypeOK, Jobs

\* A handler that returns is idle again.
LEMMA FinishType ==
    ASSUME TypeOK, NEW h \in Handlers, Finish(h)
    PROVE  /\ job' \in [Handlers -> Jobs]
           /\ \A k \in Handlers : job'[k].event = NoEvent <=> job'[k].step = "idle"
           /\ inbox' \subseteq inbox
           /\ parked' \subseteq parked
           /\ dismissed' \subseteq dismissed
BY DEF TypeOK, Finish, Idle, Jobs, Steps, Sources

\* A handler that starts holds an event of Stripe.
LEMMA StartType ==
    ASSUME TypeOK, NEW h \in Handlers, NEW src \in Sources, NEW e \in Events,
           NEW s \in Steps \ {"idle"}, Start(h, src, e, s)
    PROVE  /\ job' \in [Handlers -> Jobs]
           /\ \A k \in Handlers : job'[k].event = NoEvent <=> job'[k].step = "idle"
<1>1. e # NoEvent
  BY EventShape
<1>2. [step |-> s, src |-> src, event |-> e, amt |-> 0, delta |-> 0] \in Jobs
  BY DEF Jobs
<1>3. QED
  BY <1>1, <1>2 DEF TypeOK, Start, Jobs

\* A running handler works on an event of Stripe.
LEMMA RunningJob ==
    ASSUME TypeOK, NEW h \in Handlers, job[h].step # "idle"
    PROVE  /\ job[h] \in Jobs
           /\ job[h].event \in Events
           /\ job[h].event.inv \in Invoices
           /\ job[h].event.cum \in Nat
           /\ job[h].amt \in Nat
           /\ job[h].delta \in Nat
<1>1. job[h] \in Jobs /\ job[h].event # NoEvent
  BY DEF TypeOK
<1>2. job[h].event \in Events
  BY <1>1 DEF Jobs
<1>3. QED
  BY <1>1, <1>2, EventShape DEF Jobs

\* What a refund event must have taken back is at most the credit.
LEMMA ReversalCents ==
    ASSUME TypeOK, NEW e \in Events
    PROVE  /\ ShouldBeReversed(e) \in Nat
           /\ ShouldBeReversed(e) <= credit[e.inv]
<1> DEFINE i == e.inv
<1>1. i \in Invoices /\ e.cum \in Nat
  BY EventShape
<1>2. credit[i] \in Nat /\ AmountPaid[i] \in Nat /\ AmountPaid[i] > 0
  BY <1>1, LedgerAssumption DEF TypeOK, LedgerAssumption
<1>3. QED
  BY <1>1, <1>2, RefundedPartBounds DEF ShouldBeReversed

\* resolveStripeCustomer writes the index, or fails to.
LEMMA ResolvesType ==
    ASSUME TypeOK, NEW i \in Invoices, NEW found \in BOOLEAN, Resolves(i, found)
    PROVE  indexed' \subseteq Invoices /\ faults' \in 0..MaxFaults
BY LedgerAssumption DEF TypeOK, Resolves, LedgerAssumption

LEMMA InitType == Init => TypeOK
BY LedgerAssumption
   DEF Init, TypeOK, Idle, NoPayout, Jobs, Steps, Sources, LedgerAssumption

LEMMA NextType == TypeOK /\ HandlerInv /\ [Next]_vars => TypeOK'
<1> SUFFICES ASSUME TypeOK, HandlerInv, [Next]_vars
             PROVE  TypeOK'
  OBVIOUS
<1> USE DEF envVars, replyVars, tableVars, walletVars, faultVars
<1>1. ASSUME NEW i \in Invoices, Pay(i)
      PROVE  TypeOK'
  BY <1>1 DEF TypeOK, Pay, Events
<1>2. ASSUME NEW i \in Invoices, NEW c \in RefundSteps[i], Refund(i, c)
      PROVE  TypeOK'
  BY <1>2 DEF TypeOK, Refund, Events
<1>3. ASSUME NEW h \in Handlers, NEW e \in Events, Deliver(h, e) \/ Retry(h, e)
      PROVE  TypeOK'
  <2>1. PICK src \in {"webhook", "retry"} : Start(h, src, e, "place")
    BY <1>3 DEF Deliver, Retry
  <2>2. QED
    BY <1>3, <2>1, StartType DEF TypeOK, Deliver, Retry, Steps, Sources
<1>4. ASSUME NEW h \in Handlers, NEW i \in Invoices, LocalBooking(h, i)
      PROVE  TypeOK'
  <2>1. PaidEvent(i) \in Events
    BY DEF Events
  <2>2. PICK src \in {"local", "backfill"} : Start(h, src, PaidEvent(i), "accrueLookup")
    BY <1>4 DEF LocalBooking
  <2>3. QED
    BY <1>4, <2>1, <2>2, StartType DEF TypeOK, LocalBooking, Steps, Sources
<1>5. ASSUME NEW h \in Handlers, AccrueLookup(h)
      PROVE  TypeOK'
  <2>1. indexed' \subseteq Invoices /\ faults' \in 0..MaxFaults
    BY <1>5, RunningJob, ResolvesType DEF AccrueLookup
  <2>2. Finish(h) \/ \E s \in Steps \ {"idle"} : Goto(h, s, 0) /\ UNCHANGED replyVars
    BY <1>5 DEF AccrueLookup, AfterAccrual, Steps
  <2>3. QED
    BY <1>5, <2>1, <2>2, FinishType, GotoType DEF TypeOK, AccrueLookup
<1>6. ASSUME NEW h \in Handlers, AccrueCreate(h)
      PROVE  TypeOK'
  <2>1. Finish(h) \/ (Goto(h, "ledgerLookup", 0) /\ UNCHANGED replyVars)
    BY <1>6 DEF AccrueCreate, AfterAccrual
  <2>2. QED
    BY <1>6, <2>1, FinishType, GotoType, RunningJob DEF TypeOK, AccrueCreate, Steps
<1>7. ASSUME NEW h \in Handlers, LedgerLookup(h)
      PROVE  TypeOK'
  <2> DEFINE i == job[h].event.inv
  <2>1. i \in Invoices /\ (ledger[i] # Unbooked => ledger[i] \in Nat)
    BY <1>7, RunningJob DEF TypeOK, LedgerLookup
  <2>2. indexed' \subseteq Invoices /\ faults' \in 0..MaxFaults
    BY <1>7, <2>1, ResolvesType DEF TypeOK, LedgerLookup
  <2>3. \A split \in SplitsFor[i] : BrandShare(AmountPaid[i], split) \in Nat
    BY <2>1, BrandShareBounds, LedgerAssumption DEF LedgerAssumption
  <2>4. \/ Finish(h)
        \/ \E s \in Steps \ {"idle"}, n \in Nat : Goto(h, s, n) /\ UNCHANGED replyVars
    BY <1>7, <2>1, <2>3 DEF LedgerLookup, GiveUp, Steps
  <2>5. swallowed' \subseteq Invoices
    BY <1>7, <2>1 DEF TypeOK, LedgerLookup, GiveUp
  <2>6. QED
    BY <1>7, <2>2, <2>4, <2>5, FinishType, GotoType DEF TypeOK, LedgerLookup
<1>8. ASSUME NEW h \in Handlers, LedgerCreate(h)
      PROVE  TypeOK'
  <2>1. \E s \in Steps \ {"idle"}, n \in Nat : Goto(h, s, n)
    BY <1>8, RunningJob DEF LedgerCreate, Steps
  <2>2. ledger' \in [Invoices -> Nat \cup {Unbooked}]
    BY <1>8, RunningJob DEF TypeOK, LedgerCreate
  <2>3. QED
    BY <1>8, <2>1, <2>2, GotoType DEF TypeOK, LedgerCreate
<1>9. ASSUME NEW h \in Handlers, LedgerReread(h)
      PROVE  TypeOK'
  <2>1. ledger[job[h].event.inv] \in Nat
    BY <1>9, RunningJob DEF TypeOK, HandlerInv, HandlerOK, LedgerReread
  <2>2. QED
    BY <1>9, <2>1, GotoType DEF TypeOK, LedgerReread, Steps
<1>10. ASSUME NEW h \in Handlers, CreditLookup(h)
      PROVE  TypeOK'
  BY <1>10, FinishType, GotoType, RunningJob DEF TypeOK, CreditLookup, Steps
<1>11. ASSUME NEW h \in Handlers, CreditCreate(h)
      PROVE  TypeOK'
  BY <1>11, FinishType, GotoType, RunningJob DEF TypeOK, CreditCreate, Steps
<1>12. ASSUME NEW h \in Handlers, ReversalCredit(h)
      PROVE  TypeOK'
  <2>1. ShouldBeReversed(job[h].event) \in Nat
    BY <1>12, ReversalCents, RunningJob DEF ReversalCredit
  <2>2. \E s \in Steps \ {"idle"}, n \in Nat : Goto(h, s, n)
    BY <1>12, <2>1 DEF ReversalCredit, Steps
  <2>3. QED
    BY <1>12, <2>2, GotoType DEF TypeOK, ReversalCredit
<1>13. ASSUME NEW h \in Handlers, ReversalPrior(h)
      PROVE  TypeOK'
  <2> DEFINE d == job[h].amt - reversed[job[h].event.inv]
  <2>1. job[h].amt \in Nat /\ reversed[job[h].event.inv] \in Nat
    BY <1>13, RunningJob DEF TypeOK, ReversalPrior
  <2>2. CASE d <= 0
    BY <1>13, <2>1, <2>2, GotoType DEF TypeOK, ReversalPrior, Steps
  <2>3. CASE d > 0
    <3>1. job' = [job EXCEPT ![h].step = "reversalCreate", ![h].delta = d]
      <4>1. ~(d <= 0)
        BY <2>1, <2>3
      <4>2. QED
        BY <1>13, <4>1, Zenon DEF ReversalPrior
    <3>2. d \in Nat
      BY <2>1, <2>3
    <3>3. job[h].event # NoEvent /\ job[h] \in Jobs
      BY <1>13 DEF TypeOK, ReversalPrior
    <3>4. QED
      BY <1>13, <3>1, <3>2, <3>3 DEF TypeOK, ReversalPrior, Jobs, Steps
  <2>4. QED
    BY <2>1, <2>2, <2>3
<1>14. ASSUME NEW h \in Handlers, ReversalCreate(h)
      PROVE  TypeOK'
  BY <1>14, FinishType, GotoType, RunningJob DEF TypeOK, ReversalCreate, Steps
<1>15. ASSUME NEW h \in Handlers, RefundLookup(h)
      PROVE  TypeOK'
  <2> DEFINE e == job[h].event
             r == RefundedPart(AmountPaid[e.inv], e.cum, AmountPaid[e.inv])
  <2>0. e.inv \in Invoices /\ e.cum \in Nat
    BY <1>15, RunningJob DEF RefundLookup
  <2>a. AmountPaid[e.inv] \in Nat /\ AmountPaid[e.inv] > 0
    BY <2>0, LedgerAssumption DEF LedgerAssumption
  <2>1. r \in Nat
    BY <2>0, <2>a, RefundedPartBounds
  <2>2. Finish(h) \/ (Goto(h, "refundUpdate", r) /\ UNCHANGED replyVars)
    BY <1>15 DEF RefundLookup
  <2>3. QED
    BY <1>15, <2>1, <2>2, FinishType, GotoType DEF TypeOK, RefundLookup, Steps
<1>16. ASSUME NEW h \in Handlers, RefundUpdate(h)
      PROVE  TypeOK'
  BY <1>16, FinishType, RunningJob DEF TypeOK, RefundUpdate, Steps
<1>17. ASSUME NEW a \in Admins, NEW n \in PayoutSizes, PayoutCheck(a, n)
      PROVE  TypeOK'
  BY <1>17, LedgerAssumption DEF TypeOK, PayoutCheck, LedgerAssumption
<1>18. ASSUME NEW a \in Admins, PayoutCreate(a)
      PROVE  TypeOK'
  BY <1>18 DEF TypeOK, PayoutCreate, NoPayout
<1>19. ASSUME NEW h \in Handlers, DbError(h)
      PROVE  TypeOK'
  <2>1. \/ Finish(h) \/ Leave(h)
        \/ \E s \in Steps \ {"idle"} : Goto(h, s, 0) /\ UNCHANGED replyVars
    BY <1>19 DEF DbError, AfterAccrual, GiveUp, Steps
  <2>2. job[h].step # "idle"
    BY <1>19 DEF DbError
  <2>3. faults' \in 0..MaxFaults
    BY <1>19, LedgerAssumption DEF TypeOK, DbError, LedgerAssumption
  <2>4. swallowed' \subseteq Invoices
    BY <1>19, <2>2, RunningJob DEF TypeOK, DbError, GiveUp
  <2>5. CASE Leave(h)
    BY <1>19, <2>3, <2>4, <2>5 DEF TypeOK, DbError, Leave, Idle, Jobs, Steps, Sources
  <2>6. QED
    BY <1>19, <2>1, <2>2, <2>3, <2>4, <2>5, FinishType, GotoType DEF TypeOK, DbError
<1>20. ASSUME NEW h \in Handlers, Crash(h)
      PROVE  TypeOK'
  BY <1>20, LedgerAssumption
     DEF TypeOK, Crash, Leave, Idle, Jobs, Steps, Sources, LedgerAssumption
<1>21. ASSUME NEW e \in parked, Dismiss(e)
       PROVE  TypeOK'
  BY <1>21 DEF TypeOK, Dismiss
<1>22. ASSUME NEW h \in Handlers, Place(h)
       PROVE  TypeOK'
  <2> DEFINE e == job[h].event
  <2>1. e \in Events /\ e.inv \in Invoices
    BY <1>22, RunningJob DEF Place
  <2>2. indexed' \subseteq Invoices /\ faults' \in 0..MaxFaults
    BY <1>22, <2>1, ResolvesType DEF Place
  <2>3. CASE Park(h)
    BY <1>22, <2>1, <2>2, <2>3 DEF TypeOK, Place, Park, Idle, Jobs, Steps, Sources
  <2>4. CASE Leave(h)
    BY <1>22, <2>2, <2>4 DEF TypeOK, Place, Leave, Idle, Jobs, Steps, Sources
  <2>5. ASSUME NEW s \in {"accrueLookup", "reversalCredit"},
               Goto(h, s, 0) /\ UNCHANGED replyVars
        PROVE  TypeOK'
    BY <1>22, <2>2, <2>5, GotoType DEF TypeOK, Place, Steps
  <2>6. QED
    BY <1>22, <2>3, <2>4, <2>5 DEF Place
<1>23. CASE UNCHANGED vars
  BY <1>23 DEF TypeOK, vars
<1>24. sent \subseteq Events /\ parked \subseteq Events
  BY DEF TypeOK
<1>25. QED
  BY <1>1, <1>2, <1>3, <1>4, <1>5, <1>6, <1>7, <1>8, <1>9, <1>10, <1>11, <1>12,
     <1>13, <1>14, <1>15, <1>16, <1>17, <1>18, <1>19, <1>20, <1>21, <1>22, <1>23, <1>24
     DEF Next, Stripe, Call, HandlerStep, Payouts

--------------------------------------------------------------------------------
(* Every step is a step of the invoice book, or none.                      *)

LEMMA NextBooks == IInv /\ [Next]_vars => [Book!BookNext]_(Book!bookVars)
<1> SUFFICES ASSUME IInv, [Next]_vars
             PROVE  [Book!BookNext]_(Book!bookVars)
  OBVIOUS
<1> USE DEF envVars, replyVars, tableVars, walletVars, faultVars
<1>0. TypeOK /\ HandlerInv
  BY DEF IInv
<1>1. ASSUME NEW h \in Handlers, LedgerCreate(h)
      PROVE  [Book!BookNext]_(Book!bookVars)
  <2> DEFINE i == job[h].event.inv
  <2>1. i \in Invoices /\ job[h].amt \in 0..AmountPaid[i]
    BY <1>0, <1>1, RunningJob, LedgerAssumption
       DEF LedgerCreate, HandlerInv, HandlerOK, LedgerAssumption
  <2>2. CASE ledger[i] = Unbooked
    BY <1>1, <2>1, <2>2
       DEF LedgerCreate, Unbooked, Book!BookNext, Book!Book, Book!IsBooked, Book!Unbooked
  <2>3. CASE ledger[i] # Unbooked
    BY <1>1, <2>3 DEF LedgerCreate, Book!bookVars
  <2>4. QED
    BY <2>2, <2>3
<1>2. ASSUME NEW h \in Handlers, CreditCreate(h)
      PROVE  [Book!BookNext]_(Book!bookVars)
  <2> DEFINE i == job[h].event.inv
  <2>1. i \in Invoices /\ job[h].amt = ledger[i] /\ ledger[i] > 0
    BY <1>0, <1>2, RunningJob DEF CreditCreate, HandlerInv, HandlerOK
  <2>2. CASE credit[i] = 0
    BY <1>2, <2>1, <2>2 DEF CreditCreate, Book!BookNext, Book!Credit
  <2>3. CASE credit[i] # 0
    BY <1>2, <2>3 DEF CreditCreate, Book!bookVars
  <2>4. QED
    BY <2>2, <2>3
<1>3. ASSUME NEW h \in Handlers, ReversalCreate(h)
      PROVE  [Book!BookNext]_(Book!bookVars)
  <2> DEFINE i == job[h].event.inv
  <2>1. i \in Invoices /\ credit[i] \in Nat
    BY <1>0, <1>3, RunningJob DEF TypeOK, ReversalCreate
  <2>2. credit[i] > 0 /\ job[h].delta \in 1..credit[i]
    BY <1>0, <1>3, <2>1, RunningJob DEF ReversalCreate, HandlerInv, HandlerOK
  <2>3. QED
    BY <1>3, <2>1, <2>2 DEF ReversalCreate, Book!BookNext, Book!TakeBack
<1>4. CASE UNCHANGED <<ledger, credit, reversed>>
  BY <1>4 DEF Book!bookVars
<1>5. QED
  BY <1>1, <1>2, <1>3, <1>4, Zenon
     DEF Next, Stripe, Call, HandlerStep, Payouts, vars, Pay, Refund, Deliver,
         Retry, Dismiss, Place, LocalBooking, AccrueLookup, AccrueCreate, LedgerLookup, LedgerReread,
         CreditLookup, ReversalCredit, ReversalPrior, RefundLookup, RefundUpdate,
         PayoutCheck, PayoutCreate, DbError, Crash

\* What a step never does to the tables: a booked share and a credit do not
\* change, and what was reversed is not given back.
LEMMA TablesGrow ==
    ASSUME IInv, [Next]_vars, NEW i \in Invoices
    PROVE  /\ ledger[i] # Unbooked => ledger'[i] = ledger[i]
           /\ credit[i] > 0 => credit'[i] = credit[i]
           /\ reversed'[i] >= reversed[i]
<1>1. TypeOK
  BY DEF IInv
<1>2. CASE UNCHANGED <<ledger, credit, reversed>>
  BY <1>1, <1>2 DEF TypeOK
<1>3. ASSUME NEW j \in Invoices, Book!Book(j)
      PROVE  /\ ledger[i] # Unbooked => ledger'[i] = ledger[i]
             /\ UNCHANGED <<credit, reversed>>
  BY <1>1, <1>3 DEF TypeOK, Book!Book, Book!IsBooked, Book!Unbooked, Unbooked
<1>4. ASSUME NEW j \in Invoices, Book!Credit(j)
      PROVE  /\ credit[i] > 0 => credit'[i] = credit[i]
             /\ UNCHANGED <<ledger, reversed>>
  BY <1>1, <1>4 DEF TypeOK, Book!Credit
<1>5. ASSUME NEW j \in Invoices, Book!TakeBack(j)
      PROVE  /\ reversed'[i] >= reversed[i]
             /\ UNCHANGED <<ledger, credit>>
  BY <1>1, <1>5 DEF TypeOK, Book!TakeBack
<1>6. reversed[i] >= reversed[i]
  BY <1>1 DEF TypeOK
<1>7. QED
  BY <1>2, <1>3, <1>4, <1>5, <1>6, NextBooks DEF Book!BookNext, Book!bookVars

--------------------------------------------------------------------------------
(* What handlers carry stays true.                                         *)

\* While other handlers work, what handler k carries stays true: it speaks
\* of a row that is written once, or of a sum that only grows.
LEMMA OthersKept ==
    ASSUME IInv, [Next]_vars, NEW k \in Handlers, job'[k] = job[k]
    PROVE  HandlerOK(k)'
<1> DEFINE i == job[k].event.inv
<1>1. TypeOK /\ HandlerOK(k)
  BY DEF IInv, HandlerInv
<1>2. CASE job[k].step = "idle"
  BY <1>2 DEF HandlerOK
<1>3. CASE job[k].step # "idle"
  <2>1. /\ i \in Invoices
        /\ job[k].amt \in Nat /\ job[k].delta \in Nat
        /\ ledger[i] \in Nat \cup {Unbooked}
        /\ credit[i] \in Nat
        /\ reversed[i] \in Nat
    BY <1>1, <1>3, RunningJob DEF TypeOK
  <2>2. /\ ledger[i] # Unbooked => ledger'[i] = ledger[i]
        /\ credit[i] > 0 => credit'[i] = credit[i]
        /\ reversed'[i] >= reversed[i]
    BY <2>1, TablesGrow
  <2>3. reversed'[i] \in Nat
    BY <1>1, <2>1, NextType DEF IInv, TypeOK
  <2>4. QED
    BY <1>1, <2>1, <2>2, <2>3 DEF HandlerOK, Unbooked
<1>4. QED
  BY <1>2, <1>3

\* What a Goto leaves in the handlers' cells.
LEMMA GotoCells ==
    ASSUME TypeOK, NEW h \in Handlers, NEW s, NEW n, Goto(h, s, n)
    PROVE  /\ \A k \in Handlers : k # h => job'[k] = job[k]
           /\ job'[h].step = s
           /\ job'[h].amt = n
           /\ job'[h].event = job[h].event
<1>1. job[h] \in Jobs
  BY DEF TypeOK
<1>2. job' = [job EXCEPT ![h] = [job[h] EXCEPT !.step = s, !.amt = n, !.delta = 0]]
  BY DEF Goto
<1>3. QED
  BY <1>1, <1>2 DEF TypeOK, Jobs

\* Steps at which a handler carries nothing that the tables must agree with.
FreeSteps == {"place", "accrueLookup", "accrueCreate", "ledgerLookup", "reversalCredit", "refundUpdate"}

\* A handler that goes idle, or to a free step, owes nothing.
LEMMA Unburdened ==
    ASSUME NEW h \in Handlers, job'[h].step \in FreeSteps \cup {"idle"}
    PROVE  HandlerOK(h)'
BY DEF HandlerOK, FreeSteps

LEMMA NextHandlers == IInv /\ [Next]_vars => HandlerInv'
<1> SUFFICES ASSUME IInv, [Next]_vars
             PROVE  HandlerInv'
  OBVIOUS
<1>0. TypeOK /\ HandlerInv /\ TypeOK'
  BY NextType DEF IInv
\* It is enough to look at the one handler whose cell changes.
<1> DEFINE Others(h) == \A k \in Handlers : k # h => job'[k] = job[k]
<1>a. ASSUME NEW h \in Handlers, Others(h), HandlerOK(h)'
      PROVE  HandlerInv'
  BY <1>a, OthersKept DEF HandlerInv
<1>b. ASSUME NEW h \in Handlers, Finish(h)
      PROVE  HandlerInv'
  <2>1. Others(h) /\ job'[h].step = "idle"
    BY <1>0, <1>b DEF TypeOK, Finish, Idle
  <2>2. QED
    BY <1>a, <2>1, Unburdened
<1>c. ASSUME NEW h \in Handlers, NEW s \in FreeSteps, NEW n, Goto(h, s, n)
      PROVE  HandlerInv'
  <2>1. Others(h) /\ job'[h].step = s
    BY <1>0, <1>c, GotoCells
  <2>2. QED
    BY <1>a, <2>1, Unburdened
<1>d. ASSUME NEW h \in Handlers, NEW src, NEW e,
             NEW s \in {"place", "accrueLookup"}, Start(h, src, e, s)
      PROVE  HandlerInv'
  <2>1. Others(h) /\ job'[h].step = s
    BY <1>0, <1>d DEF TypeOK, Start
  <2>2. QED
    BY <1>a, <2>1, Unburdened DEF FreeSteps
<1>e. ASSUME UNCHANGED job
      PROVE  HandlerInv'
  BY <1>e, OthersKept DEF HandlerInv
<1>1. ASSUME NEW h \in Handlers, Call(h)
      PROVE  HandlerInv'
  <2>1. ASSUME NEW e, Deliver(h, e) \/ Retry(h, e)
        PROVE  HandlerInv'
    BY <1>d, <2>1 DEF Deliver, Retry
  <2>2. ASSUME NEW i \in Invoices, LocalBooking(h, i)
        PROVE  HandlerInv'
    BY <1>d, <2>2 DEF LocalBooking
  <2>3. QED
    BY <1>1, <2>1, <2>2 DEF Call
<1>f. ASSUME NEW h \in Handlers, Leave(h) \/ Park(h)
      PROVE  HandlerInv'
  <2>1. Others(h) /\ job'[h].step = "idle"
    BY <1>0, <1>f DEF TypeOK, Leave, Park, Idle
  <2>2. QED
    BY <1>a, <2>1, Unburdened
<1>2. ASSUME NEW h \in Handlers, Place(h) \/ AccrueLookup(h) \/ AccrueCreate(h)
      PROVE  HandlerInv'
  BY <1>2, <1>b, <1>c, <1>f DEF Place, AccrueLookup, AccrueCreate, AfterAccrual, FreeSteps
<1>3. ASSUME NEW h \in Handlers, LedgerLookup(h)
      PROVE  HandlerInv'
  <2> DEFINE i == job[h].event.inv
  <2>1. i \in Invoices
    BY <1>0, <1>3, RunningJob DEF LedgerLookup
  <2>2. CASE Finish(h)
    BY <2>2, <1>b
  <2>3. CASE Goto(h, "creditLookup", ledger[i]) /\ UNCHANGED ledger
    <3>1. /\ Others(h) /\ job'[h].step = "creditLookup"
          /\ job'[h].amt = ledger[i] /\ job'[h].event = job[h].event
      BY <1>0, <2>3, GotoCells
    <3>2. HandlerOK(h)'
      BY <2>3, <3>1 DEF HandlerOK
    <3>3. QED
      BY <1>a, <3>1, <3>2
  <2>4. ASSUME NEW split \in SplitsFor[i],
               Goto(h, "ledgerCreate", BrandShare(AmountPaid[i], split))
        PROVE  HandlerInv'
    <3>1. /\ Others(h) /\ job'[h].step = "ledgerCreate"
          /\ job'[h].amt = BrandShare(AmountPaid[i], split)
          /\ job'[h].event = job[h].event
      BY <1>0, <2>4, GotoCells
    <3>2. job'[h].amt <= AmountPaid[i]
      BY <2>1, <3>1, BrandShareBounds, LedgerAssumption DEF LedgerAssumption
    <3>3. HandlerOK(h)'
      BY <3>1, <3>2 DEF HandlerOK
    <3>4. QED
      BY <1>a, <3>1, <3>3
  <2>5. QED
    BY <1>3, <2>2, <2>3, <2>4 DEF LedgerLookup, GiveUp
<1>4. ASSUME NEW h \in Handlers, LedgerCreate(h)
      PROVE  HandlerInv'
  <2> DEFINE i == job[h].event.inv
  <2>1. i \in Invoices
    BY <1>0, <1>4, RunningJob DEF LedgerCreate
  <2>2. CASE ledger[i] = Unbooked
    <3>1. /\ Others(h) /\ job'[h].step = "creditLookup"
          /\ job'[h].amt = job[h].amt /\ job'[h].event = job[h].event
      BY <1>0, <1>4, <2>2, GotoCells DEF LedgerCreate
    <3>2. ledger'[i] = job[h].amt
      BY <1>0, <1>4, <2>1, <2>2 DEF TypeOK, LedgerCreate
    <3>3. HandlerOK(h)'
      BY <3>1, <3>2 DEF HandlerOK
    <3>4. QED
      BY <1>a, <3>1, <3>3
  <2>3. CASE ledger[i] # Unbooked
    <3>1. /\ Others(h) /\ job'[h].step = "ledgerReread"
          /\ job'[h].event = job[h].event
          /\ UNCHANGED ledger
      BY <1>0, <1>4, <2>3, GotoCells DEF LedgerCreate
    <3>2. HandlerOK(h)'
      BY <2>3, <3>1 DEF HandlerOK
    <3>3. QED
      BY <1>a, <3>1, <3>2
  <2>4. QED
    BY <2>2, <2>3
<1>5. ASSUME NEW h \in Handlers, LedgerReread(h)
      PROVE  HandlerInv'
  <2>1. /\ Others(h) /\ job'[h].step = "creditLookup"
        /\ job'[h].amt = ledger[job[h].event.inv]
        /\ job'[h].event = job[h].event
        /\ UNCHANGED ledger
    BY <1>0, <1>5, GotoCells DEF LedgerReread, tableVars
  <2>2. HandlerOK(h)'
    BY <2>1 DEF HandlerOK
  <2>3. QED
    BY <1>a, <2>1, <2>2
<1>6. ASSUME NEW h \in Handlers, CreditLookup(h)
      PROVE  HandlerInv'
  <2> DEFINE i == job[h].event.inv
  <2>1. CASE Finish(h)
    BY <2>1, <1>b
  <2>2. CASE Goto(h, "creditCreate", job[h].amt) /\ ~(job[h].amt <= 0)
    <3>1. /\ Others(h) /\ job'[h].step = "creditCreate"
          /\ job'[h].amt = job[h].amt /\ job'[h].event = job[h].event
          /\ UNCHANGED ledger
      BY <1>0, <1>6, <2>2, GotoCells DEF CreditLookup, tableVars
    <3>2. job[h].amt = ledger[i] /\ job[h].amt > 0
      BY <1>0, <1>6, <2>2, RunningJob DEF CreditLookup, HandlerInv, HandlerOK
    <3>3. HandlerOK(h)'
      BY <3>1, <3>2 DEF HandlerOK
    <3>4. QED
      BY <1>a, <3>1, <3>3
  <2>3. QED
    BY <1>6, <2>1, <2>2 DEF CreditLookup
<1>7. ASSUME NEW h \in Handlers, ReversalCredit(h)
      PROVE  HandlerInv'
  <2> DEFINE i == job[h].event.inv
  <2>1. i \in Invoices /\ credit[i] \in Nat /\ reversed[i] \in Nat
    BY <1>0, <1>7, RunningJob DEF TypeOK, ReversalCredit
  <2>2. CASE credit[i] = 0
    <3>1. /\ Others(h) /\ job'[h].step = "refundLookup" /\ job'[h].amt = 0
          /\ job'[h].event = job[h].event /\ UNCHANGED reversed
      BY <1>0, <1>7, <2>2, GotoCells DEF ReversalCredit, tableVars
    <3>2. HandlerOK(h)'
      BY <2>1, <3>1 DEF HandlerOK
    <3>3. QED
      BY <1>a, <3>1, <3>2
  <2>3. CASE credit[i] # 0
    <3>1. /\ Others(h) /\ job'[h].step = "reversalPrior"
          /\ job'[h].amt = ShouldBeReversed(job[h].event)
          /\ job'[h].event = job[h].event /\ UNCHANGED credit
      BY <1>0, <1>7, <2>3, GotoCells DEF ReversalCredit, tableVars
    <3>2. ShouldBeReversed(job[h].event) <= credit[i] /\ credit[i] > 0
      BY <1>0, <1>7, <2>1, <2>3, RunningJob, ReversalCents DEF ReversalCredit
    <3>3. HandlerOK(h)'
      BY <3>1, <3>2 DEF HandlerOK
    <3>4. QED
      BY <1>a, <3>1, <3>3
  <2>4. QED
    BY <2>2, <2>3
<1>8. ASSUME NEW h \in Handlers, ReversalPrior(h)
      PROVE  HandlerInv'
  <2> DEFINE i == job[h].event.inv
             d == job[h].amt - reversed[i]
  <2>1. /\ i \in Invoices /\ credit[i] \in Nat /\ reversed[i] \in Nat
        /\ job[h].amt \in Nat /\ job[h] \in Jobs
    BY <1>0, <1>8, RunningJob DEF TypeOK, ReversalPrior
  <2>2. UNCHANGED <<reversed, credit>>
    BY <1>8 DEF ReversalPrior, tableVars
  <2>3. CASE d <= 0
    <3>1. Goto(h, "refundLookup", job[h].amt)
      BY <1>8, <2>3, Zenon DEF ReversalPrior
    <3>2. /\ Others(h) /\ job'[h].step = "refundLookup" /\ job'[h].amt = job[h].amt
          /\ job'[h].event = job[h].event
      BY <1>0, <3>1, GotoCells
    <3>3. HandlerOK(h)'
      BY <2>1, <2>2, <2>3, <3>2 DEF HandlerOK
    <3>4. QED
      BY <1>a, <3>2, <3>3
  <2>4. CASE ~(d <= 0)
    <3>1. job' = [job EXCEPT ![h].step = "reversalCreate", ![h].delta = d]
      BY <1>8, <2>4, Zenon DEF ReversalPrior
    <3>2. /\ Others(h) /\ job'[h].step = "reversalCreate" /\ job'[h].amt = job[h].amt
          /\ job'[h].delta = d /\ job'[h].event = job[h].event
      BY <1>0, <2>1, <3>1 DEF TypeOK, Jobs
    <3>3. credit[i] > 0 /\ job[h].amt <= credit[i]
      BY <1>0, <1>8 DEF ReversalPrior, HandlerInv, HandlerOK
    <3>4. HandlerOK(h)'
      BY <2>1, <2>2, <2>4, <3>2, <3>3 DEF HandlerOK
    <3>5. QED
      BY <1>a, <3>2, <3>4
  <2>5. QED
    BY <2>3, <2>4
<1>9. ASSUME NEW h \in Handlers, ReversalCreate(h)
      PROVE  HandlerInv'
  <2> DEFINE i == job[h].event.inv
  <2>1. i \in Invoices /\ reversed[i] \in Nat /\ job[h].amt \in Nat
    BY <1>0, <1>9, RunningJob DEF TypeOK, ReversalCreate
  <2>2. /\ Others(h) /\ job'[h].step = "refundLookup" /\ job'[h].amt = job[h].amt
        /\ job'[h].event = job[h].event
    BY <1>0, <1>9, GotoCells DEF ReversalCreate
  <2>3. reversed'[i] = reversed[i] + job[h].delta
    BY <1>0, <1>9, <2>1 DEF TypeOK, ReversalCreate
  <2>4. job[h].amt <= reversed[i] + job[h].delta
    BY <1>0, <1>9 DEF ReversalCreate, HandlerInv, HandlerOK
  <2>5. HandlerOK(h)'
    BY <2>2, <2>3, <2>4 DEF HandlerOK
  <2>6. QED
    BY <1>a, <2>2, <2>5
<1>10. ASSUME NEW h \in Handlers, CreditCreate(h) \/ RefundLookup(h) \/ RefundUpdate(h)
       PROVE  HandlerInv'
  BY <1>10, <1>b, <1>c DEF CreditCreate, RefundLookup, RefundUpdate, FreeSteps
<1>11. ASSUME NEW h \in Handlers, DbError(h)
       PROVE  HandlerInv'
  <2>1. CASE Goto(h, "refundLookup", 0) /\ job[h].step # "idle"
    <3>1. /\ Others(h) /\ job'[h].step = "refundLookup" /\ job'[h].amt = 0
          /\ job'[h].event = job[h].event /\ UNCHANGED reversed
      BY <1>0, <1>11, <2>1, GotoCells DEF DbError, tableVars
    <3>2. reversed[job[h].event.inv] \in Nat
      BY <1>0, <2>1, RunningJob DEF TypeOK
    <3>3. HandlerOK(h)'
      BY <3>1, <3>2 DEF HandlerOK
    <3>4. QED
      BY <1>a, <3>1, <3>3
  <2>2. QED
    BY <1>11, <1>b, <1>c, <1>f, <2>1 DEF DbError, AfterAccrual, GiveUp, FreeSteps
<1>12. ASSUME NEW h \in Handlers, Crash(h)
       PROVE  HandlerInv'
  BY <1>12, <1>f DEF Crash
<1>13. CASE Stripe \/ (\E e \in parked : Dismiss(e)) \/ Payouts \/ UNCHANGED vars
  BY <1>13, <1>e
     DEF Stripe, Pay, Refund, Dismiss, Payouts, PayoutCheck, PayoutCreate, vars
<1>14. QED
  BY <1>1, <1>2, <1>3, <1>4, <1>5, <1>6, <1>7, <1>8, <1>9, <1>10, <1>11, <1>12,
     <1>13 DEF Next, HandlerStep

--------------------------------------------------------------------------------
(* Credits match the ledger.                                               *)

LEMMA NextCredits == IInv /\ [Next]_vars => CreditMatchesLedger'
<1> SUFFICES ASSUME IInv, [Next]_vars
             PROVE  CreditMatchesLedger'
  OBVIOUS
<1> USE DEF CreditMatchesLedger
<1>0. TypeOK /\ CreditMatchesLedger /\ LedgerAssumption
  BY LedgerAssumption DEF IInv
<1>1. CASE UNCHANGED Book!bookVars
  BY <1>0, <1>1 DEF Book!bookVars
<1>2. ASSUME NEW j \in Invoices, Book!Book(j)
      PROVE  CreditMatchesLedger'
  <2>1. credit[j] = 0
    BY <1>0, <1>2 DEF TypeOK, Book!Book, Book!IsBooked, Book!Unbooked
  <2>2. PICK n \in 0..AmountPaid[j] : ledger' = [ledger EXCEPT ![j] = n]
    BY <1>2 DEF Book!Book
  <2>3. n <= AmountPaid[j]
    BY <1>0, <2>2 DEF LedgerAssumption
  <2>4. QED
    BY <1>0, <1>2, <2>1, <2>2, <2>3 DEF TypeOK, Book!Book
<1>3. ASSUME NEW j \in Invoices, Book!Credit(j)
      PROVE  CreditMatchesLedger'
  BY <1>0, <1>3 DEF TypeOK, Book!Credit
<1>4. ASSUME NEW j \in Invoices, Book!TakeBack(j)
      PROVE  CreditMatchesLedger'
  BY <1>0, <1>4 DEF Book!TakeBack
<1>5. QED
  BY <1>1, <1>2, <1>3, <1>4, NextBooks DEF Book!BookNext

--------------------------------------------------------------------------------
(* No payment is lost.                                                     *)

RefundStages == {"reversalCredit", "reversalPrior", "reversalCreate", "refundLookup",
                 "refundUpdate"}

\* Only a refund reaches the stages of a refund.
StagesFit == \A h \in Handlers : job[h].step \in RefundStages => job[h].event.kind = "refund"

LEMMA EventKinds ==
    ASSUME NEW e \in Events
    PROVE  e.kind = "paid" \/ e.kind = "refund"
BY DEF Events, PaidEvent, RefundEvent

LEMMA NextStages == TypeOK /\ StagesFit /\ [Next]_vars => StagesFit'
<1> SUFFICES ASSUME TypeOK, StagesFit, [Next]_vars
             PROVE  StagesFit'
  OBVIOUS
<1> USE DEF envVars, replyVars, tableVars, walletVars, faultVars
<1> DEFINE Fits(h) == job'[h].step \in RefundStages => job'[h].event.kind = "refund"
<1>a. ASSUME NEW h \in Handlers, \A k \in Handlers : k # h => job'[k] = job[k], Fits(h)
      PROVE  StagesFit'
  BY <1>a DEF StagesFit
<1>b. ASSUME NEW h \in Handlers, Finish(h) \/ Leave(h) \/ Park(h)
      PROVE  StagesFit'
  <2>1. (\A k \in Handlers : k # h => job'[k] = job[k]) /\ job'[h].step = "idle"
    BY <1>b DEF TypeOK, Finish, Leave, Park, Idle
  <2>2. QED
    BY <1>a, <2>1 DEF RefundStages
<1>c. ASSUME NEW h \in Handlers, NEW s, NEW n, Goto(h, s, n),
             s \in RefundStages => job[h].event.kind = "refund"
      PROVE  StagesFit'
  BY <1>a, <1>c, GotoCells
<1>d. ASSUME NEW h \in Handlers, NEW src, NEW e, NEW s \in {"place", "accrueLookup"},
             Start(h, src, e, s)
      PROVE  StagesFit'
  <2>1. (\A k \in Handlers : k # h => job'[k] = job[k]) /\ job'[h].step = s
    BY <1>d DEF TypeOK, Start
  <2>2. QED
    BY <1>a, <2>1 DEF RefundStages
<1>e. ASSUME UNCHANGED job
      PROVE  StagesFit'
  BY <1>e DEF StagesFit
<1>1. ASSUME NEW h \in Handlers, Call(h)
      PROVE  StagesFit'
  BY <1>1, <1>d DEF Call, Deliver, Retry, LocalBooking
<1>2. ASSUME NEW h \in Handlers, Place(h)
      PROVE  StagesFit'
  <2>1. job[h].event.kind = "paid" \/ job[h].event.kind = "refund"
    BY <1>2, RunningJob, EventKinds DEF Place
  <2>2. ASSUME Goto(h, IF job[h].event.kind = "paid" THEN "accrueLookup"
                                                    ELSE "reversalCredit", 0)
        PROVE  StagesFit'
    BY <1>c, <2>1, <2>2 DEF RefundStages
  <2>3. QED
    BY <1>2, <1>b, <2>2 DEF Place
<1>3. ASSUME NEW h \in Handlers,
             AccrueLookup(h) \/ AccrueCreate(h) \/ LedgerLookup(h) \/ LedgerCreate(h)
             \/ LedgerReread(h) \/ CreditLookup(h) \/ CreditCreate(h)
      PROVE  StagesFit'
  BY <1>3, <1>b, <1>c
     DEF AccrueLookup, AccrueCreate, AfterAccrual, LedgerLookup, GiveUp, LedgerCreate,
         LedgerReread, CreditLookup, CreditCreate, RefundStages
<1>4. ASSUME NEW h \in Handlers,
             ReversalCredit(h) \/ ReversalPrior(h) \/ ReversalCreate(h) \/ RefundLookup(h)
             \/ RefundUpdate(h)
      PROVE  StagesFit'
  <2>1. job[h].event.kind = "refund"
    BY <1>4 DEF StagesFit, RefundStages, ReversalCredit, ReversalPrior, ReversalCreate,
                RefundLookup, RefundUpdate
  <2>2. ASSUME NEW d, job' = [job EXCEPT ![h].step = "reversalCreate", ![h].delta = d]
        PROVE  StagesFit'
    <3>1. job[h] \in Jobs
      BY DEF TypeOK
    <3>2. /\ \A k \in Handlers : k # h => job'[k] = job[k]
          /\ job'[h].event = job[h].event
      BY <2>2, <3>1 DEF TypeOK, Jobs
    <3>3. QED
      BY <1>a, <2>1, <3>2
  <2>3. QED
    BY <1>4, <1>b, <1>c, <2>1, <2>2
       DEF ReversalCredit, ReversalPrior, ReversalCreate, RefundLookup, RefundUpdate
<1>5. ASSUME NEW h \in Handlers, DbError(h)
      PROVE  StagesFit'
  <2>1. job[h].step \in {"reversalCredit", "reversalPrior", "reversalCreate"}
            => job[h].event.kind = "refund"
    BY DEF StagesFit, RefundStages
  <2>2. QED
    BY <1>5, <1>b, <1>c, <2>1 DEF DbError, AfterAccrual, GiveUp, RefundStages
<1>6. ASSUME NEW h \in Handlers, Crash(h)
      PROVE  StagesFit'
  BY <1>6, <1>b DEF Crash
<1>7. CASE Stripe \/ (\E e \in parked : Dismiss(e)) \/ Payouts \/ UNCHANGED vars
  BY <1>7, <1>e
     DEF Stripe, Pay, Refund, Dismiss, Payouts, PayoutCheck, PayoutCreate, vars
<1>8. QED
  BY <1>1, <1>2, <1>3, <1>4, <1>5, <1>6, <1>7 DEF Next, HandlerStep

NotLost(i) == Settled(i) \/ PaidEvent(i) \in inbox \/ Held(i)

LEMMA NextNotLost ==
    IInv /\ StagesFit /\ PaymentNotLost /\ [Next]_vars => PaymentNotLost'
<1> SUFFICES ASSUME IInv, StagesFit, PaymentNotLost, [Next]_vars, NEW i \in Invoices,
                    PaidEvent(i) \in sent'
             PROVE  NotLost(i)'
  BY DEF PaymentNotLost, NotLost
<1> USE DEF envVars, replyVars, tableVars, walletVars, faultVars
<1> DEFINE e == PaidEvent(i)
<1>0. TypeOK /\ HandlerInv /\ CreditMatchesLedger /\ e.kind = "paid" /\ e.inv = i
  BY DEF IInv, PaidEvent
\* A settled payment stays settled.
<1>1. Settled(i) => Settled(i)'
  BY <1>0, TablesGrow DEF Settled, TypeOK
<1>a. ASSUME NotLost(i), UNCHANGED replyVars, swallowed \subseteq swallowed'
      PROVE  NotLost(i)'
  BY <1>1, <1>a DEF NotLost, Held
\* Finish is the one way out of the inbox and of the parked events, unless
\* the event is parked on the way.
<1>b. ASSUME NotLost(i), NEW h \in Handlers, Finish(h), swallowed \subseteq swallowed',
             job[h].event = e /\ job[h].src \in {"webhook", "retry"}
                 => Settled(i)' \/ i \in swallowed'
      PROVE  NotLost(i)'
  <2>1. CASE job[h].event = e /\ job[h].src \in {"webhook", "retry"}
    BY <1>b, <2>1 DEF NotLost, Held
  <2>2. CASE ~(job[h].event = e /\ job[h].src \in {"webhook", "retry"})
    <3>1. /\ e \in inbox => e \in inbox'
          /\ e \in parked => e \in parked'
          /\ e \in dismissed => e \in dismissed'
      BY <1>b, <2>2 DEF Finish
    <3>2. QED
      BY <1>1, <1>b, <3>1 DEF NotLost, Held
  <2>3. QED
    BY <2>1, <2>2
<1>c. ASSUME NotLost(i), NEW h \in Handlers, GiveUp(h), job[h].step # "idle"
      PROVE  NotLost(i)'
  BY <1>0, <1>b, <1>c DEF GiveUp
<1>2. ASSUME NEW j \in Invoices, Pay(j)
      PROVE  NotLost(i)'
  BY <1>1, <1>2 DEF Pay, PaymentNotLost, NotLost, Held
<1>3. CASE ~(\E j \in Invoices : Pay(j))
  <2>0. NotLost(i)
    <3>a. \/ UNCHANGED sent
          \/ \E j \in Invoices : \E c \in RefundSteps[j] : Refund(j, c)
      BY <1>3, Zenon
         DEF Next, Stripe, Call, HandlerStep, Payouts, vars, Deliver,
             Retry, Dismiss, Place, LocalBooking, AccrueLookup, AccrueCreate, LedgerLookup,
             LedgerCreate, LedgerReread, CreditLookup, CreditCreate, ReversalCredit,
             ReversalPrior, ReversalCreate, RefundLookup, RefundUpdate, PayoutCheck,
             PayoutCreate, DbError, Crash
    <3>1. e \in sent
      BY <1>0, <3>a DEF Refund, RefundEvent
    <3>2. QED
      BY <3>1 DEF PaymentNotLost, NotLost
  <2>1. ASSUME NEW h \in Handlers, Place(h)
        PROVE  NotLost(i)'
    <3>1. CASE Park(h)
      BY <1>1, <2>0, <2>1, <3>1 DEF Place, Park, NotLost, Held
    <3>2. QED
      BY <1>a, <2>0, <2>1, <3>1 DEF Place, Leave
  <2>2. ASSUME NEW h \in Handlers, AccrueLookup(h) \/ AccrueCreate(h)
        PROVE  NotLost(i)'
    <3>1. AfterAccrual(h) \/ UNCHANGED replyVars
      BY <2>2 DEF AccrueLookup, AccrueCreate
    <3>2. swallowed' = swallowed
      BY <2>2 DEF AccrueLookup, AccrueCreate
    <3>3. QED
      BY <1>a, <1>b, <2>0, <3>1, <3>2 DEF AfterAccrual
  <2>3. ASSUME NEW h \in Handlers, LedgerLookup(h)
        PROVE  NotLost(i)'
    BY <1>a, <1>c, <2>0, <2>3 DEF LedgerLookup
  <2>4. ASSUME NEW h \in Handlers, CreditLookup(h)
        PROVE  NotLost(i)'
    <3>1. CASE UNCHANGED replyVars
      BY <1>a, <2>0, <2>4, <3>1 DEF CreditLookup
    <3>2. CASE Finish(h) /\ (job[h].amt <= 0 \/ credit[job[h].event.inv] > 0)
      <4>1. job[h].event = e => job[h].amt = ledger[i]
        BY <1>0, <2>4 DEF CreditLookup, HandlerInv, HandlerOK
      <4>2. job[h] \in Jobs /\ ledger[i] \in Nat \cup {Unbooked} /\ credit[i] \in Nat
        BY <1>0 DEF TypeOK
      <4>3. job[h].event = e => Settled(i)
        BY <1>0, <3>2, <4>1, <4>2 DEF Settled, Jobs, CreditMatchesLedger, Unbooked
      <4>4. QED
        BY <1>1, <1>b, <2>0, <2>4, <3>2, <4>3 DEF CreditLookup
    <3>3. QED
      BY <2>4, <3>1, <3>2 DEF CreditLookup
  <2>5. ASSUME NEW h \in Handlers, CreditCreate(h)
        PROVE  NotLost(i)'
    <3>1. job[h].event = e => job[h].amt = ledger[i] /\ ledger[i] > 0
      BY <1>0, <2>5 DEF CreditCreate, HandlerInv, HandlerOK
    <3>2. /\ ledger[i] \in Nat \cup {Unbooked} /\ credit[i] \in Nat
          /\ ledger' = ledger
      BY <1>0, <2>5 DEF TypeOK, CreditCreate
    <3>3. job[h].event = e => credit'[i] = ledger[i]
      BY <1>0, <2>5, <3>1, <3>2 DEF TypeOK, CreditCreate, CreditMatchesLedger
    <3>4. job[h].event = e => Settled(i)'
      BY <3>1, <3>2, <3>3 DEF Settled, Unbooked
    <3>5. QED
      BY <1>b, <2>0, <2>5, <3>4 DEF CreditCreate
  <2>6. ASSUME NEW h \in Handlers, RefundLookup(h) \/ RefundUpdate(h)
        PROVE  NotLost(i)'
    <3>1. job[h].event # e
      BY <1>0, <2>6 DEF StagesFit, RefundStages, RefundLookup, RefundUpdate
    <3>2. swallowed' = swallowed /\ (Finish(h) \/ UNCHANGED replyVars)
      BY <2>6 DEF RefundLookup, RefundUpdate
    <3>3. QED
      BY <1>a, <1>b, <2>0, <3>1, <3>2
  <2>7. ASSUME NEW h \in Handlers, DbError(h)
        PROVE  NotLost(i)'
    <3>1. CASE GiveUp(h) /\ job[h].step # "idle"
      BY <1>c, <2>0, <3>1
    <3>2. CASE UNCHANGED <<replyVars, swallowed>>
      BY <1>a, <2>0, <3>2
    <3>3. CASE AfterAccrual(h) /\ UNCHANGED swallowed
      BY <1>a, <1>b, <2>0, <3>3 DEF AfterAccrual
    <3>4. CASE /\ job[h].step \in {"refundLookup", "refundUpdate"}
               /\ Finish(h) /\ UNCHANGED swallowed
      <4>1. job[h].event # e
        BY <1>0, <3>4 DEF StagesFit, RefundStages
      <4>2. QED
        BY <1>b, <2>0, <3>4, <4>1
    <3>5. QED
      BY <2>7, <3>1, <3>2, <3>3, <3>4 DEF DbError, Leave
  <2>8. ASSUME NEW x \in parked, Dismiss(x)
        PROVE  NotLost(i)'
    BY <1>1, <2>0, <2>8 DEF Dismiss, NotLost, Held
  <2>9. CASE UNCHANGED replyVars /\ UNCHANGED swallowed
    BY <1>a, <2>0, <2>9
  <2>10. ASSUME NEW j \in Invoices, NEW c \in RefundSteps[j], Refund(j, c)
         PROVE  NotLost(i)'
    BY <1>1, <2>0, <2>10 DEF Refund, NotLost, Held
  <2>11. QED
    BY <1>3, <2>1, <2>2, <2>3, <2>4, <2>5, <2>6, <2>7, <2>8, <2>9, <2>10, Zenon
       DEF Next, Stripe, Call, HandlerStep, Payouts, vars, Deliver, Retry, LocalBooking,
           LedgerCreate, LedgerReread, ReversalCredit, ReversalPrior, ReversalCreate,
           PayoutCheck, PayoutCreate, Crash, Leave
<1>4. QED
  BY <1>2, <1>3

--------------------------------------------------------------------------------
(* Refunds handled together: what each may still write, in sum.            *)

OnlyRefunders == \A h \in Handlers : job[h].event.kind = "refund" => h \in RefundHandlers

\* The entries of an invoice that handlers are about to write.
Pending(i) ==
    [h \in RefundHandlers |->
        IF job[h].step = "reversalCreate" /\ job[h].event.inv = i THEN job[h].delta ELSE 0]

ReversalsFit ==
    \A i \in Invoices :
        reversed[i] + SumFunction(Pending(i)) <= Cardinality(RefundHandlers) * credit[i]

LEMMA NextRefunders == TypeOK /\ OnlyRefunders /\ [Next]_vars => OnlyRefunders'
<1> SUFFICES ASSUME TypeOK, OnlyRefunders, [Next]_vars
             PROVE  OnlyRefunders'
  OBVIOUS
<1> USE DEF envVars, replyVars, tableVars, walletVars, faultVars
<1>a. ASSUME NEW h \in Handlers, \A k \in Handlers : k # h => job'[k] = job[k],
             job'[h].event.kind = "refund" => h \in RefundHandlers
      PROVE  OnlyRefunders'
  BY <1>a DEF OnlyRefunders
<1>b. ASSUME NEW h \in Handlers, Finish(h) \/ Leave(h) \/ Park(h)
      PROVE  OnlyRefunders'
  <2>1. (\A k \in Handlers : k # h => job'[k] = job[k]) /\ job'[h].event.kind = "none"
    BY <1>b DEF TypeOK, Finish, Leave, Park, Idle, NoEvent
  <2>2. QED
    BY <1>a, <2>1
<1>c. ASSUME NEW h \in Handlers, NEW s, NEW n, Goto(h, s, n)
      PROVE  OnlyRefunders'
  BY <1>a, <1>c, GotoCells DEF OnlyRefunders
<1>d. ASSUME NEW h \in Handlers, NEW src, NEW e, NEW s, Start(h, src, e, s),
             e.kind = "refund" => h \in RefundHandlers
      PROVE  OnlyRefunders'
  <2>1. (\A k \in Handlers : k # h => job'[k] = job[k]) /\ job'[h].event = e
    BY <1>d DEF TypeOK, Start
  <2>2. QED
    BY <1>a, <1>d, <2>1
<1>1. ASSUME NEW h \in Handlers, Call(h)
      PROVE  OnlyRefunders'
  <2>1. \A i \in Invoices : PaidEvent(i).kind = "paid"
    BY DEF PaidEvent
  <2>2. QED
    BY <1>1, <1>d, <2>1 DEF Call, Deliver, Retry, LocalBooking
<1>2. ASSUME NEW h \in Handlers, HandlerStep(h), ~ReversalPrior(h)
      PROVE  OnlyRefunders'
  BY <1>2, <1>b, <1>c
     DEF HandlerStep, Place, AccrueLookup, AccrueCreate, AfterAccrual, LedgerLookup, GiveUp,
         LedgerCreate, LedgerReread, CreditLookup, CreditCreate, ReversalCredit, ReversalCreate,
         RefundLookup, RefundUpdate
<1>3. ASSUME NEW h \in Handlers, ReversalPrior(h)
      PROVE  OnlyRefunders'
  <2>1. ASSUME NEW d, job' = [job EXCEPT ![h].step = "reversalCreate", ![h].delta = d]
        PROVE  OnlyRefunders'
    <3>1. job[h] \in Jobs
      BY DEF TypeOK
    <3>2. /\ \A k \in Handlers : k # h => job'[k] = job[k]
          /\ job'[h].event = job[h].event
      BY <2>1, <3>1 DEF TypeOK, Jobs
    <3>3. QED
      BY <1>a, <3>2 DEF OnlyRefunders
  <2>2. QED
    BY <1>3, <1>c, <2>1 DEF ReversalPrior
<1>4. ASSUME NEW h \in Handlers, DbError(h) \/ Crash(h)
      PROVE  OnlyRefunders'
  BY <1>4, <1>b, <1>c DEF DbError, Crash, AfterAccrual, GiveUp
<1>5. CASE Stripe \/ (\E e \in parked : Dismiss(e)) \/ Payouts \/ UNCHANGED vars
  BY <1>5 DEF OnlyRefunders, Stripe, Pay, Refund, Dismiss, Payouts, PayoutCheck, PayoutCreate,
              vars
<1>6. QED
  BY <1>1, <1>2, <1>3, <1>4, <1>5 DEF Next

\* Only the entry writes to the sum.
LEMMA ReversedSteps ==
    ASSUME [Next]_vars
    PROVE  (\E h \in Handlers : ReversalCreate(h)) \/ reversed' = reversed
BY Zenon
   DEF Next, Stripe, Call, HandlerStep, Payouts, vars, Pay, Refund, Deliver, Retry, Dismiss,
       Place, LocalBooking, AccrueLookup, AccrueCreate, LedgerLookup, LedgerCreate,
       LedgerReread, CreditLookup, CreditCreate, ReversalCredit, ReversalPrior, RefundLookup,
       RefundUpdate, PayoutCheck, PayoutCreate, DbError, Crash, envVars, replyVars, tableVars,
       walletVars, faultVars

\* A handler gets to the entry from the sum it has just read, or is there.
LEMMA EntrySteps ==
    ASSUME TypeOK, [Next]_vars, NEW h \in Handlers, job'[h].step = "reversalCreate"
    PROVE  ReversalPrior(h) \/ job'[h] = job[h]
<1> USE DEF envVars, replyVars, tableVars, walletVars, faultVars
<1>b. ASSUME NEW k \in Handlers, Finish(k) \/ Leave(k) \/ Park(k)
      PROVE  job'[h] = job[h]
  <2>1. job' = [job EXCEPT ![k] = Idle]
    BY <1>b DEF Finish, Leave, Park
  <2>2. h # k
    BY <2>1 DEF TypeOK, Idle
  <2>3. QED
    BY <2>1, <2>2 DEF TypeOK
<1>c. ASSUME NEW k \in Handlers, NEW s, NEW n, Goto(k, s, n), s # "reversalCreate"
      PROVE  job'[h] = job[h]
  BY <1>c, GotoCells
<1>d. ASSUME NEW k \in Handlers, NEW src, NEW e, NEW s, Start(k, src, e, s),
             s # "reversalCreate"
      PROVE  job'[h] = job[h]
  BY <1>d DEF TypeOK, Start
<1>1. ASSUME NEW k \in Handlers, Call(k)
      PROVE  job'[h] = job[h]
  BY <1>1, <1>d DEF Call, Deliver, Retry, LocalBooking
<1>2. ASSUME NEW k \in Handlers, HandlerStep(k), ~ReversalPrior(k)
      PROVE  job'[h] = job[h]
  BY <1>2, <1>b, <1>c
     DEF HandlerStep, Place, AccrueLookup, AccrueCreate, AfterAccrual, LedgerLookup, GiveUp,
         LedgerCreate, LedgerReread, CreditLookup, CreditCreate, ReversalCredit, ReversalCreate,
         RefundLookup, RefundUpdate
<1>3. ASSUME NEW k \in Handlers, ReversalPrior(k), k # h
      PROVE  job'[h] = job[h]
  BY <1>3, <1>c DEF TypeOK, ReversalPrior
<1>4. ASSUME NEW k \in Handlers, DbError(k) \/ Crash(k)
      PROVE  job'[h] = job[h]
  BY <1>4, <1>b, <1>c DEF DbError, Crash, AfterAccrual, GiveUp
<1>5. CASE Stripe \/ (\E e \in parked : Dismiss(e)) \/ Payouts \/ UNCHANGED vars
  BY <1>5 DEF Stripe, Pay, Refund, Dismiss, Payouts, PayoutCheck, PayoutCreate, vars
<1>6. QED
  BY <1>1, <1>2, <1>3, <1>4, <1>5 DEF Next

LEMMA PendingShape ==
    ASSUME IInv, NEW i \in Invoices
    PROVE  /\ Pending(i) \in [RefundHandlers -> Nat]
           /\ \A h \in RefundHandlers : Pending(i)[h] <= credit[i]
<1>1. \A h \in RefundHandlers : job[h] \in Jobs /\ job[h].delta \in Nat
  BY LedgerAssumption DEF IInv, TypeOK, Jobs, LedgerAssumption
<1>2. ASSUME NEW h \in RefundHandlers, job[h].step = "reversalCreate", job[h].event.inv = i
      PROVE  job[h].delta <= credit[i]
  <2>1. h \in Handlers /\ HandlerOK(h) /\ job[h].amt \in Nat /\ credit[i] \in Nat
    BY <1>1, LedgerAssumption DEF IInv, TypeOK, HandlerInv, Jobs, LedgerAssumption
  <2>2. job[h].delta <= job[h].amt /\ job[h].amt <= credit[i]
    BY <1>2, <2>1 DEF HandlerOK
  <2>3. QED
    BY <1>1, <2>1, <2>2
<1>3. credit[i] \in Nat
  BY DEF IInv, TypeOK
<1>4. QED
  BY <1>1, <1>2, <1>3 DEF Pending

\* A factor times a larger number is larger.
LEMMA TimesGrows ==
    ASSUME NEW n \in Nat, NEW c \in Nat, NEW d \in Nat, c <= d
    PROVE  n * c \in Nat /\ n * c <= n * d
<1>1. d - c \in Nat /\ n * (d - c) \in Nat
  OBVIOUS
<1>2. n * d = n * c + n * (d - c)
  OBVIOUS
<1>3. n * c \in Nat
  OBVIOUS
<1>4. QED
  BY <1>1, <1>2, <1>3

LEMMA NextReversals ==
    IInv /\ StagesFit /\ OnlyRefunders /\ ReversalsFit /\ [Next]_vars => ReversalsFit'
<1> SUFFICES ASSUME IInv, StagesFit, OnlyRefunders, ReversalsFit, [Next]_vars,
                    NEW i \in Invoices
             PROVE  reversed'[i] + SumFunction(Pending(i)')
                        <= Cardinality(RefundHandlers) * credit'[i]
  BY DEF ReversalsFit
<1> DEFINE n == Cardinality(RefundHandlers)
           P == Pending(i)
           Q == [h \in RefundHandlers |->
                    IF job'[h].step = "reversalCreate" /\ job'[h].event.inv = i
                    THEN job'[h].delta ELSE 0]
<1>a. SUFFICES reversed'[i] + SumFunction(Q) <= n * credit'[i]
  <2>1. Pending(i)' = Q
    BY DEF Pending
  <2>2. QED
    BY <2>1
<1>0. TypeOK /\ HandlerInv /\ IInv' /\ IsFiniteSet(RefundHandlers) /\ RefundHandlers \subseteq Handlers
  BY NextType, NextHandlers, NextCredits, LedgerAssumption DEF IInv, LedgerAssumption
<1>1. \A h \in Handlers : job[h].step \in RefundStages => h \in RefundHandlers
  BY DEF StagesFit, OnlyRefunders
<1>2. /\ n \in Nat /\ reversed[i] \in Nat /\ credit[i] \in Nat /\ credit'[i] \in Nat
      /\ reversed[i] + SumFunction(P) <= n * credit[i]
      /\ reversed'[i] \in Nat
  BY <1>0, FS_CardinalityType DEF IInv, TypeOK, ReversalsFit
<1>3. P \in [RefundHandlers -> Nat] /\ \A h \in RefundHandlers : P[h] <= credit[i]
  BY PendingShape
<1>4. Q \in [RefundHandlers -> Nat]
  <2>1. \A h \in RefundHandlers : job'[h].delta \in Nat
    BY <1>0 DEF IInv, TypeOK, Jobs
  <2>2. QED
    BY <2>1
<1>5. SumFunction(P) \in Nat /\ SumFunction(Q) \in Nat
  BY <1>0, <1>3, <1>4, SumIsNat
<1>6. n * credit[i] \in Nat /\ n * credit[i] <= n * credit'[i]
  <2>1. credit[i] <= credit'[i]
    BY <1>2, TablesGrow
  <2>2. QED
    BY <1>2, <2>1, TimesGrows
<1>7. ASSUME NEW h \in Handlers, ReversalPrior(h), job[h].event.inv = i,
             job'[h].step = "reversalCreate"
      PROVE  reversed'[i] + SumFunction(Q) <= n * credit'[i]
  <2> DEFINE d == job[h].amt - reversed[i]
  <2>1. /\ job[h] \in Jobs /\ job[h].amt \in Nat /\ h \in RefundHandlers
        /\ job[h].amt <= credit[i]
    BY <1>0, <1>1, <1>7, RunningJob
       DEF TypeOK, ReversalPrior, RefundStages, HandlerInv, HandlerOK
  <2>2. reversed' = reversed /\ credit' = credit
    BY <1>7 DEF ReversalPrior, tableVars
  <2>3. ~Goto(h, "refundLookup", job[h].amt)
    BY <1>0, <1>7, GotoCells
  <2>4. job' = [job EXCEPT ![h].step = "reversalCreate", ![h].delta = d]
    BY <1>7, <2>3, Zenon DEF ReversalPrior
  <2>5. /\ \A k \in Handlers : k # h => job'[k] = job[k]
        /\ job'[h].event = job[h].event /\ job'[h].delta = d
    BY <1>0, <2>1, <2>4 DEF TypeOK, Jobs
  <2>6. P[h] = 0
    BY <1>7, <2>1 DEF Pending, ReversalPrior
  <2>7. Q[h] = d /\ \A k \in RefundHandlers : k # h => Q[k] = P[k]
    BY <1>0, <1>7, <2>1, <2>5 DEF Pending
  <2> HIDE DEF P, Q
  <2>8. SumFunction(Q) = SumFunction(P) - P[h] + Q[h]
    BY <1>0, <1>3, <1>4, <2>1, <2>7, SumOfChange
  <2>9. SumFunction(P) + credit[i] <= n * credit[i]
    BY <1>0, <1>2, <1>3, <2>1, <2>6, SumLeavesRoom
  <2>10. QED
    BY <1>2, <1>5, <1>6, <2>1, <2>2, <2>6, <2>7, <2>8, <2>9
<1>8. ASSUME NEW h \in Handlers, ReversalCreate(h), job[h].event.inv = i
      PROVE  reversed'[i] + SumFunction(Q) <= n * credit'[i]
  <2>1. h \in RefundHandlers /\ job[h].delta \in Nat /\ P[h] = job[h].delta
    BY <1>0, <1>1, <1>8, RunningJob DEF TypeOK, ReversalCreate, RefundStages, Pending
  <2>2. credit' = credit /\ reversed'[i] = reversed[i] + job[h].delta
    BY <1>0, <1>2, <1>8 DEF TypeOK, ReversalCreate
  <2>3. /\ \A k \in Handlers : k # h => job'[k] = job[k]
        /\ job'[h].step = "refundLookup"
    <3>1. Goto(h, "refundLookup", job[h].amt)
      BY <1>8 DEF ReversalCreate
    <3>2. QED
      BY <1>0, <3>1, GotoCells
  <2>4. Q[h] = 0 /\ \A k \in RefundHandlers : k # h => Q[k] = P[k]
    BY <1>0, <2>1, <2>3 DEF Pending
  <2> HIDE DEF P, Q
  <2>5. SumFunction(Q) = SumFunction(P) - P[h] + Q[h]
    BY <1>0, <1>3, <1>4, <2>1, <2>4, SumOfChange
  <2>6. QED
    BY <1>2, <1>5, <1>6, <2>1, <2>2, <2>4, <2>5
<1>9. CASE /\ ~\E h \in Handlers : ReversalPrior(h) /\ job[h].event.inv = i
                                   /\ job'[h].step = "reversalCreate"
           /\ ~\E h \in Handlers : ReversalCreate(h) /\ job[h].event.inv = i
  <2>1. reversed'[i] = reversed[i]
    <3>1. CASE reversed' = reversed
      BY <3>1
    <3>2. ASSUME NEW h \in Handlers, ReversalCreate(h)
          PROVE  reversed'[i] = reversed[i]
      BY <1>0, <1>9, <3>2 DEF TypeOK, ReversalCreate
    <3>3. QED
      BY <3>1, <3>2, ReversedSteps
  <2>2. ASSUME NEW h \in RefundHandlers
        PROVE  Q[h] <= P[h]
    <3>1. CASE ~(job'[h].step = "reversalCreate" /\ job'[h].event.inv = i)
      BY <1>3, <3>1
    <3>2. CASE job'[h].step = "reversalCreate" /\ job'[h].event.inv = i
      <4>1. CASE job'[h] = job[h]
        BY <1>3, <4>1 DEF Pending
      <4>2. CASE ReversalPrior(h)
        <5>1. job'[h].event = job[h].event
          <6>1. job[h] \in Jobs
            BY <1>0 DEF TypeOK
          <6>2. QED
            BY <1>0, <4>2, <6>1, GotoCells DEF TypeOK, Jobs, ReversalPrior
        <5>2. QED
          BY <1>0, <1>9, <3>2, <4>2, <5>1
      <4>3. QED
        BY <1>0, <3>2, <4>1, <4>2, EntrySteps
    <3>3. QED
      BY <3>1, <3>2
  <2> HIDE DEF P, Q
  <2>3. SumFunction(Q) <= SumFunction(P)
    BY <1>0, <1>3, <1>4, <2>2, SumIsMonotone
  <2>4. QED
    BY <1>2, <1>5, <1>6, <2>1, <2>3
<1>10. QED
  BY <1>7, <1>8, <1>9

--------------------------------------------------------------------------------
(* Payouts recorded together: what each admin may still write, in sum.     *)

Open == [a \in Admins |-> payout[a].amount]

\* A payout that has passed its check is within what the wallet was credited,
\* and there is room for one such payout of every admin.
PayoutsFit ==
    /\ \A a \in Admins : /\ payout[a].step = "idle" => payout[a].amount = 0
                         /\ payout[a].amount <= SumFunction(credit)
    /\ paidOut + SumFunction(Open) <= Cardinality(Admins) * SumFunction(credit)

\* What the brand was ever credited only grows.
LEMMA CreditsGrow ==
    ASSUME IInv, [Next]_vars
    PROVE  /\ SumFunction(credit) \in Nat
           /\ SumFunction(credit') \in Nat
           /\ SumFunction(credit) <= SumFunction(credit')
<1>1. /\ credit \in [Invoices -> Nat] /\ credit' \in [Invoices -> Nat]
      /\ IsFiniteSet(Invoices)
  BY NextType, LedgerAssumption DEF IInv, TypeOK, LedgerAssumption
<1>2. ASSUME NEW i \in Invoices
      PROVE  credit[i] <= credit'[i]
  <2>1. credit[i] > 0 => credit'[i] = credit[i]
    BY TablesGrow
  <2>2. credit[i] \in Nat /\ credit'[i] \in Nat
    BY <1>1
  <2>3. QED
    BY <2>1, <2>2
<1>3. QED
  BY <1>1, <1>2, SumIsNat, SumIsMonotone

LEMMA NextPayouts == IInv /\ PayoutsFit /\ [Next]_vars => PayoutsFit'
<1> SUFFICES ASSUME IInv, PayoutsFit, [Next]_vars
             PROVE  PayoutsFit'
  OBVIOUS
<1> DEFINE n == Cardinality(Admins)
           S == SumFunction(credit)
           Z == SumFunction(credit')
           P == Open
           Q == [a \in Admins |-> payout'[a].amount]
<1>1. S \in Nat /\ Z \in Nat /\ S <= Z
  BY CreditsGrow
<1>2. /\ paidOut \in Nat /\ paidOut' \in Nat
      /\ payout \in [Admins -> [step : {"idle", "create"}, amount : Nat]]
      /\ payout' \in [Admins -> [step : {"idle", "create"}, amount : Nat]]
      /\ reversed \in [Invoices -> Nat] /\ IsFiniteSet(Invoices)
      /\ IsFiniteSet(Admins) /\ n \in Nat
  BY NextType, LedgerAssumption, FS_CardinalityType DEF IInv, TypeOK, LedgerAssumption
<1>3. SumFunction(reversed) \in Nat
  BY <1>2, SumIsNat
<1>4. /\ \A a \in Admins : /\ payout[a].step = "idle" => payout[a].amount = 0
                           /\ payout[a].amount <= S
      /\ paidOut + SumFunction(P) <= n * S
  BY DEF PayoutsFit
<1>5. SUFFICES /\ \A a \in Admins : /\ payout'[a].step = "idle" => payout'[a].amount = 0
                                    /\ payout'[a].amount <= Z
               /\ paidOut' + SumFunction(Q) <= n * Z
  BY DEF PayoutsFit, Open
<1>6. P \in [Admins -> Nat] /\ Q \in [Admins -> Nat] /\ \A a \in Admins : P[a] <= S
  BY <1>2, <1>4 DEF Open
<1>7. SumFunction(P) \in Nat /\ SumFunction(Q) \in Nat
  BY <1>2, <1>6, SumIsNat
<1>8. n * S \in Nat /\ n * S <= n * Z
  BY <1>1, <1>2, TimesGrows
<1>9. CASE paidOut' = paidOut /\ payout' = payout
  <2>1. Q = P
    BY <1>9 DEF Open
  <2> HIDE DEF S, Z, P, Q
  <2>2. \A a \in Admins : payout[a].amount \in Nat
    BY <1>2
  <2>3. QED
    BY <1>1, <1>2, <1>4, <1>7, <1>8, <1>9, <2>1, <2>2
<1>10. ASSUME NEW a \in Admins, NEW amount \in PayoutSizes, PayoutCheck(a, amount)
       PROVE  /\ \A b \in Admins : /\ payout'[b].step = "idle" => payout'[b].amount = 0
                                   /\ payout'[b].amount <= Z
              /\ paidOut' + SumFunction(Q) <= n * Z
  <2>1. amount \in Nat /\ amount <= S - SumFunction(reversed) - paidOut
    BY <1>10, LedgerAssumption DEF PayoutCheck, WalletBalance, LedgerAssumption
  <2>2. /\ paidOut' = paidOut /\ credit' = credit
        /\ payout'[a] = [step |-> "create", amount |-> amount]
        /\ \A b \in Admins : b # a => payout'[b] = payout[b]
    BY <1>2, <1>10 DEF PayoutCheck, tableVars
  <2>3. P[a] = 0
    BY <1>4, <1>10 DEF PayoutCheck, Open
  <2>4. Q[a] = amount /\ \A b \in Admins : b # a => Q[b] = P[b]
    BY <2>2 DEF Open
  <2> HIDE DEF P, Q, S, Z
  <2>5. SumFunction(Q) = SumFunction(P) - P[a] + Q[a]
    BY <1>2, <1>6, <2>4, SumOfChange
  <2>6. SumFunction(P) + S <= n * S
    BY <1>1, <1>2, <1>6, <2>3, SumLeavesRoom
  <2>7. paidOut' + SumFunction(Q) <= n * Z
    BY <1>1, <1>2, <1>3, <1>7, <1>8, <2>1, <2>2, <2>3, <2>4, <2>5, <2>6
  <2>8. \A b \in Admins : payout[b].amount \in Nat /\ payout'[b].amount \in Nat
    BY <1>2
  <2>9. amount <= Z
    BY <1>1, <1>2, <1>3, <2>1
  <2>10. ASSUME NEW b \in Admins
         PROVE  /\ payout'[b].step = "idle" => payout'[b].amount = 0
                /\ payout'[b].amount <= Z
    <3>1. CASE b = a
      BY <2>2, <2>9, <3>1
    <3>2. CASE b # a
      BY <1>1, <1>4, <2>2, <2>8, <3>2
    <3>3. QED
      BY <3>1, <3>2
  <2>11. QED
    BY <2>7, <2>10
<1>11. ASSUME NEW a \in Admins, PayoutCreate(a)
       PROVE  /\ \A b \in Admins : /\ payout'[b].step = "idle" => payout'[b].amount = 0
                                   /\ payout'[b].amount <= Z
              /\ paidOut' + SumFunction(Q) <= n * Z
  <2>1. /\ paidOut' = paidOut + P[a]
        /\ payout'[a] = [step |-> "idle", amount |-> 0]
        /\ \A b \in Admins : b # a => payout'[b] = payout[b]
    BY <1>2, <1>11 DEF PayoutCreate, NoPayout, Open
  <2>2. Q[a] = 0 /\ \A b \in Admins : b # a => Q[b] = P[b]
    BY <2>1 DEF Open
  <2> HIDE DEF P, Q, S, Z
  <2>a. P[a] \in Nat
    BY <1>6
  <2>3. SumFunction(Q) = SumFunction(P) - P[a] + Q[a]
    BY <1>2, <1>6, <2>2, SumOfChange
  <2>4. paidOut' + SumFunction(Q) <= n * Z
    BY <1>1, <1>2, <1>4, <1>7, <1>8, <2>1, <2>a, <2>2, <2>3
  <2>5. \A b \in Admins : payout[b].amount \in Nat
    BY <1>2
  <2>6. ASSUME NEW b \in Admins
        PROVE  /\ payout'[b].step = "idle" => payout'[b].amount = 0
               /\ payout'[b].amount <= Z
    <3>1. CASE b = a
      BY <1>1, <2>1, <3>1
    <3>2. CASE b # a
      BY <1>1, <1>4, <2>1, <2>5, <3>2
    <3>3. QED
      BY <3>1, <3>2
  <2>7. QED
    BY <2>4, <2>6
<1>12. \/ \E a \in Admins : PayoutCreate(a) \/ \E amount \in PayoutSizes : PayoutCheck(a, amount)
       \/ paidOut' = paidOut /\ payout' = payout
  BY Zenon
     DEF Next, Stripe, Call, HandlerStep, Payouts, vars, Pay, Refund, Deliver, Retry, Dismiss,
         Place, LocalBooking, AccrueLookup, AccrueCreate, LedgerLookup, LedgerCreate,
         LedgerReread, CreditLookup, CreditCreate, ReversalCredit, ReversalPrior,
         ReversalCreate, RefundLookup, RefundUpdate, DbError, Crash, walletVars
<1> HIDE DEF n, S, Z, P, Q
<1>13. QED
  BY <1>9, <1>10, <1>11, <1>12, Zenon

--------------------------------------------------------------------------------
(* The theorems.                                                           *)

\* The invariant holds at the start and every step keeps it.
LEMMA Invariance == Spec => []IInv
<1>1. Init => IInv
  <2>1. Init => HandlerInv /\ CreditMatchesLedger
    BY LedgerAssumption
       DEF Init, HandlerInv, HandlerOK, CreditMatchesLedger, Idle, Unbooked, LedgerAssumption
  <2>2. QED
    BY <2>1, InitType DEF IInv
<1>2. IInv /\ [Next]_vars => IInv'
  BY NextType, NextHandlers, NextCredits DEF IInv
<1>3. QED
  BY <1>1, <1>2, PTL DEF Spec

\* Every table and every handler keeps its shape.
THEOREM TypeCorrect == Spec => []TypeOK
<1>1. IInv => TypeOK
  BY DEF IInv
<1>2. QED
  BY <1>1, Invariance, PTL

\* However many handlers book an invoice, and whatever fails under them, a
\* credit is the brand share of the invoice's one ledger row.
THEOREM CreditsMatchLedger == Spec => []CreditMatchesLedger
<1>1. IInv => CreditMatchesLedger
  BY DEF IInv
<1>2. QED
  BY <1>1, Invariance, PTL

\* Once a refund's handler has left the reversal stage, the reversals of the
\* invoice add up to at least the cumulative share it computed.
THEOREM RefundsAreCovered == Spec => []RefundIsCovered
<1>1. IInv => RefundIsCovered
  <2> SUFFICES ASSUME IInv, NEW h \in Handlers, job[h].step = "refundLookup"
               PROVE  reversed[job[h].event.inv] >= job[h].amt
    BY DEF RefundIsCovered
  <2>1. TypeOK /\ job[h].amt <= reversed[job[h].event.inv]
    BY DEF IInv, HandlerInv, HandlerOK
  <2>2. reversed[job[h].event.inv] \in Nat /\ job[h].amt \in Nat
    BY <2>1, RunningJob DEF TypeOK
  <2>3. QED
    BY <2>1, <2>2
<1>2. QED
  BY <1>1, Invariance, PTL

\* The handlers implement the invoice book: a booked share never changes, it
\* is credited at most once and in full, and only a credit is taken back.
THEOREM KeepsInvoiceBook == Spec => ImplementsInvoiceBook
<1>1. Init => Book!BookInit
  BY DEF Init, Book!BookInit, Unbooked, Book!Unbooked
<1>2. IInv /\ [Next]_vars => [Book!BookNext]_(Book!bookVars)
  BY NextBooks
<1>3. QED
  BY <1>1, <1>2, Invariance, PTL DEF Spec, ImplementsInvoiceBook, Book!BookSpec

\* Whatever fails under the handlers, and however often an event is parked,
\* retried or dismissed, a payment that is not settled is still owed by
\* Stripe, or parked, or was given up by a swallowed error.
THEOREM NoPaymentLost == Spec => []PaymentNotLost
<1>1. Init => StagesFit /\ PaymentNotLost
  BY DEF Init, StagesFit, PaymentNotLost, RefundStages, Idle
<1>2. IInv /\ IInv' /\ StagesFit /\ PaymentNotLost /\ [Next]_vars
          => StagesFit' /\ PaymentNotLost'
  BY NextStages, NextNotLost DEF IInv
<1>3. QED
  BY <1>1, <1>2, Invariance, PTL DEF Spec

\* However many charge.refunded handlers run together, and whatever is booked,
\* redelivered or dies under them, they never take back more than the credit
\* once per handler: a refund that runs alone finds what came before it, and
\* one that runs beside others misses at most what those are about to write.
THEOREM OverReversalBound == Spec => []OverReversalIsBounded
<1> DEFINE RefundInv == StagesFit /\ OnlyRefunders /\ ReversalsFit
<1>1. Init => RefundInv
  <2> SUFFICES ASSUME Init
               PROVE  RefundInv
    OBVIOUS
  <2>1. StagesFit /\ OnlyRefunders
    BY DEF Init, StagesFit, OnlyRefunders, RefundStages, Idle, NoEvent
  <2>2. ASSUME NEW i \in Invoices
        PROVE  reversed[i] + SumFunction(Pending(i)) <= Cardinality(RefundHandlers) * credit[i]
    <3>1. /\ IsFiniteSet(RefundHandlers) /\ RefundHandlers \subseteq Handlers
          /\ Cardinality(RefundHandlers) \in Nat
      BY LedgerAssumption, FS_CardinalityType DEF LedgerAssumption
    <3>2. Pending(i) \in [RefundHandlers -> Nat] /\ \A h \in RefundHandlers : Pending(i)[h] <= 0
      BY <3>1 DEF Init, Idle, Pending
    <3>3. reversed[i] = 0 /\ credit[i] = 0
      BY DEF Init
    <3>4. SumFunction(Pending(i)) <= Cardinality(RefundHandlers) * 0
          /\ SumFunction(Pending(i)) \in Nat
      BY <3>1, <3>2, SumIsBounded, SumIsNat
    <3>5. QED
      BY <3>1, <3>3, <3>4
  <2>3. QED
    BY <2>1, <2>2 DEF ReversalsFit
<1>2. IInv /\ RefundInv /\ [Next]_vars => RefundInv'
  BY NextStages, NextRefunders, NextReversals DEF IInv
<1>3. IInv /\ RefundInv => OverReversalIsBounded
  <2> SUFFICES ASSUME IInv, RefundInv, NEW i \in Invoices
               PROVE  reversed[i] <= Cardinality(RefundHandlers) * credit[i]
    BY DEF OverReversalIsBounded
  <2>1. /\ reversed[i] \in Nat /\ credit[i] \in Nat
        /\ IsFiniteSet(RefundHandlers) /\ Cardinality(RefundHandlers) \in Nat
    BY LedgerAssumption, FS_CardinalityType DEF IInv, TypeOK, LedgerAssumption
  <2>2. SumFunction(Pending(i)) \in Nat
    BY <2>1, PendingShape, SumIsNat
  <2>3. reversed[i] + SumFunction(Pending(i)) <= Cardinality(RefundHandlers) * credit[i]
    BY DEF ReversalsFit
  <2>4. Cardinality(RefundHandlers) * credit[i] \in Nat
    BY <2>1
  <2>5. QED
    BY <2>1, <2>2, <2>3, <2>4
<1> HIDE DEF RefundInv
<1>4. QED
  BY <1>1, <1>2, <1>3, Invariance, PTL DEF Spec

\* However many admins record payouts together, over any number of invoices
\* and whatever is booked, refunded or fails meanwhile, the wallet never pays
\* out more than it was ever credited once per admin: payouts overdraw it only
\* by those that were checked before they were written.
THEOREM OverdrawBound == Spec => []OverdrawIsBounded
<1>1. Init => PayoutsFit
  <2> SUFFICES ASSUME Init
               PROVE  PayoutsFit
    OBVIOUS
  <2>1. \A a \in Admins : payout[a].step = "idle" /\ payout[a].amount = 0
    BY DEF Init, NoPayout
  <2>2. /\ credit \in [Invoices -> Nat] /\ IsFiniteSet(Invoices) /\ IsFiniteSet(Admins)
        /\ Cardinality(Admins) \in Nat
    BY LedgerAssumption, FS_CardinalityType DEF Init, LedgerAssumption
  <2>3. SumFunction(credit) \in Nat
    BY <2>2, SumIsNat
  <2>4. Open \in [Admins -> Nat] /\ \A a \in Admins : Open[a] <= 0
    BY <2>1 DEF Open
  <2>5. SumFunction(Open) <= Cardinality(Admins) * 0 /\ SumFunction(Open) \in Nat
    BY <2>2, <2>4, SumIsBounded, SumIsNat
  <2>6. paidOut = 0 /\ Cardinality(Admins) * SumFunction(credit) \in Nat
    BY <2>2, <2>3 DEF Init
  <2>7. QED
    BY <2>1, <2>2, <2>3, <2>5, <2>6 DEF PayoutsFit
<1>2. IInv /\ PayoutsFit /\ [Next]_vars => PayoutsFit'
  BY NextPayouts
<1>3. IInv /\ PayoutsFit => OverdrawIsBounded
  <2> SUFFICES ASSUME IInv, PayoutsFit
               PROVE  OverdrawIsBounded
    OBVIOUS
  <2>1. /\ payout \in [Admins -> [step : {"idle", "create"}, amount : Nat]]
        /\ IsFiniteSet(Admins) /\ IsFiniteSet(Invoices) /\ paidOut \in Nat
        /\ credit \in [Invoices -> Nat] /\ Cardinality(Admins) \in Nat
    BY LedgerAssumption, FS_CardinalityType DEF IInv, TypeOK, LedgerAssumption
  <2>2. Open \in [Admins -> Nat]
    BY <2>1 DEF Open
  <2>3. SumFunction(Open) \in Nat /\ SumFunction(credit) \in Nat
    BY <2>1, <2>2, SumIsNat
  <2>4. Cardinality(Admins) * SumFunction(credit) \in Nat
    BY <2>1, <2>3
  <2>5. paidOut + SumFunction(Open) <= Cardinality(Admins) * SumFunction(credit)
    BY DEF PayoutsFit
  <2>6. QED
    BY <2>1, <2>3, <2>4, <2>5 DEF OverdrawIsBounded
<1>4. QED
  BY <1>1, <1>2, <1>3, Invariance, PTL DEF Spec

================================================================================
