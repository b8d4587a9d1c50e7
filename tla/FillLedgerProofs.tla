--------------------------- MODULE FillLedgerProofs ---------------------------
(***************************************************************************)
(* What the database makes of the executions, proved for any number of     *)
(* executions, instruments, orders, capital events and crashes, and for    *)
(* any quantities, prices and times the broker may send.                   *)
(*                                                                         *)
(* Inv is the invariant of the commissions.  BookInv relates the tables    *)
(* that update_fill_in_db writes one after the other: executions, lots,    *)
(* their consumption, positions and ledger.  FreshInv counts the reports   *)
(* an order still waits for, which is what refreshes the balance.          *)
(***************************************************************************)
EXTENDS FillLedger, SumLemmas

\* A row of the ledger never carries another commission than the broker's: the second
\* writer of a row meets ON CONFLICT DO NOTHING, so a wrong amount would stay.
CommissionRows ==
  \A r \in ledger : r.type = "COMMISSION" => r.amount = report[r.exec].commission

\* An execution handed to a process is stored, or its report is still to come, or lost.
NoneForgotten == 1..delivered \subseteq executions \cup inflight \cup lost

ReplayDelivered == toReplay \subseteq 1..delivered

CountersInv == delivered \in 0..N

Inv ==
  /\ CountersInv
  /\ ReplayDelivered
  /\ NoneForgotten
  /\ CommissionRows
  /\ CommissionAccounted

HasCommission(e, rows) ==
  \E r \in rows : r.exec = e /\ r.type = "COMMISSION" /\ r.amount = report[e].commission

-----------------------------------------------------------------------------
(***************************************************************************)
(* The ledger                                                              *)
(***************************************************************************)
\* What _build_ledger_entries says of a commission.
LEMMA EntriesOfCommission ==
  ASSUME NEW e, NEW commission, NEW rows
  PROVE  /\ \A n \in LedgerEntries(e, commission, rows) :
              n.exec = e /\ (n.type = "COMMISSION" => n.amount = commission /\ commission # 0)
         /\ commission # 0 =>
              [exec |-> e, type |-> "COMMISSION", amount |-> commission]
                \in LedgerEntries(e, commission, rows)
<1> DEFINE value == report[e].shares * report[e].price
           pnl == RealizedPnl(e, rows)
           entry(type, amount) == [exec |-> e, type |-> type, amount |-> amount]
           trade == IF Bought(e)
                    THEN {entry("TRADE_DEBIT", value)}
                    ELSE {entry("TRADE_CREDIT", value)}
                           \cup (IF pnl # 0 THEN {entry("REALIZED_PNL", pnl)} ELSE {})
           fee == IF commission # 0 THEN {entry("COMMISSION", commission)} ELSE {}
<1>1. LedgerEntries(e, commission, rows) = trade \cup fee
  BY DEF LedgerEntries
<1>2. \A n \in trade : n.exec = e /\ n.type # "COMMISSION"
  OBVIOUS
<1>3. /\ \A n \in fee : n.exec = e /\ n.amount = commission /\ commission # 0
      /\ commission # 0 => entry("COMMISSION", commission) \in fee
  OBVIOUS
<1> HIDE DEF trade, fee
<1> QED
  BY <1>1, <1>2, <1>3

\* A commission given to update_portfolio_ledger is in the ledger afterwards; a ledger with
\* the broker's commissions only keeps that and loses no row.
LEMMA LedgerKeepsCommissions ==
  ASSUME CommissionRows, NEW e, NEW commission \in {0, report[e].commission}, NEW rows,
         UNCHANGED report,
         UpdatePortfolioLedger(LedgerEntries(e, commission, rows))
  PROVE  /\ CommissionRows'
         /\ ledger \subseteq ledger'
         /\ commission # 0 => HasCommission(e, ledger')
<1> DEFINE new == LedgerEntries(e, commission, rows)
           row == [exec |-> e, type |-> "COMMISSION", amount |-> commission]
<1>0. /\ \A n \in LedgerEntries(e, commission, rows) :
           n.exec = e /\ (n.type = "COMMISSION" => n.amount = commission /\ commission # 0)
      /\ commission # 0 =>
           [exec |-> e, type |-> "COMMISSION", amount |-> commission]
             \in LedgerEntries(e, commission, rows)
  BY EntriesOfCommission, Zenon
<1>1. \A n \in new :
        n.exec = e /\ (n.type = "COMMISSION" => n.amount = commission /\ commission # 0)
  BY <1>0
<1>2. commission # 0 => row \in new
  BY <1>0
<1> HIDE DEF new
<1>3. ledger' = ledger \cup {n \in new : ~ \E r \in ledger : r.exec = n.exec /\ r.type = n.type}
  BY DEF UpdatePortfolioLedger, new
<1>4. CommissionRows'
  <2> SUFFICES ASSUME NEW r \in ledger', r.type = "COMMISSION"
               PROVE  r.amount = report[r.exec].commission
    BY DEF CommissionRows
  <2>1. CASE r \in ledger
    BY <2>1 DEF CommissionRows
  <2>2. CASE r \in new
    BY <1>1, <2>2
  <2> QED BY <1>3, <2>1, <2>2
<1>5. ASSUME commission # 0 PROVE HasCommission(e, ledger')
  <2>1. row.exec = e /\ row.type = "COMMISSION" /\ row.amount = report[e].commission
    BY <1>5
  <2>2. CASE \E r \in ledger : r.exec = row.exec /\ r.type = row.type
    <3> PICK r \in ledger : r.exec = row.exec /\ r.type = row.type
      BY <2>2
    <3>1. r.amount = report[e].commission
      BY <2>1 DEF CommissionRows
    <3> QED BY <3>1, <2>1, <1>3 DEF HasCommission
  <2>3. CASE ~ \E r \in ledger : r.exec = row.exec /\ r.type = row.type
    <3>1. row \in ledger'
      BY <1>2, <1>3, <1>5, <2>3
    <3> QED BY <3>1, <2>1 DEF HasCommission
  <2> QED BY <2>2, <2>3
<1> QED BY <1>3, <1>4, <1>5

\* What an offered execution leaves in the books.
LEMMA OfferKeepsBooks ==
  ASSUME CommissionRows, NEW e, NEW commission \in {0, report[e].commission},
         UNCHANGED report, OfferFill(e, commission)
  PROVE  /\ CommissionRows'
         /\ ledger \subseteq ledger'
         /\ executions \subseteq executions' /\ executions' \subseteq executions \cup {e}
         /\ commission # 0 /\ e \notin executions /\ e \in executions'
              => HasCommission(e, ledger')
<1>1. CASE UNCHANGED books
  BY <1>1 DEF books, CommissionRows
<1>2. CASE UpdateFill(e, commission)
  <2>1. UpdatePortfolioLedger(LedgerEntries(e, commission, consumption'))
    BY <1>2 DEF UpdateFill
  <2>2. executions' = executions \cup {e}
    BY <1>2 DEF UpdateFill
  <2> QED BY <2>1, <2>2, LedgerKeepsCommissions
<1> QED BY <1>1, <1>2 DEF OfferFill, RolledBack

-----------------------------------------------------------------------------
(***************************************************************************)
(* The actions                                                             *)
(***************************************************************************)
LEMMA InitInv == Init => Inv
BY LedgerAssumption
   DEF Init, Inv, CountersInv, ReplayDelivered, NoneForgotten, CommissionRows,
       CommissionAccounted

LEMMA OnFillKeeps == ASSUME Inv, OnFill PROVE Inv'
<1> DEFINE e == delivered + 1
<1>1. /\ delivered < N /\ delivered' = e /\ inflight' = inflight \cup {e}
      /\ OfferFill(e, 0) /\ toReplay = {}
      /\ UNCHANGED <<report, toReplay, lost>>
  BY DEF OnFill
<1> DEFINE offered == e
<1> HIDE DEF offered
<1>2. /\ CommissionRows' /\ ledger \subseteq ledger'
      /\ executions \subseteq executions' /\ executions' \subseteq executions \cup {offered}
  BY <1>1, OfferKeepsBooks DEF Inv, offered
<1>3. CountersInv' /\ ReplayDelivered'
  BY <1>1, LedgerAssumption DEF Inv, CountersInv, ReplayDelivered
<1>4. NoneForgotten'
  BY <1>1, <1>2, LedgerAssumption DEF Inv, CountersInv, NoneForgotten, offered
<1>5. CommissionAccounted'
  BY <1>1, <1>2 DEF Inv, CommissionAccounted, offered
<1> QED BY <1>2, <1>3, <1>4, <1>5 DEF Inv

LEMMA OnCommissionKeeps ==
  ASSUME Inv, NEW e \in Execs, OnCommission(e) PROVE Inv'
<1>1. /\ inflight' = inflight \ {e} /\ toReplay = {}
      /\ UNCHANGED <<report, delivered, toReplay, executions>>
  BY DEF OnCommission
<1>2. CountersInv' /\ ReplayDelivered'
  BY <1>1 DEF Inv, CountersInv, ReplayDelivered
<1>3. CASE e \in executions
  <2>1. /\ lost' = lost
        /\ UpdatePortfolioLedger(LedgerEntries(e, report[e].commission, consumption))
    BY <1>3 DEF OnCommission
  <2>2. /\ CommissionRows' /\ ledger \subseteq ledger'
        /\ report[e].commission # 0 => HasCommission(e, ledger')
    BY <1>1, <2>1, LedgerKeepsCommissions DEF Inv
  <2>3. NoneForgotten'
    BY <1>1, <1>3, <2>1 DEF Inv, NoneForgotten
  <2>4. CommissionAccounted'
    BY <1>1, <2>1, <2>2 DEF Inv, CommissionAccounted, HasCommission
  <2> QED BY <1>2, <2>2, <2>3, <2>4 DEF Inv
<1>4. CASE e \notin executions
  <2>1. lost' = lost \cup {e} /\ ledger' = ledger
    BY <1>4 DEF OnCommission
  <2> QED BY <1>1, <1>2, <1>4, <2>1
          DEF Inv, NoneForgotten, CommissionRows, CommissionAccounted
<1> QED BY <1>3, <1>4

LEMMA RestartKeeps ==
  ASSUME Inv, NEW e \in delivered..N, NEW unsent, Restart(e, unsent) PROVE Inv'
<1>1. /\ delivered' = e /\ toReplay' = 1..e /\ inflight' = {}
      /\ lost' = lost \cup inflight \cup (delivered + 1)..e
      /\ UNCHANGED <<report, executions, ledger>>
  BY DEF Restart, books
<1>2. CountersInv' /\ ReplayDelivered'
  BY <1>1, LedgerAssumption DEF Inv, CountersInv, ReplayDelivered
<1>3. NoneForgotten'
  BY <1>1, LedgerAssumption DEF Inv, CountersInv, NoneForgotten
<1>4. CommissionRows'
  BY <1>1 DEF Inv, CommissionRows
<1>5. CommissionAccounted'
  BY <1>1 DEF Inv, CommissionAccounted
<1> QED BY <1>2, <1>3, <1>4, <1>5 DEF Inv

LEMMA ReplayFillKeeps ==
  ASSUME Inv, NEW e \in Execs, NEW commission \in {0, report[e].commission},
         ReplayFill(e, commission)
  PROVE  Inv'
<1>1. /\ e \in toReplay /\ toReplay' \subseteq toReplay
      /\ OfferFill(e, commission)
      /\ UNCHANGED <<report, delivered, inflight, lost>>
  BY DEF ReplayFill
<1>2. /\ CommissionRows' /\ ledger \subseteq ledger'
      /\ executions \subseteq executions' /\ executions' \subseteq executions \cup {e}
  BY <1>1, OfferKeepsBooks DEF Inv
<1>3. CountersInv' /\ ReplayDelivered'
  BY <1>1 DEF Inv, CountersInv, ReplayDelivered
<1>4. NoneForgotten'
  BY <1>1, <1>2 DEF Inv, NoneForgotten
<1>5. e \in executions \cup inflight \cup lost
  BY <1>1 DEF Inv, ReplayDelivered, NoneForgotten
<1>6. CommissionAccounted'
  BY <1>1, <1>2, <1>5 DEF Inv, CommissionAccounted
<1> QED BY <1>2, <1>3, <1>4, <1>6 DEF Inv

LEMMA NextKeeps == Inv /\ [Next]_vars => Inv'
<1> SUFFICES ASSUME Inv, [Next]_vars PROVE Inv'
  OBVIOUS
<1>1. CASE OnFill
  BY <1>1, OnFillKeeps
<1>2. CASE \E e \in Execs : OnCommission(e)
  BY <1>2, OnCommissionKeeps
<1>3. CASE \E e \in delivered..N : \E unsent \in SUBSET Unsent(e) : Restart(e, unsent)
  BY <1>3, RestartKeeps
<1>4. CASE \E e \in Execs : \E commission \in {0, report[e].commission} :
             ReplayFill(e, commission)
  BY <1>4, ReplayFillKeeps
<1>5. CASE \E amount \in Capital : RegisterCapitalEvent(amount)
  BY <1>5 DEF RegisterCapitalEvent, wire, books, Inv, CountersInv, ReplayDelivered,
              NoneForgotten, CommissionRows, CommissionAccounted
<1>6. CASE UNCHANGED vars
  BY <1>6 DEF vars, wire, books, Inv, CountersInv, ReplayDelivered, NoneForgotten,
              CommissionRows, CommissionAccounted
<1> QED BY <1>1, <1>2, <1>3, <1>4, <1>5, <1>6 DEF Next

\* The ledger holds the commission of every stored execution, unless its report is still to
\* come or met no process or no row.
THEOREM CommissionsAreKept == Spec => []CommissionAccounted
<1>1. Inv => CommissionAccounted
  BY DEF Inv
<1> QED BY <1>1, InitInv, NextKeeps, PTL DEF Spec

\* No row of the ledger carries a commission that is not the broker's.
THEOREM CommissionsAreTrue == Spec => []CommissionRows
<1>1. Inv => CommissionRows
  BY DEF Inv
<1> QED BY <1>1, InitInv, NextKeeps, PTL DEF Spec

-----------------------------------------------------------------------------
(***************************************************************************)
(* First in, first out                                                     *)
(***************************************************************************)
Below(L, i) == {j \in L : j < i}

LEMMA BelowSteps ==
  ASSUME NEW L \in SUBSET Nat, IsFiniteSet(L)
  PROVE  /\ Below(L, 0) = {}
         /\ \A i \in Nat : IsFiniteSet(Below(L, i)) /\ Below(L, i) \subseteq L
         /\ \A i \in L : Below(L, i + 1) = Below(L, i) \cup {i} /\ i \notin Below(L, i)
         /\ \A i \in Nat \ L : Below(L, i + 1) = Below(L, i)
         /\ \E i \in Nat : Below(L, i) = L
<1>0. \A j \in L : j \in Nat
  OBVIOUS
<1>1. Below(L, 0) = {}
  <2>1. \A j \in L : ~ (j < 0)
    BY <1>0
  <2> QED BY <2>1 DEF Below
<1>2. \A i \in Nat : Below(L, i) \subseteq L
  BY DEF Below
<1>3. \A i \in Nat : IsFiniteSet(Below(L, i))
  BY <1>2, FS_Subset
<1>4. ASSUME NEW i \in L PROVE Below(L, i + 1) = Below(L, i) \cup {i} /\ i \notin Below(L, i)
  <2>1. \A j \in L : (j < i + 1 <=> j < i \/ j = i) /\ ~ (i < i)
    BY <1>0, <1>4
  <2> QED BY <1>4, <2>1 DEF Below
<1>5. ASSUME NEW i \in Nat \ L PROVE Below(L, i + 1) = Below(L, i)
  <2>1. \A j \in L : j < i + 1 <=> j < i
    BY <1>0, <1>5
  <2> QED BY <1>5, <2>1 DEF Below
<1>6. \E i \in Nat : Below(L, i) = L
  <2> DEFINE E == {T \in SUBSET L : \E n \in Nat : \A i \in T : i < n}
  <2>1. {} \in E
    <3>1. 0 \in Nat /\ \A i \in {} : i < 0
      OBVIOUS
    <3> QED BY <3>1
  <2>2. ASSUME NEW T \in SUBSET L, NEW x \in T, T \ {x} \in E PROVE T \in E
    <3>1. PICK n \in Nat : \A i \in T \ {x} : i < n
      BY <2>2
    <3>2. x \in Nat /\ T \subseteq Nat
      OBVIOUS
    <3>3. ASSUME NEW i \in T PROVE i < n + x + 1
      <4>1. CASE i = x
        BY <3>2, <4>1
      <4>2. CASE i # x
        <5>1. i < n /\ i \in Nat
          BY <3>1, <3>2, <4>2
        <5> QED BY <3>2, <5>1
      <4> QED BY <4>1, <4>2
    <3>4. n + x + 1 \in Nat
      BY <3>2
    <3> QED BY <3>3, <3>4
  <2>3. L \in E
    <3> HIDE DEF E
    <3> QED BY <2>1, <2>2, SubsetInduction
  <2>4. PICK n \in Nat : \A i \in L : i < n
    BY <2>3
  <2> QED BY <2>4 DEF Below
<1> QED BY <1>1, <1>2, <1>3, <1>4, <1>5, <1>6

\* Whatever is taken from lots in order, each giving what is still wanted, adds up to what
\* is wanted, or to all there is: _handle_sell takes no share too many and none too few.
LEMMA FirstInFirstOut ==
  ASSUME NEW L \in SUBSET Nat, IsFiniteSet(L), NEW open, NEW taken, NEW q \in Nat,
         \A i \in L : /\ open[i] \in Nat
                      /\ taken[i] = AtMost(open[i],
                           Above(q - SumFunctionOnSet(open, Below(L, i)), 0))
  PROVE  /\ \A i \in L : taken[i] \in Nat /\ taken[i] <= open[i]
         /\ SumFunctionOnSet(taken, L) = AtMost(q, SumFunctionOnSet(open, L))
<1> DEFINE Opened(i) == SumFunctionOnSet(open, Below(L, i))
           Taken(i) == SumFunctionOnSet(taken, Below(L, i))
           D == {n \in Nat : Taken(n) = AtMost(q, Opened(n))}
<1>1. \A i \in Nat : Opened(i) \in Nat
  <2> SUFFICES ASSUME NEW i \in Nat PROVE Opened(i) \in Nat
    OBVIOUS
  <2>1. IsFiniteSet(Below(L, i)) /\ \A j \in Below(L, i) : open[j] \in Nat
    BY BelowSteps
  <2> QED BY <2>1, SumNat
<1>2. \A i \in L : taken[i] = AtMost(open[i], Above(q - Opened(i), 0)) /\ open[i] \in Nat
  OBVIOUS
<1>3. \A i \in L : taken[i] \in Nat /\ taken[i] <= open[i]
  <2> HIDE DEF Opened
  <2> SUFFICES ASSUME NEW i \in L PROVE taken[i] \in Nat /\ taken[i] <= open[i]
    OBVIOUS
  <2>1. Opened(i) \in Nat /\ open[i] \in Nat
    BY <1>1, <1>2
  <2>2. taken[i] = AtMost(open[i], Above(q - Opened(i), 0))
    BY <1>2
  <2> QED BY <2>1, <2>2 DEF AtMost, Above
<1>4. 0 \in D
  <2>1. Taken(0) = 0 /\ Opened(0) = 0
    BY BelowSteps, SumEmpty
  <2> HIDE DEF Taken, Opened
  <2>2. AtMost(q, 0) = 0
    BY DEF AtMost
  <2> QED BY <2>1, <2>2
<1>5. ASSUME NEW n \in Nat, n \in D PROVE n + 1 \in D
  <2>1. Taken(n) = AtMost(q, Opened(n)) /\ Opened(n) \in Nat
    BY <1>1, <1>5
  <2>2. CASE n \in L
    <3>1. Below(L, n + 1) = Below(L, n) \cup {n} /\ n \notin Below(L, n)
      BY <2>2, BelowSteps
    <3>2. IsFiniteSet(Below(L, n)) /\ Below(L, n) \subseteq L
      BY BelowSteps
    <3>3. \A j \in Below(L, n) \cup {n} : open[j] \in Int /\ taken[j] \in Int
      <4>1. \A j \in L : open[j] \in Int /\ taken[j] \in Int
        BY <1>3
      <4> QED BY <2>2, <3>2, <4>1
    <3>4. Opened(n + 1) = open[n] + Opened(n)
      BY <3>1, <3>2, <3>3, SumAdd
    <3>5. Taken(n + 1) = taken[n] + Taken(n)
      BY <3>1, <3>2, <3>3, SumAdd
    <3> HIDE DEF Taken, Opened
    <3>6. open[n] \in Nat /\ taken[n] = AtMost(open[n], Above(q - Opened(n), 0))
      BY <1>2, <2>2
    <3>7. Taken(n + 1) = AtMost(q, Opened(n + 1))
      BY <2>1, <3>4, <3>5, <3>6 DEF AtMost, Above
    <3> QED BY <3>7
  <2>3. CASE n \notin L
    <3>1. Below(L, n + 1) = Below(L, n)
      BY <2>3, BelowSteps
    <3>2. Taken(n + 1) = AtMost(q, Opened(n + 1))
      BY <2>1, <3>1
    <3> QED BY <3>2
  <2> QED BY <2>2, <2>3
<1>6. Nat \subseteq D
  <2> HIDE DEF D
  <2> QED BY <1>4, <1>5, NaturalInduction
<1>7. PICK n \in Nat : Below(L, n) = L
  BY BelowSteps
<1>8. Taken(n) = AtMost(q, Opened(n))
  BY <1>6
<1>9. SumFunctionOnSet(taken, L) = AtMost(q, SumFunctionOnSet(open, L))
  BY <1>7, <1>8
<1> QED BY <1>3, <1>9

-----------------------------------------------------------------------------
(***************************************************************************)
(* The sums over the tables                                                *)
(***************************************************************************)
Typed == TypeOK /\ IsFiniteSet(consumption) /\ IsFiniteSet(ledger)

SignedOf == [e \in Execs |-> Signed(e)]
OpenOf == [i \in DOMAIN lots |-> lots[i].open]

LEMMA ReportTypes ==
  TypeOK => \A e \in Execs :
    /\ report[e] \in Fill
    /\ report[e].order \in Orders /\ Con(e) \in Cons
    /\ report[e].shares \in Nat /\ report[e].price \in Nat /\ report[e].commission \in Nat
    /\ report[e].time \in Nat /\ report[e].rank \in Nat
    /\ Signed(e) \in Int
    /\ Bought(e) => Signed(e) = report[e].shares
    /\ ~Bought(e) => Signed(e) = - report[e].shares
<1> SUFFICES ASSUME TypeOK, NEW e \in Execs
             PROVE  /\ report[e] \in Fill
                    /\ report[e].order \in Orders /\ Con(e) \in Cons
                    /\ report[e].shares \in Nat /\ report[e].price \in Nat
                    /\ report[e].commission \in Nat
                    /\ report[e].time \in Nat /\ report[e].rank \in Nat
                    /\ Signed(e) \in Int
                    /\ Bought(e) => Signed(e) = report[e].shares
                    /\ ~Bought(e) => Signed(e) = - report[e].shares
  OBVIOUS
<1>1. report[e] \in Fill
  BY LedgerAssumption DEF TypeOK
<1> QED BY <1>1 DEF Fill, Con, Signed, Bought

LEMMA ExecsFinite == \A S \in SUBSET Execs : IsFiniteSet(S)
<1>1. IsFiniteSet(Execs)
  BY LedgerAssumption, FS_Interval DEF Execs
<1> QED BY <1>1, FS_Subset

\* The net quantity of executions.
LEMMA NetIsSum ==
  TypeOK => \A S \in SUBSET Execs : /\ Net(S) = SumFunctionOnSet(SignedOf, S)
                                    /\ Net(S) \in Int
<1> SUFFICES ASSUME TypeOK, NEW S \in SUBSET Execs
             PROVE  Net(S) = SumFunctionOnSet(SignedOf, S) /\ Net(S) \in Int
  OBVIOUS
<1> DEFINE g == [e \in S |-> Signed(e)]
<1>1. IsFiniteSet(S)
  BY ExecsFinite
<1>2. DOMAIN g = S /\ \A e \in S : SignedOf[e] \in Int /\ g[e] = SignedOf[e]
  BY ReportTypes DEF SignedOf
<1>3. Net(S) = SumFunction(g)
  BY DEF Net
<1> HIDE DEF g
<1>4. SumFunction(g) = SumFunctionOnSet(SignedOf, S) /\ SumFunctionOnSet(SignedOf, S) \in Int
  BY <1>1, <1>2, SumRestricted, SumType
<1> QED BY <1>3, <1>4

LEMMA NetAdds ==
  TypeOK => \A S \in SUBSET Execs : \A e \in Execs \ S : Net(S \cup {e}) = Signed(e) + Net(S)
<1> SUFFICES ASSUME TypeOK, NEW S \in SUBSET Execs, NEW e \in Execs \ S
             PROVE  Net(S \cup {e}) = Signed(e) + Net(S)
  OBVIOUS
<1>1. S \cup {e} \in SUBSET Execs /\ IsFiniteSet(S)
  BY ExecsFinite
<1>2. /\ Net(S) = SumFunctionOnSet(SignedOf, S)
      /\ Net(S \cup {e}) = SumFunctionOnSet(SignedOf, S \cup {e})
  BY <1>1, NetIsSum
<1>3. \A d \in S \cup {e} : SignedOf[d] \in Int
  BY <1>1, ReportTypes DEF SignedOf
<1>4. SignedOf[e] = Signed(e)
  BY DEF SignedOf
<1> QED BY <1>1, <1>2, <1>3, <1>4, SumAdd

Lot == [exec : Execs, open : Nat, closed : Nat]

LotFacts ==
  /\ DOMAIN lots = 1..Len(lots) /\ Len(lots) \in Nat
  /\ \A i \in DOMAIN lots : /\ lots[i].exec \in Execs
                            /\ lots[i].open \in Nat /\ lots[i].closed \in Nat
                            /\ OpenOf[i] = lots[i].open

LEMMA LotTypes == TypeOK => LotFacts
<1> SUFFICES ASSUME TypeOK PROVE LotFacts
  OBVIOUS
<1>1. lots \in Seq(Lot)
  BY DEF TypeOK, Lot
<1>2. \A i \in DOMAIN lots : lots[i] \in Lot
  <2> QED BY <1>1
<1>3. DOMAIN lots = 1..Len(lots) /\ Len(lots) \in Nat
  <2> QED BY <1>1
<1> QED BY <1>2, <1>3 DEF OpenOf, LotFacts, Lot

\* The open lots of an instrument.
OpenFacts ==
  \A c : /\ LotsOf(c) \in SUBSET Nat /\ LotsOf(c) \subseteq DOMAIN lots
         /\ IsFiniteSet(LotsOf(c))
         /\ OpenQuantity(c) = SumFunctionOnSet(OpenOf, LotsOf(c))
         /\ OpenQuantity(c) \in Nat
         /\ \A i \in Nat : /\ OpenBefore(c, i) = SumFunctionOnSet(OpenOf, Below(LotsOf(c), i))
                           /\ OpenBefore(c, i) \in Nat

LEMMA OpenIsSum == TypeOK => OpenFacts
<1> SUFFICES ASSUME TypeOK, NEW c
    PROVE  /\ LotsOf(c) \in SUBSET Nat /\ LotsOf(c) \subseteq DOMAIN lots
           /\ IsFiniteSet(LotsOf(c))
           /\ OpenQuantity(c) = SumFunctionOnSet(OpenOf, LotsOf(c))
           /\ OpenQuantity(c) \in Nat
           /\ \A i \in Nat :
                /\ OpenBefore(c, i) = SumFunctionOnSet(OpenOf, Below(LotsOf(c), i))
                /\ OpenBefore(c, i) \in Nat
  BY DEF OpenFacts
<1> DEFINE L == LotsOf(c)
<1>1. L \subseteq DOMAIN lots /\ DOMAIN lots = 1..Len(lots) /\ Len(lots) \in Nat
  BY LotTypes DEF LotsOf, LotFacts
<1>2. L \in SUBSET Nat
  BY <1>1
<1>3. IsFiniteSet(L)
  <2>1. IsFiniteSet(1..Len(lots))
    BY <1>1, FS_Interval
  <2> QED BY <1>1, <2>1, FS_Subset
<1>4. \A j \in L : OpenOf[j] \in Nat /\ OpenOf[j] = lots[j].open
  BY <1>1, LotTypes DEF LotFacts
<1>5. ASSUME NEW S \in SUBSET L
      PROVE  /\ SumFunction([j \in S |-> lots[j].open]) = SumFunctionOnSet(OpenOf, S)
             /\ SumFunctionOnSet(OpenOf, S) \in Nat
  <2> DEFINE g == [j \in S |-> lots[j].open]
  <2>1. IsFiniteSet(S) /\ \A j \in S : OpenOf[j] \in Nat
    BY <1>3, <1>4, <1>5, FS_Subset
  <2>2. DOMAIN g = S /\ \A j \in S : OpenOf[j] \in Int /\ g[j] = OpenOf[j]
    BY <1>4, <2>1
  <2> HIDE DEF g
  <2>3. SumFunction(g) = SumFunctionOnSet(OpenOf, S)
    BY <2>1, <2>2, SumRestricted
  <2>4. SumFunctionOnSet(OpenOf, S) \in Nat
    BY <2>1, SumNat
  <2> QED BY <2>3, <2>4 DEF g
<1>6. OpenQuantity(c) = SumFunctionOnSet(OpenOf, L) /\ OpenQuantity(c) \in Nat
  BY <1>5 DEF OpenQuantity
<1>7. ASSUME NEW i \in Nat
      PROVE  /\ OpenBefore(c, i) = SumFunctionOnSet(OpenOf, Below(L, i))
             /\ OpenBefore(c, i) \in Nat
  <2>1. Below(L, i) \in SUBSET L
    BY DEF Below
  <2> QED BY <1>5, <2>1 DEF OpenBefore, Below
<1> QED BY <1>1, <1>2, <1>3, <1>6, <1>7

\* What a sale takes from the lots.
LEMMA ConsumedFacts ==
  TypeOK => \A e \in Execs :
    /\ \A i \in DOMAIN lots : /\ Consumed(e, i) \in Nat /\ Consumed(e, i) <= lots[i].open
                              /\ i \notin LotsOf(Con(e)) => Consumed(e, i) = 0
    /\ report[e].shares <= OpenQuantity(Con(e))
         => SumFunctionOnSet([i \in DOMAIN lots |-> Consumed(e, i)], LotsOf(Con(e)))
              = report[e].shares
<1> SUFFICES ASSUME TypeOK, NEW e \in Execs
    PROVE  /\ \A i \in DOMAIN lots :
                /\ Consumed(e, i) \in Nat /\ Consumed(e, i) <= lots[i].open
                /\ i \notin LotsOf(Con(e)) => Consumed(e, i) = 0
           /\ report[e].shares <= OpenQuantity(Con(e))
                => SumFunctionOnSet([i \in DOMAIN lots |-> Consumed(e, i)], LotsOf(Con(e)))
                     = report[e].shares
  OBVIOUS
<1> DEFINE L == LotsOf(Con(e))
           taken == [i \in DOMAIN lots |-> Consumed(e, i)]
           q == report[e].shares
<1>1. /\ L \in SUBSET Nat /\ L \subseteq DOMAIN lots /\ IsFiniteSet(L)
      /\ OpenQuantity(Con(e)) = SumFunctionOnSet(OpenOf, L)
      /\ \A i \in Nat : OpenBefore(Con(e), i) = SumFunctionOnSet(OpenOf, Below(L, i))
  BY OpenIsSum DEF OpenFacts
<1>2. q \in Nat
  BY ReportTypes
<1>3. \A i \in DOMAIN lots : OpenOf[i] \in Nat /\ OpenOf[i] = lots[i].open
  BY LotTypes DEF LotFacts
<1>4. \A i \in L : taken[i] = AtMost(OpenOf[i], Above(q - OpenBefore(Con(e), i), 0))
  BY <1>1, <1>3 DEF Consumed
<1>5. \A i \in L : i \in Nat
  BY <1>1
<1>6. \A i \in L : /\ OpenOf[i] \in Nat
                   /\ taken[i] = AtMost(OpenOf[i],
                        Above(q - SumFunctionOnSet(OpenOf, Below(L, i)), 0))
  BY <1>1, <1>3, <1>4, <1>5
<1>7. \A i \in DOMAIN lots : taken[i] = Consumed(e, i)
  OBVIOUS
<1>8. \A i \in DOMAIN lots : i \notin L => Consumed(e, i) = 0
  BY DEF Consumed
<1> HIDE DEF taken, L, q
<1>9. /\ \A i \in L : taken[i] \in Nat /\ taken[i] <= OpenOf[i]
      /\ SumFunctionOnSet(taken, L) = AtMost(q, SumFunctionOnSet(OpenOf, L))
  BY <1>1, <1>2, <1>6, FirstInFirstOut
<1>10. ASSUME NEW i \in DOMAIN lots
       PROVE  Consumed(e, i) \in Nat /\ Consumed(e, i) <= lots[i].open
  BY <1>3, <1>7, <1>8, <1>9
<1>11. ASSUME q <= OpenQuantity(Con(e)) PROVE SumFunctionOnSet(taken, L) = q
  <2>1. OpenQuantity(Con(e)) \in Nat
    BY OpenIsSum DEF OpenFacts
  <2> QED BY <1>1, <1>2, <1>9, <1>11, <2>1 DEF AtMost
<1> QED BY <1>8, <1>10, <1>11 DEF taken, L, q

-----------------------------------------------------------------------------
(***************************************************************************)
(* Types                                                                   *)
(***************************************************************************)
ConsumptionRow == [lot : Nat, sell : Execs, quantity : Nat, realized_pnl : Int]

AmountOf == [r \in Entry |-> r.amount]
PnlOf == [r \in ConsumptionRow |-> r.realized_pnl]

LEMMA AmountIsSum ==
  \A type : \A rows \in SUBSET Entry : IsFiniteSet(rows) =>
    /\ Amount(type, rows) = SumFunctionOnSet(AmountOf, {x \in rows : x.type = type})
    /\ Amount(type, rows) \in Int
<1> SUFFICES ASSUME NEW type, NEW rows \in SUBSET Entry, IsFiniteSet(rows)
    PROVE  /\ Amount(type, rows) = SumFunctionOnSet(AmountOf, {x \in rows : x.type = type})
           /\ Amount(type, rows) \in Int
  OBVIOUS
<1> DEFINE S == {x \in rows : x.type = type}
           g == [r \in S |-> r.amount]
<1>1. IsFiniteSet(S) /\ S \subseteq Entry
  BY FS_Subset
<1>2. DOMAIN g = S /\ \A r \in S : AmountOf[r] \in Int /\ g[r] = AmountOf[r]
  BY <1>1 DEF AmountOf, Entry
<1>3. Amount(type, rows) = SumFunction(g)
  BY DEF Amount
<1> HIDE DEF g, S
<1>4. SumFunction(g) = SumFunctionOnSet(AmountOf, S) /\ SumFunctionOnSet(AmountOf, S) \in Int
  BY <1>1, <1>2, SumRestricted, SumType
<1> QED BY <1>3, <1>4 DEF S

LEMMA PnlIsSum ==
  \A e : \A rows \in SUBSET ConsumptionRow : IsFiniteSet(rows) =>
    /\ RealizedPnl(e, rows) = SumFunctionOnSet(PnlOf, {x \in rows : x.sell = e})
    /\ RealizedPnl(e, rows) \in Int
<1> SUFFICES ASSUME NEW e, NEW rows \in SUBSET ConsumptionRow, IsFiniteSet(rows)
    PROVE  /\ RealizedPnl(e, rows) = SumFunctionOnSet(PnlOf, {x \in rows : x.sell = e})
           /\ RealizedPnl(e, rows) \in Int
  OBVIOUS
<1> DEFINE S == {x \in rows : x.sell = e}
           g == [r \in S |-> r.realized_pnl]
<1>1. IsFiniteSet(S) /\ S \subseteq ConsumptionRow
  BY FS_Subset
<1>2. DOMAIN g = S /\ \A r \in S : PnlOf[r] \in Int /\ g[r] = PnlOf[r]
  BY <1>1 DEF PnlOf, ConsumptionRow
<1>3. RealizedPnl(e, rows) = SumFunction(g)
  BY DEF RealizedPnl
<1> HIDE DEF g, S
<1>4. SumFunction(g) = SumFunctionOnSet(PnlOf, S) /\ SumFunctionOnSet(PnlOf, S) \in Int
  BY <1>1, <1>2, SumRestricted, SumType
<1> QED BY <1>3, <1>4 DEF S

LEMMA BalanceTyped ==
  ASSUME NEW events \in Seq(Capital), NEW rows \in SUBSET Entry, IsFiniteSet(rows)
  PROVE  ComputedBalance(events, rows) \in Balance /\ SumFunction(events) \in Int
<1>1. IsFiniteSet(DOMAIN events) /\ \A i \in DOMAIN events : events[i] \in Int
  <2>1. DOMAIN events = 1..Len(events) /\ Len(events) \in Nat
    OBVIOUS
  <2>2. IsFiniteSet(1..Len(events))
    BY <2>1, FS_Interval
  <2>3. \A i \in DOMAIN events : events[i] \in Capital
    OBVIOUS
  <2> QED BY <2>1, <2>2, <2>3, LedgerAssumption
<1>2. SumFunction(events) \in Int
  BY <1>1, SumType DEF SumFunction
<1>3. /\ Amount("TRADE_CREDIT", rows) \in Int /\ Amount("TRADE_DEBIT", rows) \in Int
      /\ Amount("COMMISSION", rows) \in Int /\ Amount("REALIZED_PNL", rows) \in Int
  BY AmountIsSum
<1> QED BY <1>2, <1>3 DEF ComputedBalance, Balance

LEMMA EntriesTyped ==
  ASSUME TypeOK, NEW e \in Execs, NEW commission \in Nat,
         NEW rows \in SUBSET ConsumptionRow, IsFiniteSet(rows)
  PROVE  /\ LedgerEntries(e, commission, rows) \subseteq Entry
         /\ IsFiniteSet(LedgerEntries(e, commission, rows))
<1> DEFINE value == report[e].shares * report[e].price
           pnl == RealizedPnl(e, rows)
           entry(type, amount) == [exec |-> e, type |-> type, amount |-> amount]
           all == {entry("TRADE_DEBIT", value), entry("TRADE_CREDIT", value),
                   entry("REALIZED_PNL", pnl), entry("COMMISSION", commission)}
<1>1. value \in Int
  BY ReportTypes
<1>2. pnl \in Int
  BY PnlIsSum
<1>3. LedgerEntries(e, commission, rows) \subseteq all
  BY DEF LedgerEntries
<1> HIDE DEF value, pnl
<1>4. all \subseteq Entry
  BY <1>1, <1>2 DEF Entry
<1>5. IsFiniteSet(all)
  <2> HIDE DEF entry
  <2>1. /\ IsFiniteSet({entry("TRADE_DEBIT", value)})
        /\ IsFiniteSet({entry("TRADE_CREDIT", value)})
        /\ IsFiniteSet({entry("REALIZED_PNL", pnl)})
        /\ IsFiniteSet({entry("COMMISSION", commission)})
    BY FS_Singleton
  <2>2. IsFiniteSet(({entry("TRADE_DEBIT", value)} \cup {entry("TRADE_CREDIT", value)})
                      \cup ({entry("REALIZED_PNL", pnl)} \cup {entry("COMMISSION", commission)}))
    BY <2>1, FS_Union
  <2>3. all = ({entry("TRADE_DEBIT", value)} \cup {entry("TRADE_CREDIT", value)})
                \cup ({entry("REALIZED_PNL", pnl)} \cup {entry("COMMISSION", commission)})
    OBVIOUS
  <2> QED BY <2>2, <2>3
<1> HIDE DEF all
<1> QED BY <1>3, <1>4, <1>5, FS_Subset

LEMMA LedgerTyped ==
  ASSUME Typed, NEW new \in SUBSET Entry, IsFiniteSet(new), UpdatePortfolioLedger(new)
  PROVE  ledger' \subseteq Entry /\ IsFiniteSet(ledger')
<1> DEFINE added == {n \in new : ~ \E r \in ledger : r.exec = n.exec /\ r.type = n.type}
<1>1. ledger' = ledger \cup added /\ added \subseteq new
  BY DEF UpdatePortfolioLedger
<1> HIDE DEF added
<1>2. IsFiniteSet(added)
  BY <1>1, FS_Subset
<1> QED BY <1>1, <1>2, FS_Union DEF Typed, TypeOK

\* The row of the position is one.
LEMMA PositionTyped ==
  ASSUME TypeOK, NEW S \in SUBSET Execs
  PROVE  PositionRow(S) \in [quantity : Nat, cost : Nat, bought : Nat]
<1> DEFINE buys == {e \in S : Bought(e)}
           cost == [e \in buys |-> report[e].shares * report[e].price]
           bought == [e \in buys |-> report[e].shares]
<1>1. IsFiniteSet(buys) /\ buys \subseteq Execs
  BY ExecsFinite
<1>2. \A e \in buys : /\ report[e].shares * report[e].price \in Nat
                      /\ report[e].shares \in Nat
  BY <1>1, ReportTypes
<1>3. /\ DOMAIN cost = buys /\ DOMAIN bought = buys
      /\ \A e \in buys : cost[e] \in Nat /\ bought[e] \in Nat
  BY <1>2
<1> HIDE DEF cost, bought
<1>4. SumFunction(cost) \in Nat /\ SumFunction(bought) \in Nat
  BY <1>1, <1>3, SumNat DEF SumFunction
<1>5. Net(S) \in Int
  BY NetIsSum
<1>6. PositionRow(S) = IF Net(S) > 0
                       THEN [quantity |-> Net(S), cost |-> SumFunction(cost),
                             bought |-> SumFunction(bought)]
                       ELSE NoPosition
  BY DEF PositionRow, cost, bought
<1> QED BY <1>4, <1>5, <1>6 DEF NoPosition

\* A sale consumes rows of the right kind, finitely many.
LEMMA ConsumptionTyped ==
  ASSUME TypeOK, NEW e \in Execs
  PROVE  Consumption(e) \subseteq ConsumptionRow /\ IsFiniteSet(Consumption(e))
<1> DEFINE touched == {j \in DOMAIN lots : Consumed(e, j) > 0}
           row == [i \in DOMAIN lots |->
                     [lot |-> i, sell |-> e, quantity |-> Consumed(e, i),
                      realized_pnl |->
                        (report[e].price - report[lots[i].exec].price) * Consumed(e, i)]]
<1>1. IsFiniteSet(touched)
  <2>1. DOMAIN lots = 1..Len(lots) /\ Len(lots) \in Nat
    BY LotTypes DEF LotFacts
  <2>2. IsFiniteSet(DOMAIN lots)
    BY <2>1, FS_Interval
  <2> QED BY <2>2, FS_Subset
<1>2. Consumption(e) = {row[i] : i \in touched}
  BY DEF Consumption
<1>3. \A i \in touched : row[i] \in ConsumptionRow
  <2> SUFFICES ASSUME NEW i \in touched PROVE row[i] \in ConsumptionRow
    OBVIOUS
  <2>1. i \in DOMAIN lots /\ i \in Nat /\ lots[i].exec \in Execs
    BY LotTypes DEF LotFacts
  <2>2. Consumed(e, i) \in Nat
    BY <2>1, ConsumedFacts
  <2>3. report[e].price \in Nat /\ report[lots[i].exec].price \in Nat
    BY <2>1, ReportTypes
  <2> HIDE DEF touched
  <2>4. (report[e].price - report[lots[i].exec].price) * Consumed(e, i) \in Int
    BY <2>2, <2>3
  <2> QED BY <2>1, <2>2, <2>4 DEF ConsumptionRow
<1> HIDE DEF touched, row
<1>4. IsFiniteSet({row[i] : i \in touched})
  BY <1>1, FiniteImage
<1> QED BY <1>2, <1>3, <1>4

PositionRows == [quantity : Nat, cost : Nat, bought : Nat]

BooksTyped ==
  /\ executions \subseteq Execs
  /\ lots \in Seq(Lot)
  /\ consumption \subseteq ConsumptionRow /\ IsFiniteSet(consumption)
  /\ positions \in [Cons -> PositionRows]
  /\ ledger \subseteq Entry /\ IsFiniteSet(ledger)

LEMMA TypedBooks == Typed => BooksTyped
BY DEF Typed, TypeOK, BooksTyped, Lot, ConsumptionRow, PositionRows

LEMMA LotsTyped ==
  ASSUME Typed, NEW e \in Execs, UpdateLots(e)
  PROVE  /\ lots' \in Seq(Lot)
         /\ consumption' \subseteq ConsumptionRow /\ IsFiniteSet(consumption')
<1>0. BooksTyped
  BY TypedBooks
<1>1. CASE Bought(e)
  <2>1. /\ lots' = Append(lots, [exec |-> e, open |-> report[e].shares, closed |-> 0])
        /\ consumption' = consumption
    BY <1>1 DEF UpdateLots, HandleBuy
  <2>2. report[e].shares \in Nat
    BY ReportTypes DEF Typed
  <2>3. [exec |-> e, open |-> report[e].shares, closed |-> 0] \in Lot
    BY <2>2 DEF Lot
  <2> QED BY <1>0, <2>1, <2>3 DEF BooksTyped
<1>2. CASE ~Bought(e)
  <2>1. /\ lots' = [i \in DOMAIN lots |->
                      [exec |-> lots[i].exec,
                       open |-> lots[i].open - Consumed(e, i),
                       closed |-> lots[i].closed + Consumed(e, i)]]
        /\ consumption' = consumption \cup Consumption(e)
    BY <1>2 DEF UpdateLots, HandleSell
  <2>2. /\ DOMAIN lots = 1..Len(lots) /\ Len(lots) \in Nat
        /\ \A i \in DOMAIN lots :
             /\ lots[i].exec \in Execs /\ lots[i].open \in Nat /\ lots[i].closed \in Nat
    BY LotTypes DEF Typed, LotFacts
  <2>3. \A i \in DOMAIN lots : Consumed(e, i) \in Nat /\ Consumed(e, i) <= lots[i].open
    BY ConsumedFacts DEF Typed
  <2>4. \A i \in DOMAIN lots :
          [exec |-> lots[i].exec,
           open |-> lots[i].open - Consumed(e, i),
           closed |-> lots[i].closed + Consumed(e, i)] \in Lot
    BY <2>2, <2>3 DEF Lot
  <2>5. lots' \in [1..Len(lots) -> Lot]
    BY <2>1, <2>2, <2>4
  <2>6. lots' \in Seq(Lot)
    BY <2>2, <2>5
  <2>7. Consumption(e) \subseteq ConsumptionRow /\ IsFiniteSet(Consumption(e))
    BY ConsumptionTyped DEF Typed
  <2>8. consumption' \subseteq ConsumptionRow
    BY <1>0, <2>1, <2>7 DEF BooksTyped
  <2>9. IsFiniteSet(consumption')
    BY <2>1, <2>7, FS_Union DEF Typed
  <2> QED BY <2>6, <2>8, <2>9
<1> QED BY <1>1, <1>2

LEMMA UpdateFillTyped ==
  ASSUME Typed, NEW e \in Execs, NEW commission \in Nat, UNCHANGED report,
         UpdateFill(e, commission)
  PROVE  BooksTyped'
<1>0. BooksTyped /\ TypeOK
  BY TypedBooks DEF Typed
<1>1. executions' = executions \cup {e} /\ executions' \subseteq Execs
  BY <1>0 DEF UpdateFill, BooksTyped
<1>2. /\ lots' \in Seq(Lot)
      /\ consumption' \subseteq ConsumptionRow /\ IsFiniteSet(consumption')
  BY LotsTyped DEF UpdateFill
<1>3. positions' \in [Cons -> PositionRows]
  <2>1. PositionRow(OfCon(executions \cup {e}, Con(e))) \in PositionRows
    BY <1>0, <1>1, PositionTyped DEF OfCon, PositionRows
  <2>2. positions' = [positions EXCEPT ![Con(e)] = PositionRow(OfCon(executions \cup {e}, Con(e)))]
    BY DEF UpdateFill, InsertPosition
  <2> QED BY <1>0, <2>1, <2>2 DEF BooksTyped
<1>4. ledger' \subseteq Entry /\ IsFiniteSet(ledger')
  <2> DEFINE new == LedgerEntries(e, commission, consumption')
  <2>1. new \subseteq Entry /\ IsFiniteSet(new)
    BY <1>0, <1>2, EntriesTyped
  <2>2. UpdatePortfolioLedger(new)
    BY DEF UpdateFill
  <2> HIDE DEF new
  <2> QED BY <2>1, <2>2, LedgerTyped
<1> QED BY <1>1, <1>2, <1>3, <1>4 DEF BooksTyped

LEMMA OfferTyped ==
  ASSUME Typed, NEW e \in Execs, NEW commission \in Nat, UNCHANGED report,
         OfferFill(e, commission)
  PROVE  BooksTyped' /\ refused' \in SUBSET Execs
<1>1. refused' \in SUBSET Execs
  BY DEF OfferFill, UpdateFill, RolledBack, Typed, TypeOK
<1>2. ASSUME UNCHANGED books PROVE BooksTyped'
  <2>1. BooksTyped
    BY TypedBooks
  <2> QED BY <1>2, <2>1 DEF BooksTyped, books
<1>3. ASSUME UpdateFill(e, commission) PROVE BooksTyped'
  BY <1>3, UpdateFillTyped
<1> QED BY <1>1, <1>2, <1>3 DEF OfferFill, RolledBack

\* TypeOK apart from the tables of the fills.
RestTyped ==
  /\ report \in Days
  /\ delivered \in 0..N
  /\ inflight \subseteq Execs /\ toReplay \subseteq Execs
  /\ lost \subseteq Execs /\ refused \subseteq Execs
  /\ restarts \in 0..MaxRestarts
  /\ fills \in [Orders -> Nat] /\ comms \in [Orders -> Nat]
  /\ hooked \subseteq Orders
  /\ held \in [Cons -> Int]
  /\ capital \in Seq(Capital)
  /\ balances \in Balance

LEMMA TypedParts == Typed <=> RestTyped /\ BooksTyped
BY DEF Typed, TypeOK, RestTyped, BooksTyped, Lot, ConsumptionRow, PositionRows

\* The quantity an order is booked with, and the one in memory afterwards, are numbers.
LEMMA FilledIsNat ==
  ASSUME TypeOK, NEW o \in Orders PROVE FilledQuantity(o) \in Nat
<1> DEFINE S == {f \in 1..delivered : report[f].order = o}
           shares == [f \in S |-> report[f].shares]
<1>1. S \in SUBSET Execs
  BY LedgerAssumption DEF TypeOK, Execs
<1>2. IsFiniteSet(S)
  BY <1>1, ExecsFinite
<1>3. \A f \in S : shares[f] \in Nat
  BY <1>1, ReportTypes
<1>4. FilledQuantity(o) = SumFunctionOnSet(shares, S)
  BY DEF FilledQuantity, SumFunction
<1> HIDE DEF S, shares
<1> QED BY <1>2, <1>3, <1>4, SumNat

LEMMA BookedTyped ==
  ASSUME TypeOK, NEW e \in Execs PROVE BookedQuantity(e) \in Int
<1>1. FilledQuantity(report[e].order) \in Int
  BY FilledIsNat, ReportTypes
<1>2. held[Con(e)] \in Int
  BY ReportTypes DEF TypeOK
<1> QED BY <1>1, <1>2 DEF BookedQuantity

LEMMA InitTyped == Init => Typed
<1> SUFFICES ASSUME Init PROVE RestTyped /\ BooksTyped
  BY TypedParts
<1>1. BooksTyped
  BY FS_EmptySet DEF Init, BooksTyped, NoPosition, PositionRows
<1>2. RestTyped
  BY LedgerAssumption DEF Init, RestTyped, NoReports, Balance, NoBalance
<1> QED BY <1>1, <1>2

LEMMA NextTyped == Typed /\ [Next]_vars => Typed'
<1> SUFFICES ASSUME Typed, [Next]_vars PROVE RestTyped' /\ BooksTyped'
  <2>1. (RestTyped /\ BooksTyped)' => Typed'
    BY TypedParts, PTL
  <2> QED BY <2>1
<1>0. RestTyped /\ BooksTyped /\ TypeOK
  BY TypedParts DEF Typed
<1>1. ASSUME OnFill PROVE RestTyped' /\ BooksTyped'
  <2> DEFINE e == delivered + 1
  <2>1. e \in Execs /\ e \in 0..N
    BY <1>0, <1>1, LedgerAssumption DEF OnFill, RestTyped, Execs
  <2>2. /\ OfferFill(e, 0) /\ delivered' = e /\ inflight' = inflight \cup {e}
        /\ CountFill(e)
        /\ UNCHANGED <<report, toReplay, restarts, lost, comms, hooked, held, capital, balances>>
    BY <1>1 DEF OnFill, cash
  <2> HIDE DEF e
  <2>3. BooksTyped' /\ refused' \in SUBSET Execs
    BY <2>1, <2>2, OfferTyped
  <2>4. fills' \in [Orders -> Nat]
    BY <1>0, <2>1, <2>2, ReportTypes DEF CountFill, RestTyped
  <2> QED BY <1>0, <2>1, <2>2, <2>3, <2>4 DEF RestTyped
<1>2. ASSUME NEW e \in Execs, OnCommission(e) PROVE RestTyped' /\ BooksTyped'
  <2>1. /\ inflight' = inflight \ {e}
        /\ comms' = [comms EXCEPT ![report[e].order] = @ + 1]
        /\ lost' \in SUBSET (lost \cup {e})
        /\ UNCHANGED <<report, delivered, toReplay, restarts, refused, fills, hooked, capital,
                       executions, lots, consumption, positions>>
    BY <1>2 DEF OnCommission
  <2>2. ledger' \subseteq Entry /\ IsFiniteSet(ledger')
    <3>1. CASE e \in executions
      <4> DEFINE new == LedgerEntries(e, report[e].commission, consumption)
      <4>1. UpdatePortfolioLedger(new)
        BY <1>2, <3>1 DEF OnCommission
      <4>2. report[e].commission \in Nat
        BY <1>0, ReportTypes
      <4>3. new \subseteq Entry /\ IsFiniteSet(new)
        BY <1>0, <4>2, EntriesTyped DEF BooksTyped
      <4> HIDE DEF new
      <4> QED BY <4>1, <4>3, LedgerTyped
    <3>2. CASE e \notin executions
      BY <1>0, <1>2, <3>2 DEF OnCommission, BooksTyped
    <3> QED BY <3>1, <3>2
  <2>3. BooksTyped'
    BY <1>0, <2>1, <2>2 DEF BooksTyped
  <2>4. comms' \in [Orders -> Nat]
    BY <1>0, <2>1, ReportTypes DEF RestTyped
  <2>5. balances' \in Balance
    <3>1. CASE balances' = balances
      BY <1>0, <3>1 DEF RestTyped
    <3>2. CASE UpdatePortfolioBalances
      <4>1. capital' \in Seq(Capital)
        BY <1>0, <2>1 DEF RestTyped
      <4>2. ComputedBalance(capital', ledger') \in Balance
        BY <2>2, <4>1, BalanceTyped
      <4> QED BY <3>2, <4>2 DEF UpdatePortfolioBalances
    <3> QED BY <1>2, <3>1, <3>2 DEF OnCommission, BookPortfolio
  <2>6. held' \in [Cons -> Int]
    <3>1. CASE held' = held
      BY <1>0, <3>1 DEF RestTyped
    <3>2. CASE held' = [held EXCEPT ![Con(e)] = BookedQuantity(e)]
      <4>1. BookedQuantity(e) \in Int
        BY <1>0, BookedTyped
      <4> QED BY <1>0, <3>2, <4>1 DEF RestTyped
    <3> QED BY <1>2, <3>1, <3>2 DEF OnCommission, BookPortfolio
  <2> QED BY <1>0, <2>1, <2>3, <2>4, <2>5, <2>6 DEF RestTyped
<1>3. ASSUME NEW e \in delivered..N, NEW unsent \in SUBSET Unsent(e), Restart(e, unsent)
      PROVE  RestTyped' /\ BooksTyped'
  <2>1. /\ restarts < MaxRestarts /\ restarts' = restarts + 1
        /\ delivered' = e /\ toReplay' = 1..e /\ inflight' = {}
        /\ lost' = lost \cup inflight \cup (delivered + 1)..e
        /\ fills' = NoReports /\ comms' = NoReports /\ hooked' = unsent
        /\ held' = [c \in Cons |-> positions[c].quantity]
        /\ UNCHANGED <<report, refused, executions, lots, consumption, positions, ledger,
                       capital, balances>>
    BY <1>3 DEF Restart, books, cash
  <2>2. BooksTyped'
    BY <1>0, <2>1 DEF BooksTyped
  <2>3. e \in 0..N /\ 1..e \subseteq Execs /\ (delivered + 1)..e \subseteq Execs
    BY <1>0, LedgerAssumption DEF RestTyped, Execs
  <2>4. restarts' \in 0..MaxRestarts
    BY <1>0, <2>1, LedgerAssumption DEF RestTyped
  <2>5. NoReports \in [Orders -> Nat] /\ unsent \subseteq Orders
    BY DEF NoReports, Unsent
  <2>6. held' \in [Cons -> Int]
    BY <1>0, <2>1 DEF TypeOK
  <2> QED BY <1>0, <2>1, <2>2, <2>3, <2>4, <2>5, <2>6 DEF RestTyped
<1>4. ASSUME NEW e \in Execs, NEW commission \in {0, report[e].commission},
             ReplayFill(e, commission)
      PROVE  RestTyped' /\ BooksTyped'
  <2>1. commission \in Nat
    BY <1>0, ReportTypes
  <2>2. /\ OfferFill(e, commission) /\ CountFill(e) /\ toReplay' \subseteq toReplay
        /\ UNCHANGED <<report, delivered, inflight, restarts, lost, comms, hooked, held, capital,
                       balances>>
    BY <1>4 DEF ReplayFill, cash
  <2>3. BooksTyped' /\ refused' \in SUBSET Execs
    BY <2>1, <2>2, OfferTyped
  <2>4. fills' \in [Orders -> Nat]
    BY <1>0, <2>2, ReportTypes DEF CountFill, RestTyped
  <2> QED BY <1>0, <2>2, <2>3, <2>4 DEF RestTyped
<1>5. ASSUME NEW amount \in Capital, RegisterCapitalEvent(amount)
      PROVE  RestTyped' /\ BooksTyped'
  <2>1. /\ capital' = Append(capital, amount)
        /\ UpdatePortfolioBalances
        /\ UNCHANGED <<report, delivered, inflight, toReplay, restarts, lost, refused, fills,
                       comms, hooked, held, executions, lots, consumption, positions, ledger>>
    BY <1>5 DEF RegisterCapitalEvent, wire, trackers, books
  <2>2. BooksTyped'
    BY <1>0, <2>1 DEF BooksTyped
  <2>3. capital' \in Seq(Capital)
    BY <1>0, <2>1 DEF RestTyped
  <2>4. ledger' \subseteq Entry /\ IsFiniteSet(ledger')
    BY <2>2 DEF BooksTyped
  <2>5. balances' \in Balance
    BY <2>1, <2>3, <2>4, BalanceTyped DEF UpdatePortfolioBalances
  <2> QED BY <1>0, <2>1, <2>2, <2>3, <2>5 DEF RestTyped
<1>6. ASSUME UNCHANGED vars PROVE RestTyped' /\ BooksTyped'
  BY <1>0, <1>6 DEF vars, wire, trackers, books, cash, RestTyped, BooksTyped
<1> QED BY <1>1, <1>2, <1>3, <1>4, <1>5, <1>6 DEF Next

\* The tables, the trackers and the wire hold what their types say; no lot is ever
\* overdrawn and no sum leaves the integers.
THEOREM TypesAreKept == Spec => []TypeOK
<1>1. Typed => TypeOK
  BY DEF Typed
<1> QED BY <1>1, InitTyped, NextTyped, PTL DEF Spec

-----------------------------------------------------------------------------
(***************************************************************************)
(* What the tables say of each other                                       *)
(***************************************************************************)
\* Rows of the ledger and of the consumption belong to stored executions.
RowsOfStored ==
  /\ \A r \in consumption : r.sell \in executions
  /\ \A r \in ledger : r.exec \in executions

\* The ledger has the rows a stored execution calls for, the commission left aside: another
\* call of update_portfolio_ledger meets ON CONFLICT DO NOTHING for each of them.
LedgerFull ==
  \A e \in executions : \A n \in LedgerEntries(e, 0, consumption) :
    \E r \in ledger : r.exec = n.exec /\ r.type = n.type

\* The executions of an instrument, the table the position is computed from, and the open
\* lots, the table the sales are accepted by, agree.
LotsMatch == \A c \in Cons : Net(OfCon(executions, c)) = OpenQuantity(c)

\* _insert_position finds no sale below zero in what is stored.
NeverShort == \A c \in Cons : ~GoesShort(OfCon(executions, c))

LotCost == SumFunction([i \in DOMAIN lots |-> lots[i].open * report[lots[i].exec].price])

\* What was paid for shares and not got back for them is the cost of the open lots, but for
\* the realised profit.
CashMatch ==
  Amount("TRADE_CREDIT", ledger) - Amount("TRADE_DEBIT", ledger) + LotCost
    = Amount("REALIZED_PNL", ledger)

BookInv ==
  /\ Typed
  /\ RowsOfStored
  /\ LedgerFull
  /\ LotsMatch
  /\ PositionIsOpenLots
  /\ NeverShort
  /\ CashMatch

\* Orders with a hook have met every commission report but the ones to come.
OfOrder(S, o) == {e \in S : report[e].order = o}

HookedCounts ==
  \A o \in hooked : fills[o] = comms[o] + Cardinality(OfOrder(inflight, o))

\* An order with fills to be replayed has a tracker without a hook.
ReplayUnhooked == \A e \in toReplay : report[e].order \notin hooked

StoredDelivered == executions \cup inflight \subseteq 1..delivered

\* Without an execution the row has been fresh from the start: nothing is ever booked.
EmptyFresh == executions = {} => balances = Balanced

FreshInv ==
  /\ EmptyFresh
  /\ ReplayDelivered
  /\ HookedCounts
  /\ ReplayUnhooked
  /\ StoredDelivered
  /\ SettledBalanceIsFresh

-----------------------------------------------------------------------------
(***************************************************************************)
(* What a purchase and a sale change                                       *)
(***************************************************************************)
CostOf == [i \in DOMAIN lots |-> lots[i].open * report[lots[i].exec].price]

CostFacts ==
  /\ IsFiniteSet(DOMAIN lots)
  /\ \A i \in DOMAIN lots : CostOf[i] \in Int
  /\ LotCost = SumFunctionOnSet(CostOf, DOMAIN lots)
  /\ LotCost \in Int

LEMMA CostIsSum == TypeOK => CostFacts
<1> SUFFICES ASSUME TypeOK PROVE CostFacts
  OBVIOUS
<1>1. IsFiniteSet(DOMAIN lots)
  <2>1. DOMAIN lots = 1..Len(lots) /\ Len(lots) \in Nat
    BY LotTypes DEF LotFacts
  <2> QED BY <2>1, FS_Interval
<1>2. \A i \in DOMAIN lots : CostOf[i] \in Int
  <2> SUFFICES ASSUME NEW i \in DOMAIN lots PROVE CostOf[i] \in Int
    OBVIOUS
  <2>1. lots[i].open \in Nat /\ lots[i].exec \in Execs
    BY LotTypes DEF LotFacts
  <2>2. report[lots[i].exec].price \in Nat
    BY <2>1, ReportTypes
  <2> QED BY <2>1, <2>2 DEF CostOf
<1>3. LotCost = SumFunctionOnSet(CostOf, DOMAIN lots)
  BY DEF LotCost, CostOf, SumFunction
<1> QED BY <1>1, <1>2, <1>3, SumType DEF CostFacts

\* Lots are closed in the order they were opened.
Fifo ==
  \A c \in Cons : \A i, j \in LotsOf(c) : i < j /\ lots[j].closed > 0 => lots[i].open = 0

LEMMA BuyEffect ==
  ASSUME Typed, Typed', NEW e \in Execs, UNCHANGED report, HandleBuy(e)
  PROVE  /\ \A c : OpenQuantity(c)' = IF c = Con(e) THEN OpenQuantity(c) + report[e].shares
                                       ELSE OpenQuantity(c)
         /\ LotCost' = LotCost + report[e].shares * report[e].price
         /\ Fifo => Fifo'
<1> DEFINE n == Len(lots) + 1
           new == [exec |-> e, open |-> report[e].shares, closed |-> 0]
<1>1. LotFacts /\ OpenFacts /\ CostFacts
  BY LotTypes, OpenIsSum, CostIsSum DEF Typed
<1>2. LotFacts' /\ OpenFacts' /\ CostFacts'
  <2>1. TypeOK'
    BY DEF Typed
  <2>2. TypeOK' => LotFacts' /\ OpenFacts' /\ CostFacts'
    BY LotTypes, OpenIsSum, CostIsSum, PTL
  <2> QED BY <2>1, <2>2
<1>3. lots' = Append(lots, new) /\ lots \in Seq(Lot)
  BY DEF HandleBuy, Typed, TypeOK, Lot
<1>4. /\ DOMAIN lots' = DOMAIN lots \cup {n} /\ n \notin DOMAIN lots
      /\ \A i \in DOMAIN lots : lots'[i] = lots[i] /\ i < n
      /\ lots'[n] = new
  <2> HIDE DEF new
  <2> QED BY <1>1, <1>3 DEF LotFacts
<1>5. new.exec = e /\ new.open = report[e].shares /\ new.closed = 0
  OBVIOUS
<1> HIDE DEF n, new
<1>6. \A c : LotsOf(c)' = IF c = Con(e) THEN LotsOf(c) \cup {n} ELSE LotsOf(c)
  BY <1>4, <1>5 DEF LotsOf, Con
<1>7. /\ \A i \in DOMAIN lots : /\ OpenOf'[i] = OpenOf[i] /\ OpenOf[i] \in Nat
                                /\ CostOf'[i] = CostOf[i] /\ CostOf[i] \in Int
      /\ OpenOf'[n] = report[e].shares /\ CostOf'[n] = report[e].shares * report[e].price
  <2>1. \A i \in DOMAIN lots : OpenOf'[i] = OpenOf[i] /\ CostOf'[i] = CostOf[i]
    BY <1>4 DEF OpenOf, CostOf
  <2>2. OpenOf'[n] = report[e].shares /\ CostOf'[n] = report[e].shares * report[e].price
    BY <1>4, <1>5 DEF OpenOf, CostOf
  <2> QED BY <1>1, <2>1, <2>2 DEF LotFacts, CostFacts
<1>8. report[e].shares \in Nat /\ report[e].price \in Nat
  BY ReportTypes DEF Typed
<1>9. \A c : /\ LotsOf(c) \subseteq DOMAIN lots /\ IsFiniteSet(LotsOf(c))
             /\ OpenQuantity(c) = SumFunctionOnSet(OpenOf, LotsOf(c))
             /\ OpenQuantity(c)' = SumFunctionOnSet(OpenOf', LotsOf(c)')
  BY <1>1, <1>2 DEF OpenFacts
<1>10. \A c : SumFunctionOnSet(OpenOf', LotsOf(c)) = SumFunctionOnSet(OpenOf, LotsOf(c))
  <2> SUFFICES ASSUME NEW c
               PROVE  SumFunctionOnSet(OpenOf', LotsOf(c)) = SumFunctionOnSet(OpenOf, LotsOf(c))
    OBVIOUS
  <2>1. \A i \in LotsOf(c) : OpenOf[i] \in Int /\ OpenOf'[i] = OpenOf[i]
    BY <1>7, <1>9
  <2> QED BY <1>9, <2>1, SumCongruent
<1>11. \A c : c # Con(e) => OpenQuantity(c)' = OpenQuantity(c)
  BY <1>6, <1>9, <1>10
<1>12. ASSUME NEW c, c = Con(e) PROVE OpenQuantity(c)' = OpenQuantity(c) + report[e].shares
  <2> DEFINE S == LotsOf(c)
  <2>0. IsFiniteSet(S) /\ S \subseteq DOMAIN lots
    BY <1>9
  <2>1. /\ OpenQuantity(c) = SumFunctionOnSet(OpenOf', S)
        /\ LotsOf(c)' = S \cup {n}
    BY <1>6, <1>9, <1>10, <1>12
  <2>2. n \notin S /\ \A i \in S \cup {n} : OpenOf'[i] \in Int
    BY <1>4, <1>7, <1>8, <2>0
  <2>3. OpenQuantity(c)' = SumFunctionOnSet(OpenOf', S \cup {n})
    <3>1. OpenQuantity(c)' = SumFunctionOnSet(OpenOf', LotsOf(c)')
      BY <1>2 DEF OpenFacts
    <3> QED BY <2>1, <3>1
  <2> HIDE DEF S
  <2>4. SumFunctionOnSet(OpenOf', S \cup {n}) = OpenOf'[n] + SumFunctionOnSet(OpenOf', S)
    BY <2>0, <2>2, SumAdd
  <2>5. OpenQuantity(c) \in Nat
    BY <1>1 DEF OpenFacts
  <2> QED BY <1>7, <1>8, <2>1, <2>3, <2>4, <2>5
<1>13. LotCost' = LotCost + report[e].shares * report[e].price
  <2>1. LotCost' = SumFunctionOnSet(CostOf', DOMAIN lots \cup {n})
    BY <1>2, <1>4 DEF CostFacts
  <2>2. \A i \in DOMAIN lots \cup {n} : CostOf'[i] \in Int
    BY <1>7, <1>8
  <2>3. SumFunctionOnSet(CostOf', DOMAIN lots \cup {n})
          = CostOf'[n] + SumFunctionOnSet(CostOf', DOMAIN lots)
    BY <1>1, <1>4, <2>2, SumAdd DEF CostFacts
  <2>4. SumFunctionOnSet(CostOf, DOMAIN lots) = SumFunctionOnSet(CostOf', DOMAIN lots)
    BY <1>1, <1>7, SumCongruent DEF CostFacts
  <2>5. LotCost = SumFunctionOnSet(CostOf', DOMAIN lots) /\ LotCost \in Int
    BY <1>1, <2>4 DEF CostFacts
  <2>6. CostOf'[n] \in Int /\ CostOf'[n] = report[e].shares * report[e].price
    BY <1>7, <2>2
  <2> QED BY <2>1, <2>3, <2>5, <2>6
<1>14. ASSUME Fifo PROVE Fifo'
  <2> SUFFICES ASSUME NEW c \in Cons, NEW i \in LotsOf(c)', NEW j \in LotsOf(c)',
                      i < j, lots'[j].closed > 0
               PROVE  lots'[i].open = 0
    BY DEF Fifo
  <2>1. j # n
    BY <1>4, <1>5
  <2>2. \A k \in LotsOf(c)' : k # n => k \in LotsOf(c) /\ k \in DOMAIN lots /\ k < n
    BY <1>4, <1>6, <1>9
  <2>3. i # n
    BY <1>1, <2>1, <2>2 DEF LotFacts, n
  <2> QED BY <1>4, <1>14, <2>1, <2>2, <2>3 DEF Fifo
<1> QED BY <1>11, <1>12, <1>13, <1>14

\* The rows of a sale, one per lot touched, carry its profit: what it is sold for less the
\* cost of what it takes from the lots.
LEMMA SaleProfit ==
  ASSUME Typed, RowsOfStored, NEW e \in Execs \ executions,
         report[e].shares <= OpenQuantity(Con(e))
  PROVE  /\ RealizedPnl(e, consumption \cup Consumption(e))
              = report[e].shares * report[e].price
                  - SumFunctionOnSet([i \in DOMAIN lots |->
                                        Consumed(e, i) * report[lots[i].exec].price], DOMAIN lots)
         /\ \A d \in executions :
              RealizedPnl(d, consumption \cup Consumption(e)) = RealizedPnl(d, consumption)
<1> DEFINE D == DOMAIN lots
           L == LotsOf(Con(e))
           taken == [i \in D |-> Consumed(e, i)]
           price == report[e].price
           cost == [i \in D |-> Consumed(e, i) * report[lots[i].exec].price]
           worth == [i \in D |-> price * taken[i]]
           profit == [i \in D |-> (price - report[lots[i].exec].price) * Consumed(e, i)]
           row == [i \in D |-> [lot |-> i, sell |-> e, quantity |-> Consumed(e, i),
                                realized_pnl |-> profit[i]]]
           touched == {j \in D : Consumed(e, j) > 0}
           rows == consumption \cup Consumption(e)
<1>1. LotFacts /\ OpenFacts /\ CostFacts
  BY LotTypes, OpenIsSum, CostIsSum DEF Typed
<1>2. IsFiniteSet(D) /\ L \subseteq D /\ touched \subseteq D
  BY <1>1 DEF CostFacts, OpenFacts
<1>3. /\ \A i \in D : Consumed(e, i) \in Nat /\ (i \notin L => Consumed(e, i) = 0)
      /\ SumFunctionOnSet(taken, L) = report[e].shares
  BY ConsumedFacts DEF Typed
<1>4. price \in Nat /\ report[e].shares \in Nat
  BY ReportTypes DEF Typed
<1>5. \A i \in D : report[lots[i].exec].price \in Nat
  BY <1>1, ReportTypes DEF LotFacts, Typed
<1>6. \A i \in D : /\ taken[i] \in Int /\ taken[i] = Consumed(e, i)
                   /\ cost[i] \in Int /\ worth[i] \in Int /\ profit[i] \in Int
                   /\ worth[i] = price * taken[i]
                   /\ worth[i] = cost[i] + profit[i]
                   /\ taken[i] = 0 => profit[i] = 0
  <2> SUFFICES ASSUME NEW i \in D
      PROVE  /\ taken[i] \in Int /\ taken[i] = Consumed(e, i)
             /\ cost[i] \in Int /\ worth[i] \in Int /\ profit[i] \in Int
             /\ worth[i] = price * taken[i]
             /\ worth[i] = cost[i] + profit[i]
             /\ taken[i] = 0 => profit[i] = 0
    OBVIOUS
  <2> DEFINE c == Consumed(e, i)
             p == report[lots[i].exec].price
  <2>1. c \in Nat /\ p \in Nat /\ price \in Nat
    BY <1>3, <1>4, <1>5
  <2>2. /\ taken[i] = c /\ cost[i] = c * p /\ worth[i] = price * c
        /\ profit[i] = (price - p) * c
    OBVIOUS
  <2> HIDE DEF c, p, price, taken, cost, worth, profit
  <2>3. c * p \in Int /\ price * c \in Int /\ (price - p) * c \in Int
    BY <2>1
  <2>4. price * c = c * p + (price - p) * c
    BY <2>1
  <2>5. c = 0 => (price - p) * c = 0
    BY <2>1
  <2> QED BY <2>1, <2>2, <2>3, <2>4, <2>5 DEF c
<1>7. SumFunctionOnSet(taken, D) = report[e].shares
  <2>1. \A i \in D \ L : taken[i] = 0
    BY <1>3, <1>6
  <2> HIDE DEF taken, D, L
  <2>2. SumFunctionOnSet(taken, D) = SumFunctionOnSet(taken, L)
    BY <1>2, <1>6, <2>1, SumSupport
  <2> QED BY <1>3, <2>2
<1>8. SumFunctionOnSet(worth, D) = price * report[e].shares
  <2> HIDE DEF taken, D, worth, price
  <2>1. SumFunctionOnSet(worth, D) = price * SumFunctionOnSet(taken, D)
    BY <1>2, <1>4, <1>6, SumScale
  <2> QED BY <1>7, <2>1
<1>9. SumFunctionOnSet(worth, D) = SumFunctionOnSet(cost, D) + SumFunctionOnSet(profit, D)
  <2> HIDE DEF D, worth, cost, profit
  <2> QED BY <1>2, <1>6, SumPlus
<1>10. SumFunctionOnSet(profit, D) = SumFunctionOnSet(profit, touched)
  <2>1. \A i \in D \ touched : profit[i] = 0
    BY <1>3, <1>6
  <2> HIDE DEF D, touched, profit
  <2> QED BY <1>2, <1>6, <2>1, SumSupport
<1>11. Consumption(e) = {row[i] : i \in touched}
  BY DEF Consumption
<1>12. /\ consumption \subseteq ConsumptionRow /\ IsFiniteSet(consumption)
       /\ Consumption(e) \subseteq ConsumptionRow /\ IsFiniteSet(Consumption(e))
  BY ConsumptionTyped, TypedBooks DEF BooksTyped, Typed
<1>13. rows \subseteq ConsumptionRow /\ IsFiniteSet(rows)
  BY <1>12, FS_Union
<1>14. \A r \in Consumption(e) : r.sell = e
  BY DEF Consumption
<1>15. {x \in rows : x.sell = e} = Consumption(e)
  BY <1>14 DEF RowsOfStored
<1>16. RealizedPnl(e, rows) = SumFunctionOnSet(PnlOf, {row[i] : i \in touched})
  BY <1>11, <1>13, <1>15, PnlIsSum
<1>17. SumFunctionOnSet(PnlOf, {row[i] : i \in touched}) = SumFunctionOnSet(profit, touched)
  <2>1. IsFiniteSet(touched)
    BY <1>2, FS_Subset
  <2>2. \A i \in touched : profit[i] \in Int /\ PnlOf[row[i]] = profit[i]
    <3> SUFFICES ASSUME NEW i \in touched PROVE profit[i] \in Int /\ PnlOf[row[i]] = profit[i]
      OBVIOUS
    <3>1. i \in D /\ profit[i] \in Int
      BY <1>6
    <3>2. row[i] \in ConsumptionRow
      BY <1>11, <1>12
    <3>3. row[i].realized_pnl = profit[i]
      <4> HIDE DEF profit, D
      <4> QED BY <3>1
    <3> HIDE DEF row, profit
    <3> QED BY <3>1, <3>2, <3>3 DEF PnlOf
  <2>3. \A i, j \in touched : row[i] = row[j] => i = j
    <3>1. \A i \in touched : row[i].lot = i
      OBVIOUS
    <3> QED BY <3>1
  <2> HIDE DEF row, touched, profit
  <2> QED BY <2>1, <2>2, <2>3, SumRenamed
<1>18. SumFunctionOnSet(profit, D) \in Int /\ SumFunctionOnSet(cost, D) \in Int
  <2> HIDE DEF D, profit, cost
  <2> QED BY <1>2, <1>6, SumType
<1>19. RealizedPnl(e, rows) = report[e].shares * report[e].price - SumFunctionOnSet(cost, D)
  <2> DEFINE x == RealizedPnl(e, rows)
             k == SumFunctionOnSet(cost, D)
             w == price * report[e].shares
  <2>1. w = k + x /\ k \in Int /\ x \in Int
    BY <1>8, <1>9, <1>10, <1>16, <1>17, <1>18
  <2>2. w = report[e].shares * report[e].price
    BY <1>4
  <2> HIDE DEF x, k, w
  <2> QED BY <2>1, <2>2 DEF x, k
<1>20. ASSUME NEW d \in executions PROVE RealizedPnl(d, rows) = RealizedPnl(d, consumption)
  <2>1. {x \in rows : x.sell = d} = {x \in consumption : x.sell = d}
    BY <1>14
  <2> QED BY <1>12, <1>13, <2>1, PnlIsSum
<1> QED BY <1>19, <1>20

LEMMA SaleEffect ==
  ASSUME Typed, Typed', RowsOfStored, NEW e \in Execs \ executions, UNCHANGED report,
         report[e].shares <= OpenQuantity(Con(e)), HandleSell(e)
  PROVE  /\ \A c : OpenQuantity(c)' = IF c = Con(e) THEN OpenQuantity(c) - report[e].shares
                                       ELSE OpenQuantity(c)
         /\ RealizedPnl(e, consumption')
              = report[e].shares * report[e].price + LotCost' - LotCost
         /\ \A d \in executions : RealizedPnl(d, consumption') = RealizedPnl(d, consumption)
         /\ Fifo => Fifo'
<1> DEFINE taken == [i \in DOMAIN lots |-> Consumed(e, i)]
           cost == [i \in DOMAIN lots |-> Consumed(e, i) * report[lots[i].exec].price]
<1>1. LotFacts /\ OpenFacts /\ CostFacts
  BY LotTypes, OpenIsSum, CostIsSum DEF Typed
<1>2. LotFacts' /\ OpenFacts' /\ CostFacts'
  <2>1. TypeOK'
    BY DEF Typed
  <2>2. TypeOK' => LotFacts' /\ OpenFacts' /\ CostFacts'
    BY LotTypes, OpenIsSum, CostIsSum, PTL
  <2> QED BY <2>1, <2>2
<1>3. lots' = [i \in DOMAIN lots |->
                 [exec |-> lots[i].exec,
                  open |-> lots[i].open - Consumed(e, i),
                  closed |-> lots[i].closed + Consumed(e, i)]]
  BY DEF HandleSell
<1>4. /\ DOMAIN lots' = DOMAIN lots
      /\ \A i \in DOMAIN lots : /\ lots'[i].exec = lots[i].exec
                                /\ lots'[i].open = lots[i].open - Consumed(e, i)
                                /\ lots'[i].closed = lots[i].closed + Consumed(e, i)
  BY <1>3
<1>5. \A c : LotsOf(c)' = LotsOf(c)
  BY <1>4 DEF LotsOf, Con
<1>6. \A i \in DOMAIN lots :
        /\ Consumed(e, i) \in Nat /\ Consumed(e, i) <= lots[i].open
        /\ i \notin LotsOf(Con(e)) => Consumed(e, i) = 0
  BY ConsumedFacts DEF Typed
<1>7. \A i \in DOMAIN lots :
        /\ OpenOf[i] \in Int /\ OpenOf'[i] \in Int /\ taken[i] \in Int
        /\ taken[i] = Consumed(e, i)
        /\ OpenOf[i] = OpenOf'[i] + taken[i]
  <2> SUFFICES ASSUME NEW i \in DOMAIN lots
      PROVE  /\ OpenOf[i] \in Int /\ OpenOf'[i] \in Int /\ taken[i] \in Int
             /\ taken[i] = Consumed(e, i)
             /\ OpenOf[i] = OpenOf'[i] + taken[i]
    OBVIOUS
  <2>1. OpenOf[i] = lots[i].open /\ OpenOf'[i] = lots'[i].open /\ taken[i] = Consumed(e, i)
    BY <1>4 DEF OpenOf
  <2>2. lots[i].open \in Nat
    BY <1>1 DEF LotFacts
  <2> HIDE DEF taken
  <2> QED BY <1>4, <1>6, <2>1, <2>2
<1>8. \A c : /\ LotsOf(c) \subseteq DOMAIN lots /\ IsFiniteSet(LotsOf(c))
             /\ OpenQuantity(c) = SumFunctionOnSet(OpenOf, LotsOf(c))
             /\ OpenQuantity(c)' = SumFunctionOnSet(OpenOf', LotsOf(c))
             /\ OpenQuantity(c) \in Nat /\ OpenQuantity(c)' \in Nat
  BY <1>1, <1>2, <1>5 DEF OpenFacts
<1>9. \A c : OpenQuantity(c) = OpenQuantity(c)' + SumFunctionOnSet(taken, LotsOf(c))
  <2> SUFFICES ASSUME NEW c
               PROVE  OpenQuantity(c) = OpenQuantity(c)' + SumFunctionOnSet(taken, LotsOf(c))
    OBVIOUS
  <2>1. \A i \in LotsOf(c) : OpenOf[i] \in Int /\ OpenOf'[i] \in Int /\ taken[i] \in Int
                             /\ OpenOf[i] = OpenOf'[i] + taken[i]
    BY <1>7, <1>8
  <2> HIDE DEF taken
  <2>2. SumFunctionOnSet(OpenOf, LotsOf(c))
          = SumFunctionOnSet(OpenOf', LotsOf(c)) + SumFunctionOnSet(taken, LotsOf(c))
    BY <1>8, <2>1, SumPlus
  <2> QED BY <1>8, <2>2
<1>10. ASSUME NEW c
       PROVE  OpenQuantity(c)' = IF c = Con(e) THEN OpenQuantity(c) - report[e].shares
                                  ELSE OpenQuantity(c)
  <2>1. CASE c = Con(e)
    <3>1. SumFunctionOnSet(taken, LotsOf(c)) = report[e].shares
      BY <2>1, ConsumedFacts DEF Typed
    <3>2. report[e].shares \in Nat
      BY ReportTypes DEF Typed
    <3> HIDE DEF taken
    <3> QED BY <1>8, <1>9, <2>1, <3>1, <3>2
  <2>2. CASE c # Con(e)
    <3>1. \A i \in LotsOf(c) : taken[i] = 0
      BY <1>6, <1>7, <1>8, <2>2 DEF LotsOf
    <3> HIDE DEF taken
    <3>2. SumFunctionOnSet(taken, LotsOf(c)) = 0
      BY <1>8, <3>1, SumZero
    <3> QED BY <1>8, <1>9, <2>2, <3>2
  <2> QED BY <2>1, <2>2
<1>11. LotCost = LotCost' + SumFunctionOnSet(cost, DOMAIN lots)
  <2>1. \A i \in DOMAIN lots : /\ CostOf[i] \in Int /\ CostOf'[i] \in Int /\ cost[i] \in Int
                               /\ CostOf[i] = CostOf'[i] + cost[i]
    <3> SUFFICES ASSUME NEW i \in DOMAIN lots
        PROVE  /\ CostOf[i] \in Int /\ CostOf'[i] \in Int /\ cost[i] \in Int
               /\ CostOf[i] = CostOf'[i] + cost[i]
      OBVIOUS
    <3> DEFINE p == report[lots[i].exec].price
               o == lots[i].open
               t == Consumed(e, i)
    <3>1. p \in Nat /\ o \in Nat /\ t \in Nat
      BY <1>1, <1>6, ReportTypes DEF LotFacts, Typed
    <3>2. CostOf[i] = o * p /\ CostOf'[i] = (o - t) * p /\ cost[i] = t * p
      BY <1>4 DEF CostOf
    <3> HIDE DEF p, o, t, cost
    <3>3. o * p \in Int /\ (o - t) * p \in Int /\ t * p \in Int /\ o * p = (o - t) * p + t * p
      BY <3>1
    <3> QED BY <3>2, <3>3
  <2> HIDE DEF cost
  <2>2. SumFunctionOnSet(CostOf, DOMAIN lots)
          = SumFunctionOnSet(CostOf', DOMAIN lots) + SumFunctionOnSet(cost, DOMAIN lots)
    BY <1>1, <2>1, SumPlus DEF CostFacts
  <2>3. LotCost' = SumFunctionOnSet(CostOf', DOMAIN lots)
    BY <1>2, <1>4 DEF CostFacts
  <2> QED BY <1>1, <2>2, <2>3 DEF CostFacts
<1>12. /\ RealizedPnl(e, consumption')
            = report[e].shares * report[e].price - SumFunctionOnSet(cost, DOMAIN lots)
       /\ \A d \in executions : RealizedPnl(d, consumption') = RealizedPnl(d, consumption)
  <2>1. consumption' = consumption \cup Consumption(e)
    BY DEF HandleSell
  <2> QED BY <2>1, SaleProfit
<1>13. RealizedPnl(e, consumption') = report[e].shares * report[e].price + LotCost' - LotCost
  <2>1. SumFunctionOnSet(cost, DOMAIN lots) \in Int
    <3>1. \A i \in DOMAIN lots : cost[i] \in Int
      <4>1. \A i \in DOMAIN lots : /\ Consumed(e, i) \in Nat
                                   /\ report[lots[i].exec].price \in Nat
        BY <1>1, <1>6, ReportTypes DEF LotFacts, Typed
      <4> QED BY <4>1
    <3> HIDE DEF cost
    <3> QED BY <1>1, <3>1, SumType DEF CostFacts
  <2>2. LotCost \in Int /\ LotCost' \in Int
    BY <1>1, <1>2 DEF CostFacts
  <2>3. report[e].shares * report[e].price \in Int
    BY ReportTypes DEF Typed
  <2> HIDE DEF cost
  <2> QED BY <1>11, <1>12, <2>1, <2>2, <2>3
<1>14. ASSUME Fifo PROVE Fifo'
  <2> SUFFICES ASSUME NEW c \in Cons, NEW i \in LotsOf(c), NEW j \in LotsOf(c),
                      i < j, lots'[j].closed > 0
               PROVE  lots'[i].open = 0
    BY <1>5 DEF Fifo
  <2>1. /\ i \in DOMAIN lots /\ j \in DOMAIN lots /\ i \in Nat /\ j \in Nat
        /\ lots[i].open \in Nat /\ lots[j].open \in Nat /\ lots[j].closed \in Nat
    BY <1>1, <1>8 DEF LotFacts
  <2>2. CASE lots[j].closed > 0
    <3>1. lots[i].open = 0
      BY <1>14, <2>2 DEF Fifo
    <3> QED BY <1>4, <1>6, <2>1, <3>1
  <2>3. CASE Consumed(e, j) > 0
    <3>1. c = Con(e)
      BY <1>6, <2>1, <2>3 DEF LotsOf
    <3>2. OpenBefore(c, i) + lots[i].open <= OpenBefore(c, j)
      <4> DEFINE L == LotsOf(c)
      <4>1. /\ OpenBefore(c, i) = SumFunctionOnSet(OpenOf, Below(L, i))
            /\ OpenBefore(c, j) = SumFunctionOnSet(OpenOf, Below(L, j))
            /\ OpenBefore(c, i) \in Nat /\ OpenBefore(c, j) \in Nat
            /\ L \in SUBSET Nat /\ IsFiniteSet(L)
        BY <1>1, <2>1 DEF OpenFacts
      <4>2. /\ \A k \in L : k \in DOMAIN lots /\ OpenOf[k] \in Nat
            /\ OpenOf[i] = lots[i].open
        BY <1>1, <1>8, <2>1 DEF LotFacts
      <4>3. /\ IsFiniteSet(Below(L, i)) /\ IsFiniteSet(Below(L, j)) /\ i \notin Below(L, i)
            /\ \A k \in Below(L, j) : OpenOf[k] \in Nat
        BY <2>1, <4>1, <4>2, BelowSteps
      <4>4. Below(L, i) \cup {i} \in SUBSET Below(L, j)
        BY <2>1, <4>1 DEF Below
      <4>5. SumFunctionOnSet(OpenOf, Below(L, i) \cup {i})
              = OpenOf[i] + SumFunctionOnSet(OpenOf, Below(L, i))
        <5>1. \A k \in Below(L, i) \cup {i} : OpenOf[k] \in Int
          BY <4>3, <4>4
        <5> QED BY <4>3, <5>1, SumAdd
      <4>6. SumFunctionOnSet(OpenOf, Below(L, i) \cup {i}) <= SumFunctionOnSet(OpenOf, Below(L, j))
        BY <4>3, <4>4, SumSubset
      <4> QED BY <2>1, <4>1, <4>2, <4>5, <4>6
    <3>3. report[e].shares \in Nat /\ OpenBefore(c, i) \in Nat /\ OpenBefore(c, j) \in Nat
      BY <1>1, <2>1, ReportTypes DEF OpenFacts, Typed
    <3>4. /\ Consumed(e, i) = AtMost(lots[i].open, Above(report[e].shares - OpenBefore(c, i), 0))
          /\ Consumed(e, j) = AtMost(lots[j].open, Above(report[e].shares - OpenBefore(c, j), 0))
      BY <3>1 DEF Consumed
    <3>5. report[e].shares > OpenBefore(c, j)
      BY <2>1, <2>3, <3>3, <3>4 DEF AtMost, Above
    <3>6. Consumed(e, i) = lots[i].open
      BY <2>1, <3>2, <3>3, <3>4, <3>5 DEF AtMost, Above
    <3> QED BY <1>4, <2>1, <3>6
  <2> QED BY <1>4, <1>6, <2>1, <2>2, <2>3
<1> QED BY <1>10, <1>12, <1>13, <1>14

\* The rows of the trade itself, for each type.
LEMMA EntriesOfTrade ==
  ASSUME NEW e, NEW commission, NEW rows
  PROVE  LET value == report[e].shares * report[e].price
             pnl == RealizedPnl(e, rows)
             new == LedgerEntries(e, commission, rows)
             entry(type, amount) == [exec |-> e, type |-> type, amount |-> amount]
         IN /\ \A n \in new : n.exec = e
            /\ \A n \in new : n.type = "TRADE_DEBIT" => n = entry("TRADE_DEBIT", value)
            /\ \A n \in new : n.type = "TRADE_CREDIT" => n = entry("TRADE_CREDIT", value)
            /\ \A n \in new : n.type = "REALIZED_PNL" => n = entry("REALIZED_PNL", pnl)
            /\ Bought(e) => /\ entry("TRADE_DEBIT", value) \in new
                            /\ \A n \in new : n.type \notin {"TRADE_CREDIT", "REALIZED_PNL"}
            /\ ~Bought(e) => /\ entry("TRADE_CREDIT", value) \in new
                             /\ \A n \in new : n.type # "TRADE_DEBIT"
                             /\ pnl # 0 => entry("REALIZED_PNL", pnl) \in new
                             /\ pnl = 0 => \A n \in new : n.type # "REALIZED_PNL"
<1> DEFINE value == report[e].shares * report[e].price
           pnl == RealizedPnl(e, rows)
           new == LedgerEntries(e, commission, rows)
           entry(type, amount) == [exec |-> e, type |-> type, amount |-> amount]
           debit == entry("TRADE_DEBIT", value)
           credit == entry("TRADE_CREDIT", value)
           realised == entry("REALIZED_PNL", pnl)
           fee == entry("COMMISSION", commission)
<1>1. /\ new \subseteq {debit, credit, realised, fee}
      /\ Bought(e) => debit \in new /\ credit \notin new /\ realised \notin new
      /\ ~Bought(e) => credit \in new /\ debit \notin new /\ (pnl # 0 <=> realised \in new)
  BY DEF LedgerEntries
<1>2. /\ debit.exec = e /\ debit.type = "TRADE_DEBIT"
      /\ credit.exec = e /\ credit.type = "TRADE_CREDIT"
      /\ realised.exec = e /\ realised.type = "REALIZED_PNL"
      /\ fee.exec = e /\ fee.type = "COMMISSION"
  OBVIOUS
<1>3. /\ "TRADE_DEBIT" # "TRADE_CREDIT" /\ "TRADE_DEBIT" # "REALIZED_PNL"
      /\ "TRADE_DEBIT" # "COMMISSION" /\ "TRADE_CREDIT" # "REALIZED_PNL"
      /\ "TRADE_CREDIT" # "COMMISSION" /\ "REALIZED_PNL" # "COMMISSION"
  OBVIOUS
<1> HIDE DEF new, debit, credit, realised, fee, pnl, value
<1>4. /\ \A n \in new : n.exec = e
      /\ \A n \in new : n.type = "TRADE_DEBIT" => n = debit
      /\ \A n \in new : n.type = "TRADE_CREDIT" => n = credit
      /\ \A n \in new : n.type = "REALIZED_PNL" => n = realised
  BY <1>1, <1>2, <1>3
<1>5. Bought(e) => /\ debit \in new
                   /\ \A n \in new : n.type \notin {"TRADE_CREDIT", "REALIZED_PNL"}
  BY <1>1, <1>4
<1>6. ~Bought(e) => /\ credit \in new
                    /\ \A n \in new : n.type # "TRADE_DEBIT"
                    /\ pnl # 0 => realised \in new
                    /\ pnl = 0 => \A n \in new : n.type # "REALIZED_PNL"
  BY <1>1, <1>4
<1> QED BY <1>4, <1>5, <1>6 DEF new, debit, credit, realised, pnl, value

\* What new rows add to the sum of a type.
LEMMA AmountGrows ==
  ASSUME NEW rows \in SUBSET Entry, IsFiniteSet(rows), NEW new \in SUBSET Entry,
         IsFiniteSet(new), rows \cap new = {}, NEW type
  PROVE  /\ (\A n \in new : n.type # type)
              => Amount(type, rows \cup new) = Amount(type, rows)
         /\ \A n \in new : n.type = type /\ (\A m \in new : m.type = type => m = n)
              => Amount(type, rows \cup new) = Amount(type, rows) + n.amount
<1> DEFINE S == {x \in rows : x.type = type}
           T == {x \in rows \cup new : x.type = type}
<1>1. rows \cup new \subseteq Entry /\ IsFiniteSet(rows \cup new)
  BY FS_Union
<1>2. /\ Amount(type, rows) = SumFunctionOnSet(AmountOf, S)
      /\ Amount(type, rows \cup new) = SumFunctionOnSet(AmountOf, T)
      /\ Amount(type, rows) \in Int
  BY <1>1, AmountIsSum
<1>3. ASSUME \A n \in new : n.type # type
      PROVE  Amount(type, rows \cup new) = Amount(type, rows)
  <2>1. T = S
    BY <1>3
  <2> QED BY <1>2, <2>1
<1>4. ASSUME NEW n \in new, n.type = type, \A m \in new : m.type = type => m = n
      PROVE  Amount(type, rows \cup new) = Amount(type, rows) + n.amount
  <2>1. T = S \cup {n} /\ n \notin S
    BY <1>4
  <2>2. IsFiniteSet(S)
    BY FS_Subset
  <2>3. \A x \in Entry : AmountOf[x] = x.amount /\ x.amount \in Int
    BY DEF AmountOf, Entry
  <2>4. \A x \in S \cup {n} : AmountOf[x] \in Int
    BY <2>3
  <2>5. n.amount \in Int /\ AmountOf[n] = n.amount
    BY <2>3
  <2> HIDE DEF S, T
  <2>6. SumFunctionOnSet(AmountOf, S \cup {n}) = AmountOf[n] + SumFunctionOnSet(AmountOf, S)
    BY <2>1, <2>2, <2>4, SumAdd
  <2> QED BY <1>2, <2>1, <2>5, <2>6
<1> QED BY <1>3, <1>4

\* A new execution finds no row of its own in the ledger: all of its rows are inserted.
LEMMA NewRows ==
  ASSUME Typed, Typed', RowsOfStored, NEW e \in Execs \ executions, NEW commission \in Nat,
         UNCHANGED report, UpdatePortfolioLedger(LedgerEntries(e, commission, consumption'))
  PROVE  LET value == report[e].shares * report[e].price
         IN /\ ledger' = ledger \cup LedgerEntries(e, commission, consumption')
            /\ Amount("TRADE_DEBIT", ledger')
                 = Amount("TRADE_DEBIT", ledger) + (IF Bought(e) THEN value ELSE 0)
            /\ Amount("TRADE_CREDIT", ledger')
                 = Amount("TRADE_CREDIT", ledger) + (IF Bought(e) THEN 0 ELSE value)
            /\ Amount("REALIZED_PNL", ledger')
                 = Amount("REALIZED_PNL", ledger)
                     + (IF Bought(e) THEN 0 ELSE RealizedPnl(e, consumption'))
<1> DEFINE value == report[e].shares * report[e].price
           pnl == RealizedPnl(e, consumption')
           new == LedgerEntries(e, commission, consumption')
           entry(type, amount) == [exec |-> e, type |-> type, amount |-> amount]
           debit == entry("TRADE_DEBIT", value)
           credit == entry("TRADE_CREDIT", value)
           realised == entry("REALIZED_PNL", pnl)
<1>1. /\ \A n \in new : n.exec = e
      /\ \A n \in new : n.type = "TRADE_DEBIT" => n = debit
      /\ \A n \in new : n.type = "TRADE_CREDIT" => n = credit
      /\ \A n \in new : n.type = "REALIZED_PNL" => n = realised
      /\ Bought(e) => /\ debit \in new
                      /\ \A n \in new : n.type \notin {"TRADE_CREDIT", "REALIZED_PNL"}
      /\ ~Bought(e) => /\ credit \in new
                       /\ \A n \in new : n.type # "TRADE_DEBIT"
                       /\ pnl # 0 => realised \in new
                       /\ pnl = 0 => \A n \in new : n.type # "REALIZED_PNL"
  BY EntriesOfTrade
<1>2. /\ ledger \subseteq Entry /\ IsFiniteSet(ledger)
      /\ new \subseteq Entry /\ IsFiniteSet(new)
  <2>1. (Typed => BooksTyped)'
    BY TypedBooks, PTL
  <2>2. consumption' \subseteq ConsumptionRow /\ IsFiniteSet(consumption')
    BY <2>1 DEF BooksTyped
  <2> QED BY <2>2, EntriesTyped DEF Typed, TypeOK
<1>3. /\ debit.type = "TRADE_DEBIT" /\ debit.amount = value
      /\ credit.type = "TRADE_CREDIT" /\ credit.amount = value
      /\ realised.type = "REALIZED_PNL" /\ realised.amount = pnl
  OBVIOUS
<1>4. UpdatePortfolioLedger(new)
  OBVIOUS
<1> HIDE DEF new, debit, credit, realised
<1>5. \A r \in ledger : r.exec # e
  BY DEF RowsOfStored
<1>6. ledger \cap new = {} /\ ledger' = ledger \cup new
  BY <1>1, <1>4, <1>5 DEF UpdatePortfolioLedger
<1>7. /\ Amount("TRADE_DEBIT", ledger) \in Int /\ Amount("TRADE_CREDIT", ledger) \in Int
      /\ Amount("REALIZED_PNL", ledger) \in Int
  BY <1>2, AmountIsSum
<1>8. Amount("TRADE_DEBIT", ledger')
        = Amount("TRADE_DEBIT", ledger) + (IF Bought(e) THEN value ELSE 0)
  <2>1. CASE Bought(e)
    <3>1. Amount("TRADE_DEBIT", ledger \cup new) = Amount("TRADE_DEBIT", ledger) + debit.amount
      BY <1>1, <1>2, <1>3, <1>6, <2>1, AmountGrows
    <3> QED BY <1>3, <1>6, <2>1, <3>1
  <2>2. CASE ~Bought(e)
    <3>1. Amount("TRADE_DEBIT", ledger \cup new) = Amount("TRADE_DEBIT", ledger)
      BY <1>1, <1>2, <1>6, <2>2, AmountGrows
    <3> QED BY <1>6, <1>7, <2>2, <3>1
  <2> QED BY <2>1, <2>2
<1>9. Amount("TRADE_CREDIT", ledger')
        = Amount("TRADE_CREDIT", ledger) + (IF Bought(e) THEN 0 ELSE value)
  <2>1. CASE ~Bought(e)
    <3>1. Amount("TRADE_CREDIT", ledger \cup new) = Amount("TRADE_CREDIT", ledger) + credit.amount
      BY <1>1, <1>2, <1>3, <1>6, <2>1, AmountGrows
    <3> QED BY <1>3, <1>6, <2>1, <3>1
  <2>2. CASE Bought(e)
    <3>1. Amount("TRADE_CREDIT", ledger \cup new) = Amount("TRADE_CREDIT", ledger)
      BY <1>1, <1>2, <1>6, <2>2, AmountGrows
    <3> QED BY <1>6, <1>7, <2>2, <3>1
  <2> QED BY <2>1, <2>2
<1>10. Amount("REALIZED_PNL", ledger')
         = Amount("REALIZED_PNL", ledger) + (IF Bought(e) THEN 0 ELSE pnl)
  <2>1. CASE ~Bought(e) /\ pnl # 0
    <3>1. Amount("REALIZED_PNL", ledger \cup new) = Amount("REALIZED_PNL", ledger) + realised.amount
      BY <1>1, <1>2, <1>3, <1>6, <2>1, AmountGrows
    <3> QED BY <1>3, <1>6, <2>1, <3>1
  <2>2. CASE Bought(e) \/ pnl = 0
    <3>1. Amount("REALIZED_PNL", ledger \cup new) = Amount("REALIZED_PNL", ledger)
      BY <1>1, <1>2, <1>6, <2>2, AmountGrows
    <3> QED BY <1>6, <1>7, <2>2, <3>1
  <2> QED BY <2>1, <2>2
<1> QED BY <1>6, <1>8, <1>9, <1>10 DEF new

\* The commission report of a stored execution meets its other rows in the ledger.
LEMMA NoNewTradeRows ==
  ASSUME Typed, Typed', LedgerFull, NEW e \in executions, NEW commission \in Nat,
         UNCHANGED report, UpdatePortfolioLedger(LedgerEntries(e, commission, consumption))
  PROVE  /\ \A type \in {"TRADE_DEBIT", "TRADE_CREDIT", "REALIZED_PNL"} :
              Amount(type, ledger') = Amount(type, ledger)
         /\ ledger \subseteq ledger'
         /\ \A r \in ledger' \ ledger : r.exec = e
<1> DEFINE new == LedgerEntries(e, commission, consumption)
           added == {n \in new : ~ \E r \in ledger : r.exec = n.exec /\ r.type = n.type}
<1>1. ledger' = ledger \cup added
  BY DEF UpdatePortfolioLedger
<1>2. e \in Execs /\ BooksTyped
  BY TypedBooks DEF BooksTyped
<1>3. new \subseteq Entry /\ IsFiniteSet(new)
  BY <1>2, EntriesTyped DEF BooksTyped, Typed
<1>4. added \subseteq Entry /\ IsFiniteSet(added)
  BY <1>3, FS_Subset
<1>5. \A n \in added : n.exec = e
  BY EntriesOfTrade
<1>6. \A n \in added : n.type = "COMMISSION"
  <2> SUFFICES ASSUME NEW n \in new, n.type # "COMMISSION"
               PROVE  \E r \in ledger : r.exec = n.exec /\ r.type = n.type
    OBVIOUS
  <2>1. n \in LedgerEntries(e, 0, consumption)
    BY DEF LedgerEntries
  <2> QED BY <2>1 DEF LedgerFull
<1>7. ledger \cap added = {}
  OBVIOUS
<1> HIDE DEF added, new
<1>8. ASSUME NEW type \in {"TRADE_DEBIT", "TRADE_CREDIT", "REALIZED_PNL"}
      PROVE  Amount(type, ledger') = Amount(type, ledger)
  <2>1. \A n \in added : n.type # type
    BY <1>6
  <2> QED BY <1>1, <1>2, <1>4, <1>7, <2>1, AmountGrows DEF BooksTyped
<1> QED BY <1>1, <1>5, <1>8

-----------------------------------------------------------------------------
(***************************************************************************)
(* The books under every action                                            *)
(***************************************************************************)
LEMMA SameBooks ==
  ASSUME BookInv, Typed', UNCHANGED <<report, books>>
  PROVE  BookInv'
<1>1. RowsOfStored' /\ LedgerFull'
  BY DEF BookInv, books, RowsOfStored, LedgerFull, LedgerEntries, Bought, RealizedPnl
<1>2. LotsMatch'
  BY DEF BookInv, books, LotsMatch, Net, OfCon, Con, Signed, Bought, OpenQuantity, LotsOf
<1>3. PositionIsOpenLots'
  BY DEF BookInv, books, PositionIsOpenLots, OpenQuantity, LotsOf, Con
<1>4. NeverShort'
  BY DEF BookInv, books, NeverShort, GoesShort, Net, OfCon, Con, Signed, Bought, SortsUpTo
<1>5. CashMatch'
  BY DEF BookInv, books, CashMatch, LotCost, Amount
<1> QED BY <1>1, <1>2, <1>3, <1>4, <1>5 DEF BookInv

LEMMA UpdateKeepsBooks ==
  ASSUME BookInv, Typed', NEW e \in Execs \ executions, NEW commission \in Nat,
         UNCHANGED report, Accepts(e), UpdateFill(e, commission)
  PROVE  BookInv'
<1> DEFINE value == report[e].shares * report[e].price
           S(c) == OfCon(executions \cup {e}, c)
<1>1. /\ executions' = executions \cup {e}
      /\ UpdateLots(e) /\ InsertPosition(e)
      /\ UpdatePortfolioLedger(LedgerEntries(e, commission, consumption'))
  BY DEF UpdateFill
<1>2. /\ Typed /\ TypeOK /\ RowsOfStored /\ LedgerFull /\ LotsMatch /\ PositionIsOpenLots
      /\ NeverShort /\ CashMatch /\ Fifo
  BY DEF BookInv, Typed, PositionIsOpenLots, Fifo
<1>3. executions \subseteq Execs /\ executions' \subseteq Execs
  BY <1>1, <1>2 DEF TypeOK
<1>4. /\ report[e].shares \in Nat /\ report[e].price \in Nat /\ Con(e) \in Cons
      /\ Signed(e) = IF Bought(e) THEN report[e].shares ELSE - report[e].shares
      /\ value \in Int
  BY <1>2, ReportTypes
\* The lots and the consumption.
<1>5. /\ \A c : OpenQuantity(c)' = IF c = Con(e) THEN OpenQuantity(c) + Signed(e)
                                    ELSE OpenQuantity(c)
      /\ Bought(e) => LotCost' = LotCost + value
      /\ ~Bought(e) => RealizedPnl(e, consumption') = value + LotCost' - LotCost
      /\ \A d \in executions : RealizedPnl(d, consumption') = RealizedPnl(d, consumption)
      /\ Fifo'
      /\ \A r \in consumption' : r.sell \in executions'
  <2>0. \A c : OpenQuantity(c) \in Nat
    BY <1>2, OpenIsSum DEF OpenFacts
  <2>1. CASE Bought(e)
    <3>1. HandleBuy(e) /\ consumption' = consumption
      BY <1>1, <2>1 DEF UpdateLots, HandleBuy
    <3>2. /\ \A c : OpenQuantity(c)' = IF c = Con(e) THEN OpenQuantity(c) + report[e].shares
                                        ELSE OpenQuantity(c)
          /\ LotCost' = LotCost + value
          /\ Fifo'
      BY <1>2, <3>1, BuyEffect
    <3> QED BY <1>1, <1>2, <1>4, <2>1, <3>1, <3>2 DEF RowsOfStored
  <2>2. CASE ~Bought(e)
    <3>1. HandleSell(e) /\ consumption' = consumption \cup Consumption(e)
      BY <1>1, <2>2 DEF UpdateLots, HandleSell
    <3>2. report[e].shares <= OpenQuantity(Con(e))
      BY <2>2 DEF Accepts
    <3>3. /\ \A c : OpenQuantity(c)' = IF c = Con(e) THEN OpenQuantity(c) - report[e].shares
                                        ELSE OpenQuantity(c)
          /\ RealizedPnl(e, consumption') = value + LotCost' - LotCost
          /\ \A d \in executions : RealizedPnl(d, consumption') = RealizedPnl(d, consumption)
          /\ Fifo'
      BY <1>2, <3>1, <3>2, SaleEffect
    <3>4. \A r \in consumption' : r.sell \in executions'
      BY <1>1, <1>2, <3>1 DEF RowsOfStored, Consumption
    <3>5. \A c : OpenQuantity(c) - report[e].shares = OpenQuantity(c) + Signed(e)
      BY <1>4, <2>0, <2>2
    <3> QED BY <2>2, <3>3, <3>4, <3>5
  <2> QED BY <2>1, <2>2
<1>6. ASSUME NEW c \in Cons
      PROVE  /\ Net(OfCon(executions, c))' = Net(S(c))
             /\ Net(S(c)) = OpenQuantity(c)'
             /\ GoesShort(OfCon(executions, c))' <=> GoesShort(S(c))
             /\ c # Con(e) => S(c) = OfCon(executions, c)
  <2>1. OfCon(executions, c)' = S(c)
    BY <1>1 DEF OfCon, Con
  <2>2. Net(OfCon(executions, c))' = Net(S(c))
    BY <2>1 DEF Net, Signed, Bought
  <2>3. GoesShort(OfCon(executions, c))' <=> GoesShort(S(c))
    BY <2>1 DEF GoesShort, Net, Signed, Bought, SortsUpTo
  <2>4. c # Con(e) => S(c) = OfCon(executions, c)
    BY DEF OfCon
  <2>5. Net(OfCon(executions, c)) = OpenQuantity(c) /\ OpenQuantity(c) \in Nat
    BY <1>2, OpenIsSum DEF LotsMatch, OpenFacts
  <2>6. Net(S(c)) = OpenQuantity(c)'
    <3>1. CASE c = Con(e)
      <4>1. S(c) = OfCon(executions, c) \cup {e} /\ OfCon(executions, c) \in SUBSET Execs
            /\ e \in Execs \ OfCon(executions, c)
        BY <1>3, <3>1 DEF OfCon
      <4>2. Net(S(c)) = Signed(e) + Net(OfCon(executions, c))
        BY <1>2, <4>1, NetAdds
      <4> HIDE DEF S
      <4> QED BY <1>4, <1>5, <2>5, <3>1, <4>2
    <3>2. CASE c # Con(e)
      BY <1>5, <2>4, <2>5, <3>2
    <3> QED BY <3>1, <3>2
  <2> QED BY <2>2, <2>3, <2>4, <2>6
<1>7. LotsMatch'
  BY <1>6 DEF LotsMatch
<1>8. NeverShort'
  BY <1>2, <1>6 DEF Accepts, NeverShort
<1>9. PositionIsOpenLots'
  <2>1. \A c : OpenQuantity(c)' \in Nat
    <3>1. TypeOK' => OpenFacts'
      BY OpenIsSum, PTL
    <3> QED BY <3>1 DEF Typed, OpenFacts
  <2>2. positions' = [positions EXCEPT ![Con(e)] = PositionRow(S(Con(e)))]
    BY <1>1 DEF InsertPosition
  <2>3. DOMAIN positions = Cons
    BY <1>2 DEF TypeOK
  <2>4. ASSUME NEW c \in Cons PROVE positions'[c].quantity = OpenQuantity(c)'
    <3>1. CASE c = Con(e)
      <4>1. positions'[c] = PositionRow(S(c))
        BY <2>2, <2>3, <3>1
      <4>2. PositionRow(S(c)).quantity = IF Net(S(c)) > 0 THEN Net(S(c)) ELSE 0
        BY DEF PositionRow, NoPosition
      <4>3. Net(S(c)) = OpenQuantity(c)' /\ OpenQuantity(c)' \in Nat
        BY <1>6, <2>1
      <4> HIDE DEF S
      <4> QED BY <4>1, <4>2, <4>3
    <3>2. CASE c # Con(e)
      <4>1. positions'[c] = positions[c]
        BY <2>2, <2>3, <3>2
      <4> QED BY <1>2, <1>5, <3>2, <4>1 DEF PositionIsOpenLots
    <3> QED BY <3>1, <3>2
  <2> QED BY <1>5, <2>4 DEF Fifo, PositionIsOpenLots
\* The ledger.
<1>10. /\ ledger' = ledger \cup LedgerEntries(e, commission, consumption')
       /\ Amount("TRADE_DEBIT", ledger')
            = Amount("TRADE_DEBIT", ledger) + (IF Bought(e) THEN value ELSE 0)
       /\ Amount("TRADE_CREDIT", ledger')
            = Amount("TRADE_CREDIT", ledger) + (IF Bought(e) THEN 0 ELSE value)
       /\ Amount("REALIZED_PNL", ledger')
            = Amount("REALIZED_PNL", ledger)
                + (IF Bought(e) THEN 0 ELSE RealizedPnl(e, consumption'))
  BY <1>1, <1>2, NewRows
<1>11. RowsOfStored'
  <2>1. \A n \in LedgerEntries(e, commission, consumption') : n.exec = e
    BY EntriesOfTrade
  <2> QED BY <1>1, <1>2, <1>5, <1>10, <2>1 DEF RowsOfStored
<1>12. LedgerFull'
  <2> SUFFICES ASSUME NEW d \in executions', NEW n \in LedgerEntries(d, 0, consumption')
               PROVE  \E r \in ledger' : r.exec = n.exec /\ r.type = n.type
    BY DEF LedgerFull, LedgerEntries, Bought, RealizedPnl
  <2>1. CASE d = e
    <3>1. n \in LedgerEntries(e, commission, consumption')
      BY <2>1 DEF LedgerEntries
    <3> QED BY <1>10, <3>1
  <2>2. CASE d # e
    <3>1. d \in executions
      BY <1>1, <2>2
    <3>2. n \in LedgerEntries(d, 0, consumption)
      BY <1>5, <3>1 DEF LedgerEntries
    <3> QED BY <1>2, <1>10, <3>1, <3>2 DEF LedgerFull
  <2> QED BY <2>1, <2>2
<1>13. CashMatch'
  <2> DEFINE debit == Amount("TRADE_DEBIT", ledger)
             credit == Amount("TRADE_CREDIT", ledger)
             pnl == Amount("REALIZED_PNL", ledger)
             sale == RealizedPnl(e, consumption')
  <2>1. debit \in Int /\ credit \in Int /\ pnl \in Int
    BY <1>2, AmountIsSum DEF Typed, TypeOK
  <2>2. LotCost \in Int /\ LotCost' \in Int
    <3>1. (TypeOK => CostFacts)'
      BY CostIsSum, PTL
    <3> QED BY <1>2, <3>1, CostIsSum DEF Typed, CostFacts
  <2>3. credit - debit + LotCost = pnl
    BY <1>2 DEF CashMatch
  <2>4. CASE Bought(e)
    <3>1. /\ Amount("TRADE_DEBIT", ledger') = debit + value
          /\ Amount("TRADE_CREDIT", ledger') = credit + 0
          /\ Amount("REALIZED_PNL", ledger') = pnl + 0
      BY <1>10, <2>4
    <3>2. LotCost' = LotCost + value
      BY <1>5, <2>4
    <3> HIDE DEF debit, credit, pnl, value
    <3> QED BY <1>4, <2>1, <2>2, <2>3, <3>1, <3>2 DEF CashMatch
  <2>5. CASE ~Bought(e)
    <3>1. /\ Amount("TRADE_DEBIT", ledger') = debit + 0
          /\ Amount("TRADE_CREDIT", ledger') = credit + value
          /\ Amount("REALIZED_PNL", ledger') = pnl + sale
      BY <1>10, <2>5
    <3>2. sale = value + LotCost' - LotCost
      BY <1>5, <2>5
    <3> HIDE DEF debit, credit, pnl, value, sale
    <3> QED BY <1>4, <2>1, <2>2, <2>3, <3>1, <3>2 DEF CashMatch
  <2> QED BY <2>4, <2>5
<1> QED BY <1>7, <1>8, <1>9, <1>11, <1>12, <1>13 DEF BookInv

LEMMA ReportKeepsBooks ==
  ASSUME BookInv, Typed', NEW e \in executions, NEW commission \in Nat,
         UNCHANGED <<report, executions, lots, consumption, positions>>,
         UpdatePortfolioLedger(LedgerEntries(e, commission, consumption))
  PROVE  BookInv'
<1>1. /\ \A type \in {"TRADE_DEBIT", "TRADE_CREDIT", "REALIZED_PNL"} :
           Amount(type, ledger') = Amount(type, ledger)
      /\ ledger \subseteq ledger'
      /\ \A r \in ledger' \ ledger : r.exec = e
  BY NoNewTradeRows DEF BookInv
<1>2. RowsOfStored'
  BY <1>1 DEF BookInv, RowsOfStored
<1>3. LedgerFull'
  BY <1>1 DEF BookInv, LedgerFull, LedgerEntries, Bought, RealizedPnl
<1>4. LotsMatch'
  BY DEF BookInv, LotsMatch, Net, OfCon, Con, Signed, Bought, OpenQuantity, LotsOf
<1>5. PositionIsOpenLots'
  BY DEF BookInv, PositionIsOpenLots, OpenQuantity, LotsOf, Con
<1>6. NeverShort'
  BY DEF BookInv, NeverShort, GoesShort, Net, OfCon, Con, Signed, Bought, SortsUpTo
<1>7. CashMatch'
  <2>1. LotCost' = LotCost
    BY DEF LotCost
  <2> QED BY <1>1, <2>1 DEF BookInv, CashMatch
<1> QED BY <1>2, <1>3, <1>4, <1>5, <1>6, <1>7 DEF BookInv

LEMMA OfferKeepsBookInv ==
  ASSUME BookInv, Typed', NEW e \in Execs, NEW commission \in Nat, UNCHANGED report,
         OfferFill(e, commission)
  PROVE  BookInv'
<1>1. CASE UNCHANGED books
  BY <1>1, SameBooks
<1>2. CASE e \notin executions /\ Accepts(e) /\ UpdateFill(e, commission)
  BY <1>2, UpdateKeepsBooks
<1> QED BY <1>1, <1>2 DEF OfferFill, RolledBack

LEMMA InitBookInv == Init => BookInv
<1> SUFFICES ASSUME Init PROVE BookInv
  OBVIOUS
<1>1. Typed
  BY InitTyped
<1>2. /\ executions = {} /\ lots = <<>> /\ consumption = {} /\ ledger = {}
      /\ positions = [c \in Cons |-> NoPosition] /\ DOMAIN lots = {}
  BY DEF Init
<1>3. RowsOfStored /\ LedgerFull
  BY <1>2 DEF RowsOfStored, LedgerFull
<1>4. \A c : OfCon(executions, c) = {} /\ LotsOf(c) = {}
  BY <1>2 DEF OfCon, LotsOf
<1>5. Net({}) = 0 /\ \A c : OpenQuantity(c) = 0
  <2>1. \A c : OpenQuantity(c) = SumFunctionOnSet(OpenOf, LotsOf(c))
    BY <1>1, OpenIsSum DEF OpenFacts, Typed
  <2>2. Net({}) = SumFunctionOnSet(SignedOf, {})
    BY <1>1, NetIsSum DEF Typed
  <2> QED BY <1>4, <2>1, <2>2, SumEmpty
<1>6. LotsMatch /\ NeverShort
  BY <1>4, <1>5 DEF LotsMatch, NeverShort, GoesShort
<1>7. PositionIsOpenLots
  BY <1>2, <1>4, <1>5 DEF PositionIsOpenLots, NoPosition
<1>8. CashMatch
  <2>1. ASSUME NEW type PROVE Amount(type, ledger) = 0
    <3>1. {x \in ledger : x.type = type} = {}
      BY <1>2
    <3>2. ledger \in SUBSET Entry /\ IsFiniteSet(ledger)
      BY <1>1 DEF Typed, TypeOK
    <3>3. Amount(type, ledger) = SumFunctionOnSet(AmountOf, {x \in ledger : x.type = type})
      BY <3>2, AmountIsSum
    <3> QED BY <3>1, <3>3, SumEmpty
  <2>2. LotCost = 0
    BY <1>1, <1>2, CostIsSum, SumEmpty DEF CostFacts, Typed
  <2> QED BY <2>1, <2>2 DEF CashMatch
<1> QED BY <1>1, <1>3, <1>6, <1>7, <1>8 DEF BookInv

LEMMA NextBookInv == BookInv /\ [Next]_vars => BookInv'
<1> SUFFICES ASSUME BookInv, [Next]_vars PROVE BookInv'
  OBVIOUS
<1>0. Typed /\ Typed' /\ TypeOK
  BY NextTyped DEF BookInv, Typed
<1>1. CASE OnFill
  <2> DEFINE e == delivered + 1
  <2>1. OfferFill(e, 0) /\ UNCHANGED report
    BY <1>1 DEF OnFill
  <2>2. e \in Execs
    BY <1>0, <1>1, LedgerAssumption DEF OnFill, TypeOK, Execs
  <2> HIDE DEF e
  <2> QED BY <1>0, <2>1, <2>2, OfferKeepsBookInv
<1>2. ASSUME NEW e \in Execs, OnCommission(e) PROVE BookInv'
  <2>1. UNCHANGED <<report, executions, lots, consumption, positions>>
    BY <1>2 DEF OnCommission
  <2>2. CASE e \in executions
    <3>1. /\ UpdatePortfolioLedger(LedgerEntries(e, report[e].commission, consumption))
          /\ report[e].commission \in Nat
      BY <1>0, <1>2, <2>2, ReportTypes DEF OnCommission
    <3> QED BY <1>0, <2>1, <2>2, <3>1, ReportKeepsBooks
  <2>3. CASE e \notin executions
    BY <1>0, <1>2, <2>1, <2>3, SameBooks DEF OnCommission, books
  <2> QED BY <2>2, <2>3
<1>3. ASSUME NEW e \in delivered..N, NEW unsent \in SUBSET Unsent(e), Restart(e, unsent)
      PROVE  BookInv'
  BY <1>0, <1>3, SameBooks DEF Restart
<1>4. ASSUME NEW e \in Execs, NEW commission \in {0, report[e].commission},
             ReplayFill(e, commission)
      PROVE  BookInv'
  <2>1. OfferFill(e, commission) /\ UNCHANGED report /\ commission \in Nat
    BY <1>0, <1>4, ReportTypes DEF ReplayFill
  <2> QED BY <1>0, <2>1, OfferKeepsBookInv
<1>5. ASSUME NEW amount \in Capital, RegisterCapitalEvent(amount) PROVE BookInv'
  BY <1>0, <1>5, SameBooks DEF RegisterCapitalEvent, wire
<1>6. CASE UNCHANGED vars
  BY <1>0, <1>6, SameBooks DEF vars, wire
<1> QED BY <1>1, <1>2, <1>3, <1>4, <1>5, <1>6 DEF Next

\* The position shown for an instrument is the sum of its open lots, which were used up
\* from the oldest on.
THEOREM PositionsAreOpenLots == Spec => []PositionIsOpenLots
<1>1. BookInv => PositionIsOpenLots
  BY DEF BookInv
<1> QED BY <1>1, InitBookInv, NextBookInv, PTL DEF Spec

\* Cash, lots, realised profit and commissions add up after every transaction, whatever was
\* replayed, refused or reported late.
THEOREM BooksAreBalanced == Spec => []BooksBalance
<1>1. BookInv => BooksBalance
  <2> SUFFICES ASSUME BookInv PROVE BooksBalance
    OBVIOUS
  <2> DEFINE debit == Amount("TRADE_DEBIT", ledger)
             credit == Amount("TRADE_CREDIT", ledger)
             pnl == Amount("REALIZED_PNL", ledger)
             fee == Amount("COMMISSION", ledger)
             paid == SumFunction(capital)
  <2>1. debit \in Int /\ credit \in Int /\ pnl \in Int /\ fee \in Int /\ paid \in Int
    BY AmountIsSum, BalanceTyped DEF BookInv, Typed, TypeOK
  <2>2. LotCost \in Int
    BY CostIsSum DEF CostFacts, BookInv, Typed
  <2>3. credit - debit + LotCost = pnl
    BY DEF BookInv, CashMatch
  <2>4. /\ Balanced.total_cash_balance = paid + credit - debit - fee
        /\ Balanced.realized_pnl = pnl /\ Balanced.total_commissions = fee
    BY DEF Balanced, ComputedBalance
  <2>5. BooksBalance <=> Balanced.total_cash_balance + LotCost
                           = paid + Balanced.realized_pnl - Balanced.total_commissions
    BY DEF BooksBalance, LotCost
  <2> HIDE DEF debit, credit, pnl, fee, paid
  <2> QED BY <2>1, <2>2, <2>3, <2>4, <2>5
<1> QED BY <1>1, InitBookInv, NextBookInv, PTL DEF Spec

-----------------------------------------------------------------------------
(***************************************************************************)
(* Why an execution is refused                                             *)
(***************************************************************************)
LEMMA HeldIsSum ==
  TypeOK => \A c \in Cons : \A e \in Execs :
              Net(OfCon(1..e, c)) >= 0 /\ OfCon(1..e, c) \subseteq Execs
<1> SUFFICES ASSUME TypeOK, NEW c \in Cons, NEW e \in Execs
             PROVE  Net(OfCon(1..e, c)) >= 0 /\ OfCon(1..e, c) \subseteq Execs
  OBVIOUS
<1>1. 1..e \subseteq Execs
  BY LedgerAssumption DEF Execs
<1>2. Held(report, c, e) >= 0
  BY BrokerAssumption DEF TypeOK
<1>3. Net(OfCon(1..e, c)) = Held(report, c, e)
  BY DEF Net, Held, OfCon, Con, Signed, Bought
<1> QED BY <1>1, <1>2, <1>3 DEF OfCon

\* Executions that include all purchases before e, and no sale after it, do not sell short.
LEMMA EnoughBought ==
  ASSUME TypeOK, NEW c \in Cons, NEW e \in Execs, NEW S \in SUBSET OfCon(Execs, c), e \in S,
         \A d \in OfCon(Execs, c) : Bought(d) /\ d < e => d \in S,
         \A d \in S : ~Bought(d) => d <= e
  PROVE  Net(S) >= 0
<1> DEFINE B == OfCon(1..e, c)
           f == SignedOf
<1>1. B \subseteq Execs /\ S \subseteq Execs /\ Net(B) >= 0
  BY HeldIsSum DEF OfCon
<1>2. \A d \in Execs : d \in Nat /\ e \in Nat /\ (d <= e <=> d \in 1..e)
  BY LedgerAssumption DEF Execs
<1>3. \A d \in OfCon(Execs, c) : d \in B <=> d <= e
  BY <1>2 DEF OfCon
<1>4. \A d \in S \ B : Bought(d)
  BY <1>3
<1>5. \A d \in B \ S : ~Bought(d)
  <2> SUFFICES ASSUME NEW d \in B \ S, Bought(d) PROVE FALSE
    OBVIOUS
  <2>1. d \in OfCon(Execs, c) /\ d <= e /\ d # e
    BY <1>1, <1>2 DEF OfCon
  <2> QED BY <1>2, <2>1 DEF OfCon
<1>6. \A d \in Execs : /\ f[d] \in Int
                       /\ Bought(d) => f[d] >= 0
                       /\ ~Bought(d) => f[d] <= 0
  <2> SUFFICES ASSUME NEW d \in Execs
               PROVE  f[d] \in Int /\ (Bought(d) => f[d] >= 0) /\ (~Bought(d) => f[d] <= 0)
    OBVIOUS
  <2> QED BY ReportTypes DEF SignedOf
<1> HIDE DEF B, f
<1>7. /\ IsFiniteSet(S) /\ IsFiniteSet(B) /\ IsFiniteSet(S \cap B)
      /\ IsFiniteSet(S \ B) /\ IsFiniteSet(B \ S)
  <2>1. /\ S \in SUBSET Execs /\ B \in SUBSET Execs /\ S \cap B \in SUBSET Execs
        /\ S \ B \in SUBSET Execs /\ B \ S \in SUBSET Execs
    BY <1>1
  <2> QED BY <2>1, ExecsFinite
<1>8. SumFunctionOnSet(f, S) = SumFunctionOnSet(f, S \cap B) + SumFunctionOnSet(f, S \ B)
  <2>1. S = (S \cap B) \cup (S \ B) /\ (S \cap B) \cap (S \ B) = {}
    OBVIOUS
  <2>2. \A d \in (S \cap B) \cup (S \ B) : f[d] \in Int
    BY <1>1, <1>6
  <2>3. SumFunctionOnSet(f, (S \cap B) \cup (S \ B))
          = SumFunctionOnSet(f, S \cap B) + SumFunctionOnSet(f, S \ B)
    BY <1>7, <2>1, <2>2, SumUnion
  <2> QED BY <2>1, <2>3
<1>9. SumFunctionOnSet(f, B) = SumFunctionOnSet(f, S \cap B) + SumFunctionOnSet(f, B \ S)
  <2>1. B = (S \cap B) \cup (B \ S) /\ (S \cap B) \cap (B \ S) = {}
    OBVIOUS
  <2>2. \A d \in (S \cap B) \cup (B \ S) : f[d] \in Int
    BY <1>1, <1>6
  <2>3. SumFunctionOnSet(f, (S \cap B) \cup (B \ S))
          = SumFunctionOnSet(f, S \cap B) + SumFunctionOnSet(f, B \ S)
    BY <1>7, <2>1, <2>2, SumUnion
  <2> QED BY <2>1, <2>3
<1>10. SumFunctionOnSet(f, S \ B) \in Nat
  <2>1. \A d \in S \ B : f[d] \in Nat
    BY <1>1, <1>4, <1>6
  <2> QED BY <1>7, <2>1, SumNat
<1>11. SumFunctionOnSet(f, B \ S) <= 0 /\ SumFunctionOnSet(f, B \ S) \in Int
  <2> DEFINE zero == [d \in B \ S |-> 0]
  <2>1. \A d \in B \ S : f[d] \in Int /\ zero[d] \in Int /\ f[d] <= zero[d] /\ zero[d] = 0
    BY <1>1, <1>5, <1>6
  <2> HIDE DEF zero
  <2>2. SumFunctionOnSet(f, B \ S) <= SumFunctionOnSet(zero, B \ S)
    BY <1>7, <2>1, SumMonotone
  <2>3. SumFunctionOnSet(zero, B \ S) = 0
    BY <1>7, <2>1, SumZero
  <2>4. SumFunctionOnSet(f, B \ S) \in Int
    BY <1>7, <2>1, SumType
  <2> QED BY <2>2, <2>3, <2>4
<1>12. /\ Net(S) = SumFunctionOnSet(f, S) /\ Net(B) = SumFunctionOnSet(f, B)
       /\ Net(S) \in Int /\ Net(B) \in Int
  BY <1>1, NetIsSum DEF f
<1>13. SumFunctionOnSet(f, S \cap B) \in Int
  <2>1. \A d \in S \cap B : f[d] \in Int
    BY <1>1, <1>6
  <2> QED BY <1>7, <2>1, SumType
<1> QED BY <1>1, <1>8, <1>9, <1>10, <1>11, <1>12, <1>13

\* An execution that none of the three reasons keeps out is accepted.
LEMMA AcceptedInOrder ==
  ASSUME BookInv, NEW e \in Execs \ executions,
         \A d \in OfCon(Execs, Con(e)) :
           /\ Bought(d) /\ d < e => d \in executions
           /\ ~Bought(d) /\ e < d => d \notin executions
           /\ Bought(d) /\ d < e /\ report[d].time = report[e].time => SortsUpTo(d, e)
  PROVE  Accepts(e)
<1> DEFINE c == Con(e)
           A == OfCon(executions, c)
<1>1. TypeOK /\ executions \subseteq Execs /\ LotsMatch /\ NeverShort
  BY DEF BookInv, Typed, TypeOK
<1>2. /\ c \in Cons /\ report[e].shares \in Nat
      /\ \A d \in Execs : report[d].time \in Nat /\ report[d].rank \in Nat
      /\ Bought(e) => Signed(e) = report[e].shares
      /\ ~Bought(e) => Signed(e) = - report[e].shares
  BY <1>1, ReportTypes
<1>3. /\ A \cup {e} \subseteq OfCon(Execs, c) /\ e \notin A
      /\ OfCon(executions \cup {e}, c) = A \cup {e}
      /\ A \subseteq Execs
  BY <1>1 DEF OfCon
<1>4. \A d \in Execs : d \in Nat /\ e \in Nat
  BY LedgerAssumption DEF Execs
<1>5. /\ \A d \in OfCon(Execs, c) : Bought(d) /\ d < e => d \in A
      /\ \A d \in A : ~Bought(d) => d < e
  BY <1>3, <1>4 DEF OfCon
<1>6. \A d, x \in Execs : d < x => report[d].time <= report[x].time
  BY <1>1, BrokerAssumption DEF TypeOK
<1>7. \A d \in OfCon(Execs, c) : Bought(d) /\ d < e => SortsUpTo(d, e)
  <2> SUFFICES ASSUME NEW d \in OfCon(Execs, c), Bought(d), d < e PROVE SortsUpTo(d, e)
    OBVIOUS
  <2>1. d \in Execs /\ report[d].time <= report[e].time
    BY <1>6 DEF OfCon
  <2>2. CASE report[d].time = report[e].time
    BY <2>2
  <2>3. CASE report[d].time # report[e].time
    BY <1>2, <2>1, <2>3 DEF SortsUpTo
  <2> QED BY <2>2, <2>3
<1> HIDE DEF A, c
\* The open lots suffice.
<1>8. Bought(e) \/ report[e].shares <= OpenQuantity(c)
  <2> SUFFICES ASSUME ~Bought(e) PROVE report[e].shares <= OpenQuantity(c)
    OBVIOUS
  <2>1. Net(A \cup {e}) >= 0
    <3>1. \A d \in OfCon(Execs, c) : Bought(d) /\ d < e => d \in A \cup {e}
      BY <1>5
    <3>2. \A d \in A \cup {e} : ~Bought(d) => d <= e
      BY <1>3, <1>4, <1>5
    <3> QED BY <1>1, <1>2, <1>3, <3>1, <3>2, EnoughBought
  <2>2. Net(A \cup {e}) = Signed(e) + Net(A) /\ Net(A) \in Int
    BY <1>1, <1>3, NetAdds, NetIsSum
  <2>3. Net(A) = OpenQuantity(c)
    BY <1>1, <1>2 DEF LotsMatch, A
  <2> QED BY <1>2, <2>1, <2>2, <2>3
\* No sale is short in the order of the identifiers.
<1>9. ASSUME NEW s \in A \cup {e}, ~Bought(s)
      PROVE  Net({d \in A \cup {e} : SortsUpTo(d, s)}) >= 0
  <2> DEFINE S == {d \in A \cup {e} : SortsUpTo(d, s)}
             T == {d \in A : SortsUpTo(d, s)}
  <2>1. s \in Execs /\ S \subseteq OfCon(Execs, c) /\ T \in SUBSET Execs
    BY <1>3
  <2>2. s \in A => Net(T) >= 0
    <3>1. ~GoesShort(A)
      BY <1>1, <1>2 DEF NeverShort, A
    <3>2. Net(T) \in Int
      BY <1>1, <2>1, NetIsSum
    <3> HIDE DEF T
    <3>3. s \in A => ~(Net(T) < 0)
      BY <1>9, <3>1 DEF GoesShort, T
    <3> QED BY <3>2, <3>3
  <2>3. CASE s # e /\ e \notin S
    <3>1. S = T /\ s \in A
      BY <2>3
    <3> QED BY <2>2, <3>1
  <2>4. CASE s # e /\ e \in S /\ Bought(e)
    <3>1. S = T \cup {e} /\ e \in Execs \ T /\ s \in A
      BY <1>3, <2>4
    <3>2. Net(S) = Signed(e) + Net(T) /\ Net(T) \in Int
      BY <1>1, <2>1, <3>1, NetAdds, NetIsSum
    <3> HIDE DEF S, T
    <3> QED BY <1>2, <2>2, <2>4, <3>1, <3>2 DEF S
  <2>5. CASE s = e \/ (e \in S /\ ~Bought(e))
    <3>1. SortsUpTo(e, s) /\ ~Bought(e)
      BY <1>2, <1>9, <2>5 DEF SortsUpTo
    <3>2. e \in S
      BY <3>1
    <3>3. \A d \in OfCon(Execs, c) : Bought(d) /\ d < e => d \in S
      <4> SUFFICES ASSUME NEW d \in OfCon(Execs, c), Bought(d), d < e PROVE d \in S
        OBVIOUS
      <4>1. d \in A /\ SortsUpTo(d, e) /\ d \in Execs
        BY <1>5, <1>7 DEF OfCon
      <4>2. SortsUpTo(d, s)
        BY <1>2, <2>1, <3>1, <4>1 DEF SortsUpTo
      <4> QED BY <4>1, <4>2
    <3>4. \A d \in S : ~Bought(d) => d <= e
      BY <1>3, <1>4, <1>5
    <3> HIDE DEF S
    <3> QED BY <1>1, <1>2, <2>1, <3>2, <3>3, <3>4, EnoughBought DEF S
  <2> QED BY <2>3, <2>4, <2>5
<1>10. ~GoesShort(A \cup {e})
  <2> SUFFICES ASSUME NEW s \in A \cup {e}, ~Bought(s),
                      Net({d \in A \cup {e} : SortsUpTo(d, s)}) < 0
               PROVE  FALSE
    BY DEF GoesShort
  <2> DEFINE n == Net({d \in A \cup {e} : SortsUpTo(d, s)})
  <2>1. n >= 0
    BY <1>9
  <2>2. n \in Int
    <3>1. {d \in A \cup {e} : SortsUpTo(d, s)} \in SUBSET Execs
      BY <1>3
    <3> QED BY <1>1, <3>1, NetIsSum
  <2>3. n < 0
    OBVIOUS
  <2> HIDE DEF n
  <2> QED BY <2>1, <2>2, <2>3
<1> QED BY <1>3, <1>8, <1>10 DEF Accepts, c

\* The database refuses an execution only when an earlier purchase is missing, a later sale
\* is already stored, or a purchase of the same second sorts after it.
Refusal ==
  \A e \in refused' \ refused :
    \E d \in OfCon(Execs, Con(e)) :
      \/ Bought(d) /\ d < e /\ d \notin executions
      \/ ~Bought(d) /\ e < d /\ d \in executions
      \/ Bought(d) /\ d < e /\ report[d].time = report[e].time /\ ~SortsUpTo(d, e)

LEMMA OfferRefuses ==
  ASSUME BookInv, NEW e \in Execs, NEW commission, OfferFill(e, commission)
  PROVE  Refusal
<1>1. refused' \ refused = {} \/ (refused' \ refused \subseteq {e} /\ e \notin executions /\ ~Accepts(e))
  BY DEF OfferFill, UpdateFill, RolledBack
<1>2. CASE refused' \ refused = {}
  BY <1>2 DEF Refusal
<1>3. CASE refused' \ refused \subseteq {e} /\ e \notin executions /\ ~Accepts(e)
  <2>1. \E d \in OfCon(Execs, Con(e)) :
          \/ Bought(d) /\ d < e /\ d \notin executions
          \/ ~Bought(d) /\ e < d /\ d \in executions
          \/ Bought(d) /\ d < e /\ report[d].time = report[e].time /\ ~SortsUpTo(d, e)
    BY <1>3, AcceptedInOrder
  <2> QED BY <1>3, <2>1 DEF Refusal
<1> QED BY <1>1, <1>2, <1>3

LEMMA NextRefuses == BookInv /\ [Next]_vars => Refusal
<1> SUFFICES ASSUME BookInv, [Next]_vars PROVE Refusal
  OBVIOUS
<1>1. CASE OnFill
  <2> DEFINE e == delivered + 1
  <2>1. OfferFill(e, 0)
    BY <1>1 DEF OnFill
  <2>2. e \in Execs
    BY <1>1, LedgerAssumption DEF OnFill, BookInv, Typed, TypeOK, Execs
  <2> HIDE DEF e
  <2> QED BY <2>1, <2>2, OfferRefuses
<1>2. CASE \E e \in Execs : \E commission \in {0, report[e].commission} : ReplayFill(e, commission)
  BY <1>2, OfferRefuses DEF ReplayFill
<1>3. CASE UNCHANGED refused
  BY <1>3 DEF Refusal
<1> QED BY <1>1, <1>2, <1>3 DEF Next, OnCommission, Restart, RegisterCapitalEvent, vars

\* The database refuses an execution for one of three reasons of order only.
THEOREM RefusalsHaveReasons == Spec => RefusedOnlyOutOfOrder
<1>1. BookInv /\ [Next]_vars => [Refusal]_vars
  BY NextRefuses
<1>2. RefusedOnlyOutOfOrder <=> [][Refusal]_vars
  BY DEF RefusedOnlyOutOfOrder, Refusal
<1> QED BY <1>1, <1>2, InitBookInv, NextBookInv, PTL DEF Spec

-----------------------------------------------------------------------------
(***************************************************************************)
(* The balance of a settled portfolio                                      *)
(***************************************************************************)
LEMMA InitFresh == Init => FreshInv
<1> SUFFICES ASSUME Init PROVE FreshInv
  OBVIOUS
<1>1. HookedCounts
  <2>1. \A o : OfOrder(inflight, o) = {}
    BY DEF Init, OfOrder
  <2>2. Cardinality({}) = 0
    BY FS_EmptySet
  <2>3. \A o \in hooked : fills[o] = 0 /\ comms[o] = 0
    BY DEF Init, NoReports
  <2> QED BY <2>1, <2>2, <2>3 DEF HookedCounts
<1>2. ReplayDelivered /\ ReplayUnhooked /\ StoredDelivered
  BY DEF Init, ReplayDelivered, ReplayUnhooked, StoredDelivered
<1>3. balances = Balanced
  <2>1. \A type : Amount(type, ledger) = 0
    <3> SUFFICES ASSUME NEW type PROVE Amount(type, ledger) = 0
      OBVIOUS
    <3>1. {x \in ledger : x.type = type} = {}
      BY DEF Init
    <3>2. ledger \in SUBSET Entry /\ IsFiniteSet(ledger)
      BY FS_EmptySet DEF Init
    <3>3. Amount(type, ledger) = SumFunctionOnSet(AmountOf, {x \in ledger : x.type = type})
      BY <3>2, AmountIsSum
    <3> QED BY <3>1, <3>3, SumEmpty
  <2>2. SumFunction(capital) = 0
    <3>1. DOMAIN capital = {}
      BY DEF Init
    <3> QED BY <3>1, SumEmpty DEF SumFunction
  <2> QED BY <2>1, <2>2 DEF Init, Balanced, ComputedBalance, NoBalance
<1> QED BY <1>1, <1>2, <1>3 DEF FreshInv, SettledBalanceIsFresh, EmptyFresh

LEMMA OnFillFresh ==
  ASSUME BookInv, FreshInv, OnFill PROVE FreshInv'
<1> DEFINE e == delivered + 1
           o == report[e].order
<1>0. TypeOK /\ delivered \in Nat
  BY LedgerAssumption DEF BookInv, Typed, TypeOK
<1>1. /\ toReplay = {} /\ delivered < N /\ delivered' = e /\ inflight' = inflight \cup {e}
      /\ CountFill(e) /\ OfferFill(e, 0)
      /\ UNCHANGED <<report, toReplay, restarts, lost, comms, hooked, held, capital, balances>>
  BY DEF OnFill, cash
<1>2. e \in Execs /\ o \in Orders /\ inflight \subseteq Execs
  <2>1. e \in Execs
    BY <1>0, <1>1, LedgerAssumption DEF Execs
  <2> QED BY <1>0, <2>1, ReportTypes DEF TypeOK
<1>3. e \notin inflight /\ e \notin executions
  BY <1>0 DEF FreshInv, StoredDelivered
<1>4. executions' \subseteq executions \cup {e}
  BY <1>1 DEF OfferFill, UpdateFill, RolledBack, books
<1>5. StoredDelivered'
  <2>1. executions \cup inflight \subseteq 1..delivered
    BY DEF FreshInv, StoredDelivered
  <2>2. 1..delivered \subseteq 1..(delivered + 1) /\ e \in 1..(delivered + 1)
    BY <1>0
  <2> QED BY <1>1, <1>4, <2>1, <2>2 DEF StoredDelivered
<1>6. ReplayDelivered' /\ ReplayUnhooked'
  BY <1>1 DEF ReplayDelivered, ReplayUnhooked
<1> HIDE DEF e
<1>7. HookedCounts'
  <2> SUFFICES ASSUME NEW p \in hooked
               PROVE  fills'[p] = comms[p] + Cardinality(OfOrder(inflight, p)')
    BY <1>1 DEF HookedCounts
  <2>0. p \in Orders /\ fills[p] \in Nat /\ comms[p] \in Nat /\ DOMAIN fills = Orders
    BY <1>0 DEF TypeOK
  <2>1. fills[p] = comms[p] + Cardinality(OfOrder(inflight, p))
    BY DEF FreshInv, HookedCounts
  <2>2. IsFiniteSet(OfOrder(inflight, p)) /\ Cardinality(OfOrder(inflight, p)) \in Nat
    <3>1. OfOrder(inflight, p) \in SUBSET Execs
      BY <1>2 DEF OfOrder
    <3> QED BY <3>1, ExecsFinite, FS_CardinalityType
  <2>3. CASE p = o
    <3>1. OfOrder(inflight, p)' = OfOrder(inflight, p) \cup {e} /\ e \notin OfOrder(inflight, p)
      BY <1>1, <1>3, <2>3 DEF OfOrder
    <3>2. Cardinality(OfOrder(inflight, p) \cup {e}) = Cardinality(OfOrder(inflight, p)) + 1
      BY <2>2, <3>1, FS_AddElement
    <3>3. fills'[p] = fills[p] + 1
      BY <1>1, <2>0, <2>3 DEF CountFill
    <3> QED BY <2>0, <2>1, <2>2, <3>1, <3>2, <3>3
  <2>4. CASE p # o
    <3>1. OfOrder(inflight, p)' = OfOrder(inflight, p)
      BY <1>1, <2>4 DEF OfOrder
    <3>2. fills'[p] = fills[p]
      BY <1>1, <2>0, <2>4 DEF CountFill
    <3> QED BY <2>1, <3>1, <3>2
  <2> QED BY <2>3, <2>4
<1>8. SettledBalanceIsFresh'
  <2> SUFFICES ASSUME \A p \in Orders : Settled(p)', \A c \in Cons : held'[c] >= 0
               PROVE  balances' = Balanced'
    BY DEF SettledBalanceIsFresh
  <2>1. {d \in Execs : report[d].order = o} \cap executions' = {}
    <3>1. e \in {d \in Execs : report[d].order = o} \cap inflight'
      BY <1>1, <1>2
    <3> QED BY <1>1, <1>2, <3>1 DEF Settled
  <2>2. e \notin executions'
    BY <1>2, <2>1
  <2>3. executions' = executions /\ UNCHANGED books
    BY <1>1, <1>3, <2>2 DEF OfferFill, UpdateFill, RolledBack, books
  <2>4. ASSUME NEW p \in Orders PROVE Settled(p)
    <3>1. CASE p = o
      BY <2>1, <2>3, <3>1 DEF Settled
    <3>2. CASE p # o
      <4> DEFINE execs == {d \in Execs : report[d].order = p}
      <4>1. {f \in 1..delivered' : report'[f].order = p} = {f \in 1..delivered : report[f].order = p}
        <5>1. 1..delivered' = 1..delivered \cup {e}
          BY <1>0, <1>1 DEF e
        <5> QED BY <1>1, <3>2, <5>1
      <4>2. Filled(p)' => Filled(p)
        BY <1>1, <4>1 DEF Filled, FilledQuantity
      <4>3. execs \cap 1..delivered' = execs \cap 1..delivered
        BY <1>1, <4>1
      <4>4. Settled(p)'
        OBVIOUS
      <4>5. \/ execs \cap executions' = {}
            \/ /\ p \in hooked'
               /\ execs \subseteq executions' \cap 1..delivered'
               /\ execs \cap (inflight' \cup lost') = {}
               /\ Filled(p)'
        BY <1>1, <4>4 DEF Settled
      <4> HIDE DEF execs
      <4>6. \/ execs \cap executions = {}
            \/ /\ p \in hooked
               /\ execs \subseteq executions \cap 1..delivered
               /\ execs \cap (inflight \cup lost) = {}
               /\ Filled(p)
        BY <1>1, <2>3, <4>2, <4>3, <4>5
      <4> QED BY <4>6 DEF Settled, execs
    <3> QED BY <3>1, <3>2
  <2>5. balances = Balanced
    BY <1>1, <2>4 DEF FreshInv, SettledBalanceIsFresh
  <2> QED BY <1>1, <2>3, <2>5 DEF Balanced, books
<1>9. EmptyFresh'
  <2> SUFFICES ASSUME executions' = {} PROVE balances' = Balanced'
    BY DEF EmptyFresh
  <2>1. executions' = executions /\ UNCHANGED books
    BY <1>1, <1>3 DEF OfferFill, UpdateFill, RolledBack, books
  <2> QED BY <1>1, <2>1 DEF FreshInv, EmptyFresh, Balanced, books
<1> QED BY <1>5, <1>6, <1>7, <1>8, <1>9 DEF FreshInv

\* A booking that raises leaves a negative quantity in memory.
LEMMA RaisingIsNegative ==
  ASSUME TypeOK, NEW e \in Execs, BookPortfolio(e), BookingRaises(e)
  PROVE  \E c \in Cons : ~(held'[c] >= 0)
<1> DEFINE n == FilledQuantity(report[e].order)
           q == held[Con(e)]
<1>1. Con(e) \in Cons /\ q \in Int /\ n \in Nat
  BY ReportTypes, FilledIsNat DEF TypeOK
<1>2. held'[Con(e)] = BookedQuantity(e)
  BY <1>1 DEF BookPortfolio, TypeOK
<1>3. q # 0 /\ (IF Bought(e) THEN q + n = 0 ELSE q < n)
  BY DEF BookingRaises
<1>4. BookedQuantity(e) = IF Bought(e) THEN q ELSE q - n
  BY <1>3 DEF BookedQuantity
<1> HIDE DEF n, q
<1>5. ~(BookedQuantity(e) >= 0)
  BY <1>1, <1>3, <1>4
<1> QED BY <1>1, <1>2, <1>5

LEMMA OnCommissionFresh ==
  ASSUME BookInv, FreshInv, NEW e \in Execs, OnCommission(e) PROVE FreshInv'
<1> DEFINE o == report[e].order
<1>0. TypeOK /\ o \in Orders
  BY ReportTypes DEF BookInv, Typed
<1>1. /\ toReplay = {} /\ e \in inflight /\ inflight' = inflight \ {e}
      /\ comms' = [comms EXCEPT ![o] = @ + 1]
      /\ lost' = IF e \in executions THEN lost ELSE lost \cup {e}
      /\ e \notin executions => UNCHANGED ledger
      /\ UNCHANGED <<report, delivered, toReplay, refused, fills, hooked, executions, capital>>
      /\ IF e \in executions /\ LastReport(o) /\ o \in hooked
         THEN BookPortfolio(e)
         ELSE UNCHANGED <<held, balances>>
  BY DEF OnCommission
<1>2. StoredDelivered' /\ ReplayDelivered' /\ ReplayUnhooked'
  BY <1>1 DEF FreshInv, StoredDelivered, ReplayDelivered, ReplayUnhooked
<1>3. ASSUME NEW p \in Orders
      PROVE  IsFiniteSet(OfOrder(inflight, p)) /\ Cardinality(OfOrder(inflight, p)) \in Nat
  <2>1. OfOrder(inflight, p) \in SUBSET Execs
    BY <1>0 DEF OfOrder, TypeOK
  <2> QED BY <2>1, ExecsFinite, FS_CardinalityType
<1>4. HookedCounts'
  <2> SUFFICES ASSUME NEW p \in hooked
               PROVE  fills[p] = comms'[p] + Cardinality(OfOrder(inflight, p)')
    BY <1>1 DEF HookedCounts
  <2>0. p \in Orders /\ fills[p] \in Nat /\ comms[p] \in Nat /\ DOMAIN comms = Orders
    BY <1>0 DEF TypeOK
  <2>1. fills[p] = comms[p] + Cardinality(OfOrder(inflight, p))
    BY DEF FreshInv, HookedCounts
  <2>2. CASE p = o
    <3>1. OfOrder(inflight, p)' = OfOrder(inflight, p) \ {e} /\ e \in OfOrder(inflight, p)
      BY <1>1, <2>2 DEF OfOrder
    <3>2. Cardinality(OfOrder(inflight, p) \ {e}) = Cardinality(OfOrder(inflight, p)) - 1
      BY <1>3, <2>0, <3>1, FS_RemoveElement
    <3>3. comms'[p] = comms[p] + 1
      BY <1>1, <2>0, <2>2
    <3>4. Cardinality(OfOrder(inflight, p)) \in Nat
      BY <1>3, <2>0
    <3> QED BY <2>0, <2>1, <3>1, <3>2, <3>3, <3>4
  <2>3. CASE p # o
    <3>1. OfOrder(inflight, p)' = OfOrder(inflight, p)
      BY <1>1, <2>3 DEF OfOrder
    <3>2. comms'[p] = comms[p]
      BY <1>1, <2>0, <2>3
    <3> QED BY <2>1, <3>1, <3>2
  <2> QED BY <2>2, <2>3
<1>5. SettledBalanceIsFresh'
  <2> SUFFICES ASSUME \A p \in Orders : Settled(p)', \A c \in Cons : held'[c] >= 0
               PROVE  balances' = Balanced'
    BY DEF SettledBalanceIsFresh
  <2> DEFINE execs(p) == {d \in Execs : report[d].order = p}
  <2>1. \A p \in Orders : Filled(p)' <=> Filled(p)
    BY <1>1 DEF Filled, FilledQuantity
  <2>2. \A p \in Orders :
          \/ execs(p) \cap executions = {}
          \/ /\ p \in hooked
             /\ execs(p) \subseteq executions \cap 1..delivered
             /\ execs(p) \cap (inflight' \cup lost') = {}
             /\ Filled(p)
    BY <1>1, <2>1 DEF Settled
  <2>3. CASE e \in executions
    <3>1. /\ o \in hooked /\ Filled(o)
          /\ execs(o) \cap (inflight' \cup lost') = {}
      BY <1>0, <2>2, <2>3
    <3>2. OfOrder(inflight, o) = {e}
      BY <1>0, <1>1, <3>1 DEF OfOrder, TypeOK
    <3>3. fills[o] = comms[o] + 1
      <4>1. Cardinality({e}) = 1
        BY FS_Singleton
      <4> QED BY <3>1, <3>2, <4>1 DEF FreshInv, HookedCounts
    <3>4. LastReport(o)
      BY <3>1, <3>3 DEF LastReport
    <3>5. BookPortfolio(e)
      BY <1>1, <2>3, <3>1, <3>4
    <3>6. ~BookingRaises(e)
      BY <1>0, <3>5, RaisingIsNegative
    <3> QED BY <3>5, <3>6 DEF BookPortfolio, UpdatePortfolioBalances, Balanced
  <2>4. CASE e \notin executions
    <3>1. e \in lost'
      BY <1>1, <2>4
    <3>2. execs(o) \cap executions = {}
      BY <1>0, <2>2, <3>1
    <3>3. ASSUME NEW p \in Orders PROVE Settled(p)
      <4>1. CASE p = o
        BY <3>2, <4>1 DEF Settled
      <4>2. CASE p # o
        <5>1. execs(p) \cap (inflight \cup lost) = execs(p) \cap (inflight' \cup lost')
          BY <1>1, <4>2
        <5>2. \/ execs(p) \cap executions = {}
              \/ /\ p \in hooked
                 /\ execs(p) \subseteq executions \cap 1..delivered
                 /\ execs(p) \cap (inflight' \cup lost') = {}
                 /\ Filled(p)
          BY <2>2
        <5> QED BY <5>1, <5>2 DEF Settled
      <4> QED BY <4>1, <4>2
    <3>4. balances = Balanced
      BY <1>1, <2>4, <3>3 DEF FreshInv, SettledBalanceIsFresh
    <3> QED BY <1>1, <2>4, <3>4 DEF Balanced
  <2> QED BY <2>3, <2>4
<1>6. EmptyFresh'
  <2> SUFFICES ASSUME executions' = {} PROVE balances' = Balanced'
    BY DEF EmptyFresh
  <2> QED BY <1>1 DEF FreshInv, EmptyFresh, Balanced
<1> QED BY <1>2, <1>4, <1>5, <1>6 DEF FreshInv

LEMMA RestartFresh ==
  ASSUME BookInv, FreshInv, NEW e \in delivered..N, NEW unsent \in SUBSET Unsent(e),
         Restart(e, unsent)
  PROVE  FreshInv'
<1>0. TypeOK /\ delivered \in Nat /\ e \in Nat /\ delivered <= e
  BY LedgerAssumption DEF BookInv, Typed, TypeOK
<1>1. /\ delivered' = e /\ toReplay' = 1..e /\ inflight' = {}
      /\ fills' = NoReports /\ comms' = NoReports /\ hooked' = unsent
      /\ UNCHANGED <<report, refused, executions, ledger, capital, balances>>
  BY DEF Restart, books, cash
<1>2. StoredDelivered'
  <2>1. executions \subseteq 1..delivered
    BY DEF FreshInv, StoredDelivered
  <2>2. 1..delivered \subseteq 1..e
    BY <1>0
  <2> QED BY <1>1, <2>1, <2>2 DEF StoredDelivered
<1>3. ReplayDelivered' /\ ReplayUnhooked'
  BY <1>1 DEF ReplayDelivered, ReplayUnhooked, Unsent
<1>4. HookedCounts'
  <2>1. \A p : OfOrder(inflight, p)' = {}
    BY <1>1 DEF OfOrder
  <2>2. Cardinality({}) = 0
    BY FS_EmptySet
  <2>3. \A p \in hooked' : fills'[p] = 0 /\ comms'[p] = 0
    BY <1>1 DEF Unsent, NoReports
  <2> QED BY <2>1, <2>2, <2>3 DEF HookedCounts
<1>5. EmptyFresh'
  BY <1>1 DEF FreshInv, EmptyFresh, Balanced
<1>6. SettledBalanceIsFresh'
  <2> SUFFICES ASSUME \A p \in Orders : Settled(p)' PROVE executions = {}
    BY <1>1, <1>5 DEF SettledBalanceIsFresh, EmptyFresh
  <2>1. ASSUME NEW p \in Orders PROVE {d \in Execs : report[d].order = p} \cap executions = {}
    <3> DEFINE execs == {d \in Execs : report[d].order = p}
    <3>1. \/ execs \cap executions = {}
          \/ p \in unsent /\ execs \subseteq 1..e
      BY <1>1, <2>1 DEF Settled
    <3>2. p \in unsent => \A f \in 1..e : report[f].order # p
      BY DEF Unsent
    <3> QED BY <3>1, <3>2
  <2>2. \A d \in executions : d \in Execs /\ report[d].order \in Orders
    BY <1>0, ReportTypes DEF TypeOK
  <2> QED BY <2>1, <2>2
<1> QED BY <1>2, <1>3, <1>4, <1>5, <1>6 DEF FreshInv

LEMMA ReplayFillFresh ==
  ASSUME BookInv, FreshInv, NEW e \in Execs, NEW commission, ReplayFill(e, commission)
  PROVE  FreshInv'
<1> DEFINE o == report[e].order
<1>0. TypeOK /\ o \in Orders
  BY ReportTypes DEF BookInv, Typed
<1>1. /\ e \in toReplay /\ toReplay' \subseteq toReplay
      /\ CountFill(e) /\ OfferFill(e, commission)
      /\ UNCHANGED <<report, delivered, inflight, restarts, lost, comms, hooked, held, capital,
                     balances>>
  BY DEF ReplayFill, cash
<1>2. executions' \subseteq executions \cup {e}
  BY <1>1 DEF OfferFill, UpdateFill, RolledBack, books
<1>3. StoredDelivered'
  <2>1. e \in 1..delivered
    <3>1. toReplay \subseteq 1..delivered
      BY DEF FreshInv, ReplayDelivered
    <3> QED BY <1>1, <3>1
  <2> QED BY <1>1, <1>2, <2>1 DEF FreshInv, StoredDelivered
<1>4. ReplayDelivered' /\ ReplayUnhooked'
  BY <1>1 DEF FreshInv, ReplayDelivered, ReplayUnhooked
<1>5. o \notin hooked
  BY <1>1 DEF FreshInv, ReplayUnhooked
<1>6. HookedCounts'
  <2>1. \A p \in hooked : fills'[p] = fills[p]
    BY <1>0, <1>1, <1>5 DEF CountFill, TypeOK
  <2> QED BY <1>1, <2>1 DEF FreshInv, HookedCounts, OfOrder
<1>7. SettledBalanceIsFresh'
  <2> SUFFICES ASSUME \A p \in Orders : Settled(p)', \A c \in Cons : held'[c] >= 0
               PROVE  balances' = Balanced'
    BY DEF SettledBalanceIsFresh
  <2>1. {d \in Execs : report[d].order = o} \cap executions' = {}
    BY <1>0, <1>1, <1>5 DEF Settled
  <2>2. e \notin executions'
    BY <2>1
  <2>3. UNCHANGED books
    BY <1>1, <2>2 DEF OfferFill, UpdateFill, RolledBack
  <2>4. \A p \in Orders : Settled(p)
    BY <1>1, <2>3 DEF Settled, Filled, FilledQuantity, books
  <2>5. balances = Balanced
    BY <1>1, <2>4 DEF FreshInv, SettledBalanceIsFresh
  <2> QED BY <1>1, <2>3, <2>5 DEF Balanced, books
<1>8. EmptyFresh'
  <2> SUFFICES ASSUME executions' = {} PROVE balances' = Balanced'
    BY DEF EmptyFresh
  <2>1. UNCHANGED books
    BY <1>1 DEF OfferFill, UpdateFill, RolledBack, books
  <2> QED BY <1>1, <2>1 DEF FreshInv, EmptyFresh, Balanced, books
<1> QED BY <1>3, <1>4, <1>6, <1>7, <1>8 DEF FreshInv

LEMMA NextFresh == BookInv /\ FreshInv /\ [Next]_vars => FreshInv'
<1> SUFFICES ASSUME BookInv, FreshInv, [Next]_vars PROVE FreshInv'
  OBVIOUS
<1>1. CASE OnFill
  BY <1>1, OnFillFresh
<1>2. CASE \E e \in Execs : OnCommission(e)
  BY <1>2, OnCommissionFresh
<1>3. CASE \E e \in delivered..N : \E unsent \in SUBSET Unsent(e) : Restart(e, unsent)
  BY <1>3, RestartFresh
<1>4. CASE \E e \in Execs : \E commission \in {0, report[e].commission} : ReplayFill(e, commission)
  BY <1>4, ReplayFillFresh
<1>5. CASE \E amount \in Capital : RegisterCapitalEvent(amount)
  <2>1. UNCHANGED <<wire, trackers, books>> /\ UpdatePortfolioBalances
    BY <1>5 DEF RegisterCapitalEvent
  <2>2. SettledBalanceIsFresh'
    BY <2>1 DEF UpdatePortfolioBalances, SettledBalanceIsFresh, Balanced
  <2>4. EmptyFresh'
    BY <2>1 DEF UpdatePortfolioBalances, EmptyFresh, Balanced
  <2>3. HookedCounts' /\ ReplayUnhooked' /\ StoredDelivered' /\ ReplayDelivered'
    BY <2>1 DEF FreshInv, wire, trackers, books, HookedCounts, OfOrder, ReplayUnhooked,
                StoredDelivered, ReplayDelivered
  <2> QED BY <2>2, <2>3, <2>4 DEF FreshInv
<1>6. CASE UNCHANGED vars
  <2>1. UNCHANGED <<wire, trackers, books, cash>>
    BY <1>6 DEF vars
  <2>2. SettledBalanceIsFresh'
    BY <2>1 DEF wire, trackers, books, cash, FreshInv, SettledBalanceIsFresh, Settled, Filled,
                FilledQuantity, Balanced
  <2>3. HookedCounts' /\ ReplayUnhooked' /\ StoredDelivered' /\ ReplayDelivered'
    BY <2>1 DEF FreshInv, wire, trackers, books, HookedCounts, OfOrder, ReplayUnhooked,
                StoredDelivered, ReplayDelivered
  <2>4. EmptyFresh'
    BY <2>1 DEF books, cash, FreshInv, EmptyFresh, Balanced
  <2> QED BY <2>2, <2>3, <2>4 DEF FreshInv
<1> QED BY <1>1, <1>2, <1>3, <1>4, <1>5, <1>6 DEF Next

\* When every order with executions has been filled and reported to one process, and no
\* booking that raised has left a negative position in memory, the balance the next start
\* reads its cash from is the one of the ledger.
THEOREM SettledBalancesAreFresh == Spec => []SettledBalanceIsFresh
<1>1. FreshInv => SettledBalanceIsFresh
  BY DEF FreshInv
<1>2. BookInv /\ FreshInv /\ [Next]_vars => BookInv' /\ FreshInv'
  BY NextBookInv, NextFresh
<1> QED BY <1>1, <1>2, InitBookInv, InitFresh, PTL DEF Spec
=============================================================================
