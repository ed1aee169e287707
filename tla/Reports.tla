------------------------------- MODULE Reports -------------------------------
(***************************************************************************)
(* What a shop owner is told about the orders of the shop: the home page,  *)
(* analytics, payments, customers and the totals of the profile.  Each     *)
(* service has queries of its own over the Order table, and each cuts time *)
(* into days, weeks and months its own way.                                *)
(* Time is counted in hours; day 0 is a Monday.                            *)
(***************************************************************************)
EXTENDS Integers, FiniteSets, Sequences, FiniteSetsExt

CONSTANTS
    Buyer,
    Total,       \* the totals of the orders, in the order they are placed
    Moment,      \* bound: the hours at which something is placed or read
    MonthStart,  \* the first days of some months, the last one excluded
    Regular      \* REGULAR_THRESHOLD

ASSUME ReportsAssumption ==
    /\ Total \in Seq(Nat) /\ Regular \in Nat
    /\ Moment \subseteq Nat /\ MonthStart \subseteq Nat /\ 0 \in MonthStart
    /\ Moment # {} /\ \A t \in Moment : t >= 7 * 24 /\ \E m \in MonthStart : t < 24 * m

VARIABLES
    sales,       \* the Order rows
    hour         \* the clock

reportVars == <<sales, hour>>

\* confirmed stands for every status up to in_transit: no report tells them
\* apart.  No code writes the status refunded.
SaleStatus == {"pending", "confirmed", "delivered", "cancelled"}
Sale == [buyer : Buyer, status : SaleStatus, at : Moment]

ReportsTypeOK ==
    /\ sales \in Seq(Sale) /\ Len(sales) <= Len(Total)
    /\ hour \in Moment

ReportsInit ==
    /\ sales = <<>>
    /\ hour = Min(Moment)

PlaceSale(b) ==
    /\ Len(sales) < Len(Total)
    /\ sales' = Append(sales, [buyer |-> b, status |-> "pending", at |-> hour])
    /\ UNCHANGED hour

\* The steps of an order's status that a report can see.
Becomes ==
    {<<"pending", "confirmed">>, <<"pending", "cancelled">>,
     <<"confirmed", "cancelled">>, <<"confirmed", "delivered">>}

MoveSale(o, to) ==
    /\ <<sales[o].status, to>> \in Becomes
    /\ sales' = [sales EXCEPT ![o].status = to]
    /\ UNCHANGED hour

Wait(t) ==
    /\ t > hour
    /\ hour' = t
    /\ UNCHANGED sales

ReportsNext ==
    \/ \E b \in Buyer : PlaceSale(b)
    \/ \E o \in DOMAIN sales, to \in SaleStatus : MoveSale(o, to)
    \/ \E t \in Moment : Wait(t)

ReportsSpec == ReportsInit /\ [][ReportsNext]_reportVars

-----------------------------------------------------------------------------
(* Dates. *)

DayOf(t) == t \div 24
HourOf(t) == t % 24
Weekday(d) == (d + 1) % 7                   \* getDay(): 0 is Sunday
SinceMonday(d) == (Weekday(d) + 6) % 7
Monday_FromSunday(d) == d - Weekday(d)
Monday(d) == d - SinceMonday(d)
MonthOf(d) == Max({m \in MonthStart : m <= d})
MonthAfter(d) == Min({m \in MonthStart : m > d})
Period == {"today", "week", "month"}

DateRange(period, t) ==
    LET d == DayOf(t)
        days == [today |-> <<d, d>>, week |-> <<Monday(d), Monday(d) + 6>>,
                 month |-> <<MonthOf(d), MonthAfter(d) - 1>>]
    IN  [gte |-> 24 * days[period][1], lte |-> 24 * days[period][2] + 23]

PreviousRange(r) == [gte |-> r.gte - (r.lte - r.gte) - 1, lte |-> r.gte - 1]

-----------------------------------------------------------------------------
(* Queries. *)

With(statuses) == {o \in DOMAIN sales : sales[o].status \in statuses}
In(r) == {o \in DOMAIN sales : sales[o].at \in r.gte..r.lte}
Sum(S) == MapThenSumSet(LAMBDA o : Total[o], S)

\* status: { notIn: ['cancelled', 'refunded'] }
Counted == With(SaleStatus \ {"cancelled"})

OrdersOf(b) == {o \in DOMAIN sales : sales[o].buyer = b}
Customers == {b \in Buyer : OrdersOf(b) # {}}
FirstOrder(b) == Min({sales[o].at : o \in OrdersOf(b)})
LastOrder(b) == Max({sales[o].at : o \in OrdersOf(b)})

\* Analytics: the buyers whose first order is in the range.
NewCustomers(r) == {b \in Customers : FirstOrder(b) \in r.gte..r.lte}

Stats(r) ==
    [revenue |-> Sum(Counted \cap In(r)), orders |-> Cardinality(Counted \cap In(r)),
     new |-> Cardinality(NewCustomers(r))]

\* The chart: labels stand for themselves.
Buckets ==
    [today |-> {"6am", "9am", "12pm", "3pm", "6pm", "9pm", "Now"},
     week |-> {"Mon", "Tue", "Wed", "Thu", "Fri", "Sat", "Sun"},
     month |-> {"W1", "W2", "W3", "W4", "W5"}]

Least(m, n) == IF m < n THEN m ELSE n
BucketKey(t, period) ==
    LET h == HourOf(t)
        third == IF h < 9 THEN 1 ELSE h \div 3 - 1
        week == (DayOf(t) - MonthOf(DayOf(t))) \div 7 + 1
        label == [today |-> <<"6am", "9am", "12pm", "3pm", "6pm", "9pm">>[third],
                  week |-> <<"Mon", "Tue", "Wed", "Thu", "Fri", "Sat", "Sun">>
                             [SinceMonday(DayOf(t)) + 1],
                  month |-> <<"W1", "W2", "W3", "W4", "W5">>[Least(week, 5)]]
    IN  label[period]

Chart(period) ==
    [label \in Buckets[period] |->
       Sum({o \in Counted \cap In(DateRange(period, hour)) :
              BucketKey(sales[o].at, period) = label})]

\* Home.
Today ==
    LET r == [gte |-> 24 * DayOf(hour), lte |-> 24 * DayOf(hour) + 23]
    IN  [revenue |-> Sum(Counted \cap In(r)),
         orders |-> Cardinality(Counted \cap In(r))]

\* Payments.
Earned == Sum(With({"delivered"}))
PendingBalance == Sum(With({"confirmed"}))
Transactions == With({"delivered", "cancelled"})      \* all of them credits
Invoices == With(SaleStatus \ {"cancelled"})

\* The ISO week, named by its Thursday.
IsoWeek(t) == DayOf(t) + 3 - SinceMonday(DayOf(t))

Payouts ==
    [w \in {IsoWeek(sales[o].at) : o \in With({"delivered"})} |->
       [amount |-> Sum({o \in With({"delivered"}) : IsoWeek(sales[o].at) = w}),
        status |-> IF w = IsoWeek(hour) THEN "pending" ELSE "completed"]]

\* Customers.
Summary ==
    [total |-> Cardinality(Customers),
     regular |-> Cardinality({b \in Customers : Cardinality(OrdersOf(b)) >= Regular}),
     new |-> Cardinality({b \in Customers : LastOrder(b) >= hour - 7 * 24})]

Spent(b) == Sum(OrdersOf(b))

\* Profile: every order, cancelled or not.
Lifetime == [orders |-> Len(sales), revenue |-> Sum(DOMAIN sales),
             customers |-> Cardinality(Customers)]

-----------------------------------------------------------------------------
Added(f) == MapThenSumSet(LAMBDA x : f[x], DOMAIN f)

\* Each bar of a chart holds part of the revenue printed above it, and the
\* bars leave nothing out.
ChartAddsUp ==
    \A p \in Period : Added(Chart(p)) = Stats(DateRange(p, hour)).revenue

\* The home page, and the payout still pending, agree with analytics.
PagesAgree ==
    LET week == DateRange("week", hour)
        due == {w \in DOMAIN Payouts : Payouts[w].status = "pending"}
    IN  /\ Today.revenue = Stats(DateRange("today", hour)).revenue
        /\ Today.orders = Stats(DateRange("today", hour)).orders
        /\ Sum(With({"delivered"}) \cap In(week)) =
             Added([w \in due |-> Payouts[w].amount])

\* What payments call earned is paid out once; with what is pending it is the
\* revenue of analytics, and without the cancelled orders the credits listed.
MoneyAddsUp ==
    /\ Earned = Added([w \in DOMAIN Payouts |-> Payouts[w].amount])
    /\ Sum(Counted) = Earned + PendingBalance + Sum(With({"pending"}))
    /\ Sum(Transactions) = Earned + Sum(With({"cancelled"}))
    /\ Lifetime.revenue = Sum(Invoices) + Sum(With({"cancelled"}))
    /\ Lifetime.revenue = Added([b \in Customers |-> Spent(b)])

\* Nobody is new twice, and whoever analytics calls new today the customers
\* page calls new this week.
BuyersAreNewOnce ==
    /\ \A p \in {"today", "week"} :
         LET r == DateRange(p, hour)
         IN  /\ NewCustomers(r) \cap NewCustomers(PreviousRange(r)) = {}
             /\ PreviousRange(r) = DateRange(p, r.gte - 1)
    /\ Stats(DateRange("today", hour)).new <= Summary.new
    /\ Summary.regular <= Summary.total

\* The figures one owner sees on different pages tell one story, at every
\* hour of the calendar: Sunday night, the turn of a month, before opening.
ReportsAgree == ChartAddsUp /\ PagesAgree /\ MoneyAddsUp /\ BuyersAreNewOnce
=============================================================================
