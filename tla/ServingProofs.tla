---------------------------- MODULE ServingProofs ----------------------------
(***************************************************************************)
(* Theorems about ApiServer, for every number of requests and queries: a   *)
(* shutdown keeps its order; about TransferQueries, for every table and    *)
(* page size: each answer of GET /transfers is right, and a client that    *)
(* pages through them misses nothing; and about ExplorerQueries, for every *)
(* radix, page size, window and chain: rankings, counts and ranges.        *)
(***************************************************************************)
EXTENDS ApiServer, TransferQueries, ExplorerQueries, FiniteSetTheorems, SequenceTheorems, TLAPS

\* What Start and its shutdown goroutine guarantee to each other: nothing is
\* accepted before the port is open or once the shutdown has begun, and the
\* shutdown is done only with no connection open.
Draining ==
  /\ connOf \in [Requests -> {"none", "open", "answered", "cut"}]
  /\ start \in {"starting", "failed"} => ~listening /\ \A r \in Requests : connOf[r] = "none"
  /\ drain # "waiting" => ~listening
  /\ drain = "done" => \A r \in Requests : connOf[r] # "open"
  /\ start \in {"waiting", "returned"} => drain # "waiting"
  /\ start = "returned" => drain = "done"
  /\ (\E r \in Requests : connOf[r] = "cut") => forced

\* A connection that is neither open nor cut has no handler with a query left, and
\* a handler that came too late has lost its connection.
Handling ==
  /\ handler \in [Requests -> 0 .. NotStarted]
  /\ \A r \in Requests : connOf[r] = "none" => handler[r] = NotStarted
  /\ \A r \in Requests : connOf[r] = "answered" => handler[r] = 0
  /\ \A r \in late : r \in Requests /\ connOf[r] = "cut"

\* What runAPIOnly waits for.
Awaiting ==
  /\ caller \in {"selecting", "waiting", "closing"}
  /\ caller # "selecting" => signalled
  /\ exit = 0 => caller = "closing"
  /\ caller = "closing" => start \in {"returned", "failed"}
  /\ ~dbOpen => caller = "closing"

LEMMA DrainingInit == ServerInit => Draining
  BY DEF ServerInit, Draining

LEMMA DrainingStart == Draining /\ StartStep => Draining'
  <1> SUFFICES ASSUME Draining, StartStep PROVE Draining'
    OBVIOUS
  <1>1. UNCHANGED <<connOf, drain, forced>>
    BY DEF StartStep, Listen, Served, StartReturns, clients
  <1>2. CASE Listen
    BY <1>1, <1>2 DEF Draining, Listen
  <1>3. CASE Served
    BY <1>1, <1>3 DEF Draining, Served
  <1>4. CASE StartReturns
    BY <1>1, <1>4 DEF Draining, StartReturns
  <1> QED
    BY <1>2, <1>3, <1>4 DEF StartStep

LEMMA DrainingDrain == Draining /\ DrainStep => Draining'
  <1> SUFFICES ASSUME Draining, DrainStep PROVE Draining'
    OBVIOUS
  <1>1. CASE Shutdown
    BY <1>1 DEF Draining, Shutdown, clients
  <1>2. CASE DrainEnds
    BY <1>2 DEF Draining, DrainEnds, clients
  <1>3. CASE DrainTimesOut
    BY <1>3 DEF Draining, DrainTimesOut
  <1> QED
    BY <1>1, <1>2, <1>3 DEF DrainStep

LEMMA DrainingRequest ==
  ASSUME Draining, NEW r \in Requests, Accept(r) \/ HandlerQuery(r) \/ Answer(r)
  PROVE  Draining'
  <1>1. CASE Accept(r)
    BY <1>1 DEF Draining, Accept, server
  <1>2. CASE HandlerQuery(r)
    BY <1>2 DEF Draining, HandlerQuery, server
  <1>3. CASE Answer(r)
    BY <1>3 DEF Draining, Answer, server
  <1> QED
    BY <1>1, <1>2, <1>3

\* The caller and the signal leave the server alone.
LEMMA CallerFrame ==
  ASSUME CallerStep \/ WorkDone \/ Signal \/ UNCHANGED serverVars
  PROVE  UNCHANGED <<start, drain, forced, listening, connOf>>
  BY DEF CallerStep, Cancel, WorkDone, WorkCancelled, SelectSignal, SelectError, WaitForStart,
         CloseDb, Exit, Signal, serverVars, server, clients

LEMMA DrainingInductive == Draining /\ [ServerNext]_serverVars => Draining'
  <1> SUFFICES ASSUME Draining, [ServerNext]_serverVars PROVE Draining'
    OBVIOUS
  <1>1. CASE CallerStep \/ WorkDone \/ Signal \/ UNCHANGED serverVars
    BY <1>1, CallerFrame DEF Draining
  <1> QED
    BY <1>1, DrainingStart, DrainingDrain, DrainingRequest DEF ServerNext

\* Which program runs does not change.
LEMMA ProgramFixed == [ServerNext]_serverVars => apiOnly' = apiOnly
  BY DEF ServerNext, StartStep, DrainStep, CallerStep, Listen, Served, StartReturns, Shutdown,
         DrainEnds, DrainTimesOut, Cancel, WorkDone, WorkCancelled, SelectSignal, SelectError,
         WaitForStart, CloseDb, Exit, Signal, Accept, HandlerQuery, Answer, serverVars

LEMMA AwaitingInit == apiOnly /\ ServerInit => Awaiting /\ Handling
  BY ApiServerAssumption DEF ServerInit, Awaiting, Handling, NotStarted, Running

LEMMA AwaitingInductive == apiOnly /\ Awaiting /\ [ServerNext]_serverVars => Awaiting'
  <1> SUFFICES ASSUME apiOnly, Awaiting, [ServerNext]_serverVars PROVE Awaiting'
    OBVIOUS
  <1>1. CASE CallerStep \/ WorkDone
    <2>1. UNCHANGED start
      BY <1>1, CallerFrame
    <2>2. SelectSignal \/ SelectError \/ WaitForStart \/ CloseDb \/ Exit
      BY <1>1 DEF CallerStep, Cancel, WorkDone, WorkCancelled
    <2>3. CASE SelectSignal \/ WaitForStart
      BY <2>1, <2>3 DEF Awaiting, SelectSignal, WaitForStart
    <2>4. CASE SelectError
      BY <2>1, <2>4 DEF Awaiting, SelectError
    <2>5. CASE CloseDb \/ Exit
      BY <2>1, <2>5 DEF Awaiting, CloseDb, Exit
    <2> QED
      BY <2>2, <2>3, <2>4, <2>5
  <1>2. CASE StartStep
    BY <1>2 DEF Awaiting, StartStep, Listen, Served, StartReturns
  <1>3. CASE DrainStep
    BY <1>3 DEF Awaiting, DrainStep, Shutdown, DrainEnds, DrainTimesOut
  <1>4. CASE Signal \/ UNCHANGED serverVars
    BY <1>4 DEF Awaiting, Signal, serverVars, server
  <1>5. ASSUME NEW r \in Requests, Accept(r) \/ HandlerQuery(r) \/ Answer(r)
        PROVE  Awaiting'
    BY <1>5 DEF Awaiting, Accept, HandlerQuery, Answer, server
  <1> QED
    BY <1>1, <1>2, <1>3, <1>4, <1>5 DEF ServerNext

\* Once runAPIOnly() has closed the database only cut connections are left.
LEMMA NothingOpenAtClose ==
  ASSUME Draining, Awaiting, Handling, ~dbOpen, NEW r \in Requests, handler[r] \in 1 .. Queries
  PROVE  connOf[r] = "cut"
  <1>1. start \in {"returned", "failed"}
    BY DEF Awaiting
  <1>2. connOf[r] \notin {"none", "answered"}
    BY ApiServerAssumption DEF Handling, NotStarted
  <1> QED
    BY <1>1, <1>2 DEF Draining

LEMMA HandlingInductive ==
  Draining /\ Awaiting /\ Handling /\ [ServerNext]_serverVars => Handling'
  <1> SUFFICES ASSUME Draining, Awaiting, Handling, [ServerNext]_serverVars PROVE Handling'
    OBVIOUS
  <1>1. CASE StartStep \/ CallerStep \/ WorkDone \/ Signal \/ UNCHANGED serverVars
    <2>1. UNCHANGED <<connOf, handler, late>>
      BY <1>1 DEF StartStep, Listen, Served, StartReturns, CallerStep, Cancel, WorkDone,
             WorkCancelled, SelectSignal, SelectError, WaitForStart, CloseDb, Exit, Signal,
             clients, serverVars
    <2> QED
      BY <2>1 DEF Handling
  <1>2. CASE DrainStep
    BY <1>2 DEF Handling, Draining, DrainStep, Shutdown, DrainEnds, DrainTimesOut, clients
  <1>3. ASSUME NEW r \in Requests, Accept(r) PROVE Handling'
    BY <1>3, ApiServerAssumption DEF Handling, Draining, Accept, NotStarted
  <1>4. ASSUME NEW r \in Requests, HandlerQuery(r) PROVE Handling'
    <2>1. handler[r] \in 1 .. Queries /\ connOf' = connOf
      BY <1>4 DEF HandlerQuery
    <2>2. connOf[r] \notin {"none", "answered"}
      BY <2>1, ApiServerAssumption DEF Handling, NotStarted
    <2>3. CASE dbOpen
      <3>1. handler' = [handler EXCEPT ![r] = @ - 1] /\ late' = late
        BY <1>4, <2>3 DEF HandlerQuery
      <3>2. handler' \in [Requests -> 0 .. NotStarted]
        BY <2>1, <3>1, ApiServerAssumption DEF Handling, NotStarted
      <3>3. \A q \in Requests : connOf[q] \in {"none", "answered"} => handler'[q] = handler[q]
        BY <2>2, <3>1 DEF Handling
      <3> QED
        BY <2>1, <3>1, <3>2, <3>3 DEF Handling
    <2>4. CASE ~dbOpen
      <3>1. handler' = [handler EXCEPT ![r] = 0] /\ late' = late \cup {r}
        BY <1>4, <2>4 DEF HandlerQuery
      <3>2. connOf[r] = "cut"
        BY <2>1, <2>4, NothingOpenAtClose
      <3>3. handler' \in [Requests -> 0 .. NotStarted]
        BY <3>1, ApiServerAssumption DEF Handling, NotStarted
      <3> QED
        BY <2>1, <2>2, <3>1, <3>2, <3>3 DEF Handling
    <2> QED
      BY <2>3, <2>4
  <1>5. ASSUME NEW r \in Requests, Answer(r) PROVE Handling'
    BY <1>5 DEF Handling, Draining, Answer
  <1> QED
    BY <1>1, <1>2, <1>3, <1>4, <1>5 DEF ServerNext

\* All of it, for the program that only serves.
ServingOnly == Draining /\ (apiOnly => Awaiting /\ Handling)

LEMMA ServingOnlyInit == ServerInit => ServingOnly
  BY DrainingInit, AwaitingInit DEF ServingOnly

LEMMA ServingOnlyInductive == ServingOnly /\ [ServerNext]_serverVars => ServingOnly'
  BY DrainingInductive, AwaitingInductive, HandlingInductive, ProgramFixed DEF ServingOnly

\* Answer, close the port, drain or cut, close the database, exit: OrderlyShutdown,
\* the answers of a clean shutdown in main() as in runAPIOnly(), the rest of it in
\* runAPIOnly(), which waits for Start.
THEOREM ShutdownInOrder == ServerSpec => []OrderlyShutdown
  <1>1. ServingOnly => OrderlyShutdown
    <2> SUFFICES ASSUME ServingOnly PROVE OrderlyShutdown
      OBVIOUS
    <2>1. DrainedBeforeClose
      BY DEF ServingOnly, Draining, Awaiting, DrainedBeforeClose
    <2>2. LateOnlyIfForced
      BY DEF ServingOnly, Draining, Handling, LateOnlyIfForced
    <2>3. CleanMeansAnswered
      BY DEF ServingOnly, Draining, CleanMeansAnswered
    <2>4. ExitCodeTellsFailure
      BY DEF ServingOnly, Awaiting, ExitCodeTellsFailure
    <2> QED
      BY <2>1, <2>2, <2>3, <2>4 DEF OrderlyShutdown
  <1> QED
    BY <1>1, ServingOnlyInit, ServingOnlyInductive, PTL DEF ServerSpec

\* The flags, and everything else.
Flags ==
  /\ apiOnly \in BOOLEAN /\ forced \in BOOLEAN /\ listening \in BOOLEAN
  /\ signalled \in BOOLEAN /\ cancelled \in BOOLEAN /\ dbOpen \in BOOLEAN

Stages ==
  /\ caller \in Work \cup {"selecting", "waiting", "closing"}
  /\ start \in {"starting", "serving", "failed", "waiting", "returned"}
  /\ drain \in {"waiting", "draining", "done"}
  /\ exit \in {0, 1, Running}

RequestTypes ==
  /\ connOf \in [Requests -> {"none", "open", "answered", "cut"}]
  /\ handler \in [Requests -> 0 .. NotStarted]
  /\ late \subseteq Requests

LEMMA FlagsInductive == Flags /\ [ServerNext]_serverVars => Flags'
  BY Zenon
  DEF Flags, ServerNext, StartStep, DrainStep, CallerStep, Listen, Served, StartReturns, Shutdown,
      DrainEnds, DrainTimesOut, Cancel, WorkDone, WorkCancelled, SelectSignal, SelectError,
      WaitForStart, CloseDb, Exit, Signal, Accept, HandlerQuery, Answer, serverVars, server

LEMMA StagesInductive == Stages /\ [ServerNext]_serverVars => Stages'
  <1> SUFFICES ASSUME Stages, [ServerNext]_serverVars PROVE Stages'
    OBVIOUS
  <1>1. CASE StartStep
    BY <1>1 DEF Stages, StartStep, Listen, Served, StartReturns
  <1>2. CASE DrainStep
    BY <1>2 DEF Stages, DrainStep, Shutdown, DrainEnds, DrainTimesOut
  <1>3. CASE CallerStep
    BY <1>3 DEF Stages, CallerStep, Cancel, WorkCancelled, SelectSignal, SelectError,
                WaitForStart, CloseDb, Exit, server
  <1>4. CASE WorkDone
    <2>1. caller' \in Work
      BY <1>4 DEF WorkDone, After, Work
    <2> QED
      BY <1>4, <2>1 DEF Stages, WorkDone, server
  <1>5. CASE Signal \/ UNCHANGED serverVars
    BY <1>5 DEF Stages, Signal, serverVars, server
  <1>6. ASSUME NEW r \in Requests, Accept(r) \/ HandlerQuery(r) \/ Answer(r)
        PROVE  Stages'
    BY <1>6 DEF Stages, Accept, HandlerQuery, Answer, server
  <1> QED
    BY <1>1, <1>2, <1>3, <1>4, <1>5, <1>6 DEF ServerNext

LEMMA RequestTypesInductive == RequestTypes /\ [ServerNext]_serverVars => RequestTypes'
  <1> SUFFICES ASSUME RequestTypes, [ServerNext]_serverVars PROVE RequestTypes'
    OBVIOUS
  <1>1. CASE StartStep \/ DrainStep
    BY <1>1 DEF RequestTypes, StartStep, DrainStep, Listen, Served, StartReturns, Shutdown,
                DrainEnds, DrainTimesOut, clients
  <1>2. CASE CallerStep \/ WorkDone \/ Signal \/ UNCHANGED serverVars
    BY <1>2 DEF RequestTypes, CallerStep, Cancel, WorkDone, WorkCancelled, SelectSignal,
                SelectError, WaitForStart, CloseDb, Exit, Signal, serverVars, clients
  <1>3. ASSUME NEW r \in Requests, Accept(r) \/ HandlerQuery(r) \/ Answer(r)
        PROVE  RequestTypes'
    <2>1. Queries \in 0 .. NotStarted /\ NotStarted \in Nat
      BY ApiServerAssumption DEF NotStarted
    <2>2. CASE Accept(r)
      BY <2>1, <2>2 DEF RequestTypes, Accept
    <2>3. CASE HandlerQuery(r)
      <3>1. handler[r] \in Nat /\ handler[r] - 1 \in 0 .. NotStarted
        BY <2>1, <2>3, ApiServerAssumption DEF HandlerQuery, NotStarted
      <3> QED
        BY <2>1, <2>3, <3>1 DEF RequestTypes, HandlerQuery
    <2>4. CASE Answer(r)
      BY <2>4 DEF RequestTypes, Answer
    <2> QED
      BY <1>3, <2>2, <2>3, <2>4
  <1> QED
    BY <1>1, <1>2, <1>3 DEF ServerNext

\* Both programs stay within their states: no handler goes below its last query,
\* and the exit code is one of those the code gives.
THEOREM ServerTyped == ServerSpec => []ServerTypeOK
  <1>1. ServerInit => Flags /\ Stages /\ RequestTypes
    <2> SUFFICES ASSUME ServerInit PROVE Flags /\ Stages /\ RequestTypes
      OBVIOUS
    <2>1. Flags
      BY Zenon DEF ServerInit, Flags
    <2>2. Stages
      BY DEF ServerInit, Stages, Work
    <2>3. RequestTypes
      BY ApiServerAssumption DEF ServerInit, RequestTypes, NotStarted
    <2> QED
      BY <2>1, <2>2, <2>3
  <1>2. Flags /\ Stages /\ RequestTypes => ServerTypeOK
    <2> SUFFICES ASSUME Flags, Stages, RequestTypes PROVE ServerTypeOK
      OBVIOUS
    <2>1. {apiOnly, forced, listening, signalled, cancelled, dbOpen} \subseteq BOOLEAN
      BY Zenon DEF Flags
    <2> QED
      BY <2>1, Zenon DEF Stages, RequestTypes, ServerTypeOK
  <1> QED
    BY <1>1, <1>2, FlagsInductive, StagesInductive, RequestTypesInductive, PTL DEF ServerSpec

-----------------------------------------------------------------------------
(* The place of a row in a feed. *)

\* The rows are rows, as TransfersTypeOK says.
Rows == transfers \in Seq(Row) /\ height \in Nat

Above(i, ids) == {j \in ids : Newer(j, i)}

\* How many rows of ids come before row i.
Place(i, ids) == Cardinality(Above(i, ids))

LEMMA RowTypes ==
  ASSUME Rows
  PROVE  /\ Ids = 1 .. Len(transfers) /\ Len(transfers) \in Nat
         /\ IsFiniteSet(Ids)
         /\ \A i \in Ids : i \in Nat /\ transfers[i] \in Row /\ transfers[i].height \in Nat
  <1>1. Ids = 1 .. Len(transfers) /\ Len(transfers) \in Nat
    BY LenProperties DEF Rows, Ids
  <1>2. IsFiniteSet(Ids)
    BY <1>1, FS_Interval
  <1>3. \A i \in Ids : transfers[i] \in Row
    BY <1>1, ElementOfSeq DEF Rows
  <1> QED
    BY <1>1, <1>2, <1>3, TransferQueriesAssumption DEF Row

\* The chain order is a strict total order of the rows.
LEMMA ChainOrder ==
  ASSUME Rows, NEW i \in Ids, NEW j \in Ids
  PROVE  /\ ~Newer(i, i)
         /\ Newer(i, j) => ~Newer(j, i)
         /\ i # j => Newer(i, j) \/ Newer(j, i)
         /\ \A m \in Ids : Newer(i, j) /\ Newer(j, m) => Newer(i, m)
  BY RowTypes DEF Newer

LEMMA Finite ==
  ASSUME Rows, NEW ids \in SUBSET Ids
  PROVE  IsFiniteSet(ids) /\ Cardinality(ids) \in Nat
  BY RowTypes, FS_Subset, FS_CardinalityType

\* A row above another has a smaller place.
LEMMA PlaceFalls ==
  ASSUME Rows, NEW ids \in SUBSET Ids, NEW i \in ids, NEW j \in ids, Newer(j, i)
  PROVE  Place(j, ids) < Place(i, ids)
  <1>1. Above(j, ids) \subseteq Above(i, ids)
    BY ChainOrder DEF Above
  <1>2. j \in Above(i, ids) /\ j \notin Above(j, ids)
    BY ChainOrder DEF Above
  <1>3. IsFiniteSet(Above(i, ids)) /\ IsFiniteSet(Above(j, ids))
        /\ Cardinality(Above(i, ids)) \in Nat /\ Cardinality(Above(j, ids)) \in Nat
    BY Finite DEF Above
  <1>4. /\ Cardinality(Above(j, ids)) <= Cardinality(Above(i, ids))
        /\ Cardinality(Above(i, ids)) = Cardinality(Above(j, ids)) => Above(i, ids) = Above(j, ids)
    BY <1>1, <1>3, FS_Subset
  <1> QED
    BY <1>2, <1>3, <1>4 DEF Place

LEMMA PlaceType ==
  ASSUME Rows, NEW ids \in SUBSET Ids, NEW i \in ids
  PROVE  Place(i, ids) \in 0 .. Cardinality(ids) - 1
  <1>1. IsFiniteSet(ids) /\ Cardinality(ids) \in Nat
    BY Finite
  <1>2. Above(i, ids) \subseteq ids \ {i}
    BY ChainOrder DEF Above
  <1>3. IsFiniteSet(ids \ {i}) /\ Cardinality(ids \ {i}) = Cardinality(ids) - 1
    BY <1>1, FS_RemoveElement
  <1>4. IsFiniteSet(Above(i, ids)) /\ Cardinality(Above(i, ids)) <= Cardinality(ids) - 1
    BY <1>2, <1>3, FS_Subset
  <1>5. Cardinality(Above(i, ids)) \in Nat
    BY <1>4, FS_CardinalityType
  <1> QED
    BY <1>1, <1>4, <1>5 DEF Place

\* Two rows never share a place, and no place is empty.
LEMMA PlaceUnique ==
  ASSUME Rows, NEW ids \in SUBSET Ids, NEW i \in ids, NEW j \in ids,
         Place(i, ids) = Place(j, ids)
  PROVE  i = j
  <1>1. Place(i, ids) \in Int /\ Place(j, ids) \in Int
    BY PlaceType, Finite
  <1> QED
    BY <1>1, PlaceFalls, ChainOrder

LEMMA PlaceTaken ==
  ASSUME Rows, NEW ids \in SUBSET Ids, NEW n \in 0 .. Cardinality(ids) - 1
  PROVE  \E i \in ids : Place(i, ids) = n
  <1> DEFINE N == Cardinality(ids)
             f == [i \in ids |-> Place(i, ids)]
  <1>1. IsFiniteSet(ids) /\ N \in Nat
    BY Finite
  <1>2. IsFiniteSet(0 .. N - 1) /\ Cardinality(0 .. N - 1) = N
    <2>1. 0 \in Int /\ N - 1 \in Int
      BY <1>1
    <2> QED
      BY <1>1, <2>1, FS_Interval
  <1>3. f \in [ids -> 0 .. N - 1]
    BY PlaceType
  <1>4. \A i, j \in ids : f[i] = f[j] => i = j
    BY PlaceUnique
  <1>5. f \in Injection(ids, 0 .. N - 1)
    BY <1>3, <1>4 DEF Injection, IsInjective
  <1>6. f \in Surjection(ids, 0 .. N - 1)
    BY <1>2, <1>5, FS_Injection
  <1> QED
    BY <1>6 DEF Surjection

\* The row at place n of a feed.
LEMMA NewestFirstPlaces ==
  ASSUME Rows, NEW ids \in SUBSET Ids
  PROVE  /\ NewestFirst(ids) \in Seq(ids)
         /\ Len(NewestFirst(ids)) = Cardinality(ids)
         /\ \A n \in 1 .. Cardinality(ids) :
              NewestFirst(ids)[n] \in ids /\ Place(NewestFirst(ids)[n], ids) = n - 1
         /\ \A i \in ids : NewestFirst(ids)[Place(i, ids) + 1] = i
  <1> DEFINE s == NewestFirst(ids)
             N == Cardinality(ids)
  <1>1. N \in Nat
    BY Finite
  <1>2. \A n \in 1 .. N : s[n] = CHOOSE i \in ids : Place(i, ids) = n - 1
    BY DEF NewestFirst, Place, Above
  <1>3. \A n \in 1 .. N : s[n] \in ids /\ Place(s[n], ids) = n - 1
    <2> TAKE n \in 1 .. N
    <2>1. n - 1 \in 0 .. N - 1
      BY <1>1
    <2>2. \E i \in ids : Place(i, ids) = n - 1
      BY <2>1, PlaceTaken
    <2> QED
      BY <1>2, <2>2
  <1>4. s \in [1 .. N -> ids]
    BY <1>3 DEF NewestFirst
  <1>5. s \in Seq(ids) /\ Len(s) = N
    BY <1>1, <1>4
  <1>6. \A i \in ids : s[Place(i, ids) + 1] = i
    <2> TAKE i \in ids
    <2>1. Place(i, ids) \in 0 .. N - 1
      BY PlaceType
    <2>2. Place(i, ids) + 1 \in 1 .. N /\ Place(i, ids) + 1 - 1 = Place(i, ids)
      BY <1>1, <2>1
    <2> HIDE DEF s
    <2>3. PICK n \in 1 .. N : n = Place(i, ids) + 1 /\ n - 1 = Place(i, ids)
      BY <1>1, <2>1, <2>2
    <2>4. s[n] \in ids /\ Place(s[n], ids) = Place(i, ids)
      BY <1>3, <2>3
    <2> QED
      BY <2>3, <2>4, PlaceUnique
  <1> QED
    BY <1>3, <1>5, <1>6

(* Pages *)

\* The place after the last one of a page.
PageEnd(ids, limit, offset) ==
  IF limit + offset < Cardinality(ids) THEN limit + offset ELSE Cardinality(ids)

\* What a page is of.
IsPageOf(page, ids, limit, offset) ==
  LET end == PageEnd(ids, limit, offset) IN
  /\ page \in Seq(ids)
  /\ Len(page) = IF offset < end THEN end - offset ELSE 0
  /\ \A n \in 1 .. Len(page) : page[n] = NewestFirst(ids)[n + offset]

\* A page holds the rows at the places offset .. offset + limit - 1, in this order.
LEMMA PageHolds ==
  ASSUME Rows, NEW ids \in SUBSET Ids, NEW limit \in Nat, NEW offset \in Nat
  PROVE  IsPageOf(Page(NewestFirst(ids), limit, offset), ids, limit, offset)
  <1> DEFINE page == Page(NewestFirst(ids), limit, offset)
             last == PageEnd(ids, limit, offset)
  <1> DEFINE s == NewestFirst(ids)
             N == Cardinality(ids)
  <1>1. N \in Nat /\ last \in Nat /\ last <= N
    BY Finite DEF PageEnd
  <1>2. Len(s) = N /\ s \in Seq(ids) /\ \A n \in 1 .. N : s[n] \in ids
    BY NewestFirstPlaces
  <1>3. page = SubSeq(s, offset + 1, last)
    BY <1>2 DEF Page, PageEnd
  <1> HIDE DEF s, N, page, last
  <1>4. \A n \in offset + 1 .. last : s[n] \in ids
    BY <1>1, <1>2
  <1>5. /\ SubSeq(s, offset + 1, last) \in Seq(ids)
        /\ Len(SubSeq(s, offset + 1, last)) = IF offset + 1 <= last THEN last - (offset + 1) + 1 ELSE 0
        /\ \A n \in 1 .. last - (offset + 1) + 1 :
             SubSeq(s, offset + 1, last)[n] = s[(offset + 1) + n - 1]
    BY <1>1, <1>4, SubSeqProperties, offset + 1 \in Int, last \in Int
  <1>6. Len(page) = IF offset < last THEN last - offset ELSE 0
    BY <1>1, <1>3, <1>5
  <1>7. \A n \in 1 .. Len(page) : page[n] = s[n + offset]
    <2> TAKE n \in 1 .. Len(page)
    <2>1. n \in 1 .. last - (offset + 1) + 1 /\ (offset + 1) + n - 1 = n + offset
      BY <1>1, <1>6
    <2> QED
      BY <2>1, <1>3, <1>5
  <1> QED
    BY <1>3, <1>5, <1>6, <1>7 DEF s, page, last, IsPageOf

LEMMA PageSet ==
  ASSUME Rows, NEW ids \in SUBSET Ids, NEW limit \in Nat, NEW offset \in Nat
  PROVE  ToSet(Page(NewestFirst(ids), limit, offset))
           = {i \in ids : offset <= Place(i, ids) /\ Place(i, ids) < limit + offset}
  <1> DEFINE s == NewestFirst(ids)
             N == Cardinality(ids)
             page == Page(s, limit, offset)
             last == PageEnd(ids, limit, offset)
             shown == {i \in ids : offset <= Place(i, ids) /\ Place(i, ids) < limit + offset}
  <1>1. /\ N \in Nat /\ last \in Nat
        /\ last = IF limit + offset < N THEN limit + offset ELSE N
    BY Finite DEF PageEnd
  <1>2. /\ page \in Seq(ids) /\ Len(page) = (IF offset < last THEN last - offset ELSE 0)
        /\ \A n \in 1 .. Len(page) : page[n] = s[n + offset]
    BY PageHolds DEF IsPageOf
  <1>3. /\ \A n \in 1 .. N : s[n] \in ids /\ Place(s[n], ids) = n - 1
        /\ \A i \in ids : s[Place(i, ids) + 1] = i /\ Place(i, ids) \in 0 .. N - 1
    BY NewestFirstPlaces, PlaceType
  <1>4. DOMAIN page = 1 .. Len(page) /\ Len(page) \in Nat
    BY <1>2, LenProperties
  <1> HIDE DEF s, page, N, last
  <1>5. ASSUME NEW n \in 1 .. Len(page) PROVE page[n] \in shown
    <2>1. n + offset \in 1 .. N /\ n + offset - 1 < limit + offset /\ offset <= n + offset - 1
      BY <1>1, <1>2, <1>5
    <2>2. page[n] \in ids /\ Place(page[n], ids) = n + offset - 1
      BY <1>2, <1>3, <2>1
    <2> QED
      BY <2>1, <2>2
  <1>6. ASSUME NEW i \in shown PROVE \E n \in 1 .. Len(page) : page[n] = i
    <2>1. Place(i, ids) \in 0 .. N - 1 /\ s[Place(i, ids) + 1] = i
      BY <1>3
    <2>2. Place(i, ids) + 1 - offset \in 1 .. Len(page)
          /\ (Place(i, ids) + 1 - offset) + offset = Place(i, ids) + 1
      BY <1>1, <1>2, <2>1
    <2> QED
      BY <1>2, <2>1, <2>2
  <1>7. ToSet(page) = shown
    BY <1>4, <1>5, <1>6 DEF ToSet
  <1> QED
    BY <1>7 DEF page, s

(* The two sides of an address, merged *)

\* The first n places of M are those of U.
SameTop(M, U, n) ==
  /\ M \subseteq U
  /\ \A i \in U : Place(i, U) < n => i \in M /\ Place(i, M) = Place(i, U)
  /\ \A i \in M : Place(i, M) < n => Place(i, U) < n

Merged(A, B, n) == {i \in A : Place(i, A) < n} \cup {i \in B : Place(i, B) < n}

\* Taking the rows at the first n places of two sets first does not change the first n
\* places of their union.
LEMMA MergeKeepsTop ==
  ASSUME Rows, NEW A \in SUBSET Ids, NEW B \in SUBSET Ids, NEW n \in Nat
  PROVE  SameTop(Merged(A, B, n), A \cup B, n)
  <1> DEFINE U == A \cup B
             M == Merged(A, B, n)
  <1>1. M \subseteq U /\ U \in SUBSET Ids /\ M \in SUBSET Ids
    BY DEF Merged
  <1>2. IsFiniteSet(U) /\ Cardinality(U) \in Nat
    BY <1>1, Finite
  <1>3. ASSUME NEW X \in SUBSET U, NEW i \in X PROVE Place(i, X) <= Place(i, U) /\ Place(i, X) \in Nat /\ Place(i, U) \in Nat
    <2>1. Above(i, X) \subseteq Above(i, U) /\ Above(i, U) \in SUBSET Ids /\ Above(i, X) \in SUBSET Ids
      BY <1>3 DEF Above
    <2>2. IsFiniteSet(Above(i, U)) /\ Cardinality(Above(i, U)) \in Nat /\ Cardinality(Above(i, X)) \in Nat
      BY <2>1, Finite
    <2> QED
      BY <2>1, <2>2, FS_Subset DEF Place
  <1>4. \A i \in U : Place(i, U) < n => i \in M
    <2> SUFFICES ASSUME NEW i \in U, Place(i, U) < n PROVE i \in M
      OBVIOUS
    <2>1. CASE i \in A
      BY <2>1, <1>3 DEF Merged
    <2>2. CASE i \in B
      BY <2>2, <1>3 DEF Merged
    <2> QED
      BY <2>1, <2>2
  <1>5. \A i \in U : Place(i, U) < n => Place(i, M) = Place(i, U)
    <2> SUFFICES ASSUME NEW i \in U, Place(i, U) < n PROVE Place(i, M) = Place(i, U)
      OBVIOUS
    <2>1. ASSUME NEW j \in U, Newer(j, i) PROVE j \in M
      <3>1. Place(j, U) < Place(i, U) /\ Place(j, U) \in Nat /\ Place(i, U) \in Nat
        BY <1>1, <1>3, <2>1, PlaceFalls
      <3> QED
        BY <3>1, <1>4
    <2>2. Above(i, M) = Above(i, U)
      BY <1>1, <2>1 DEF Above
    <2> QED
      BY <2>2 DEF Place
  <1>6. \A i \in M : Place(i, M) < n => Place(i, U) < n
    <2> SUFFICES ASSUME NEW i \in M, Place(i, M) < n, ~(Place(i, U) < n) PROVE FALSE
      OBVIOUS
    <2>1. Place(i, M) \in Nat /\ Place(i, U) \in 0 .. Cardinality(U) - 1
      BY <1>1, <1>3, PlaceType
    <2>2. Place(i, M) \in 0 .. Cardinality(U) - 1
      BY <1>2, <2>1
    <2>3. PICK j \in U : Place(j, U) = Place(i, M)
      BY <1>1, <2>2, PlaceTaken
    <2>4. j \in M /\ Place(j, M) = Place(i, M)
      BY <1>4, <1>5, <2>3
    <2>5. i = j
      BY <1>1, <2>4, PlaceUnique
    <2> QED
      BY <2>3, <2>5
  <1> QED
    BY <1>1, <1>4, <1>5, <1>6 DEF SameTop

\* Two sets of rows whose first limit + offset places agree have the same page.
LEMMA SamePage ==
  ASSUME Rows, NEW U \in SUBSET Ids, NEW M \in SUBSET U, NEW limit \in Nat, NEW offset \in Nat,
         SameTop(M, U, limit + offset)
  PROVE  Page(NewestFirst(M), limit, offset) = Page(NewestFirst(U), limit, offset)
  <1> DEFINE sM == NewestFirst(M)
             sU == NewestFirst(U)
             end == PageEnd(U, limit, offset)
             pM == Page(sM, limit, offset)
             pU == Page(sU, limit, offset)
  <1>1. M \in SUBSET Ids
    OBVIOUS
  <1>2. /\ Cardinality(U) \in Nat /\ Cardinality(M) \in Nat
        /\ Cardinality(M) <= Cardinality(U)
    BY <1>1, Finite, FS_Subset
  <1>3. PageEnd(M, limit, offset) = end
    <2>1. Cardinality(M) < limit + offset => Cardinality(M) = Cardinality(U)
      <3> SUFFICES ASSUME Cardinality(M) < limit + offset, Cardinality(M) < Cardinality(U)
                   PROVE  FALSE
        BY <1>2
      <3>1. Cardinality(M) \in 0 .. Cardinality(U) - 1
        BY <1>2
      <3>2. PICK i \in U : Place(i, U) = Cardinality(M)
        BY <3>1, PlaceTaken
      <3>3. i \in M /\ Place(i, M) = Cardinality(M)
        BY <3>2 DEF SameTop
      <3>4. Place(i, M) \in 0 .. Cardinality(M) - 1
        BY <1>1, <3>3, PlaceType
      <3> QED
        BY <1>2, <3>3, <3>4
    <2> QED
      BY <1>2, <2>1 DEF PageEnd
  <1>4. end \in Nat /\ end <= limit + offset /\ end <= Cardinality(U) /\ end <= Cardinality(M)
    <2>1. end <= Cardinality(M)
      BY <1>2, <1>3 DEF PageEnd
    <2> QED
      BY <1>2, <2>1 DEF PageEnd
  <1>5. /\ pM \in Seq(M) /\ Len(pM) = (IF offset < end THEN end - offset ELSE 0)
        /\ \A n \in 1 .. Len(pM) : pM[n] = sM[n + offset]
    BY <1>1, <1>3, PageHolds DEF IsPageOf
  <1>6. /\ pU \in Seq(U) /\ Len(pU) = (IF offset < end THEN end - offset ELSE 0)
        /\ \A n \in 1 .. Len(pU) : pU[n] = sU[n + offset]
    BY PageHolds DEF IsPageOf
  <1>7. \A n \in 1 .. Cardinality(M) : sM[n] \in M /\ Place(sM[n], M) = n - 1
    BY <1>1, NewestFirstPlaces
  <1>8. \A i \in U : sU[Place(i, U) + 1] = i
    BY NewestFirstPlaces
  <1> HIDE DEF sM, sU, end, pM, pU
  <1>9. ASSUME NEW n \in 1 .. end PROVE sM[n] = sU[n]
    <2>1. sM[n] \in M /\ Place(sM[n], M) = n - 1
      BY <1>2, <1>4, <1>7
    <2>2. Place(sM[n], M) < limit + offset
      BY <1>4, <2>1
    <2>3. Place(sM[n], U) = n - 1
      BY <2>1, <2>2 DEF SameTop
    <2>4. Place(sM[n], U) + 1 = n
      BY <2>3
    <2> QED
      BY <1>8, <2>1, <2>4
  <1>10. \A n \in 1 .. Len(pM) : pM[n] = pU[n]
    <2> TAKE n \in 1 .. Len(pM)
    <2>1. n + offset \in 1 .. end
      BY <1>4, <1>5
    <2> QED
      BY <1>5, <1>6, <1>9, <2>1
  <1>11. pM \in Seq(U)
    BY <1>5, LenProperties
  <1> QED
    BY <1>5, <1>6, <1>10, <1>11, SeqEqual DEF pM, pU, sM, sU

\* One page of an address, for any limit and offset.
LEMMA PageByAddress ==
  ASSUME Rows, NEW a, NEW limit \in Nat, NEW offset \in Nat
  PROVE  ByAddress(a, limit, offset) =
           Page(NewestFirst(RowsFrom(a) \cup RowsTo(a)), limit, offset)
  <1> DEFINE A == RowsFrom(a)
             B == RowsTo(a)
             n == limit + offset
             M == ToSet(Page(NewestFirst(A), n, 0)) \cup ToSet(Page(NewestFirst(B), n, 0))
  <1>1. A \in SUBSET Ids /\ B \in SUBSET Ids /\ n \in Nat
    BY DEF RowsFrom, RowsTo
  <1>2. ASSUME NEW X \in SUBSET Ids
        PROVE  ToSet(Page(NewestFirst(X), n, 0)) = {i \in X : Place(i, X) < n}
    <2>1. ToSet(Page(NewestFirst(X), n, 0)) = {i \in X : 0 <= Place(i, X) /\ Place(i, X) < n + 0}
      BY <1>1, PageSet
    <2>2. \A i \in X : Place(i, X) \in Nat
      BY PlaceType, Finite
    <2> QED
      BY <1>1, <2>1, <2>2
  <1>3. M = Merged(A, B, n)
    BY <1>1, <1>2 DEF Merged
  <1>4. ByAddress(a, limit, offset) = Page(NewestFirst(M), limit, offset)
    BY DEF ByAddress
  <1> HIDE DEF A, B, M
  <1>5. SameTop(Merged(A, B, n), A \cup B, n)
    BY <1>1, MergeKeepsTop
  <1>6. M \in SUBSET (A \cup B) /\ A \cup B \in SUBSET Ids /\ SameTop(M, A \cup B, limit + offset)
    BY <1>1, <1>3, <1>5 DEF SameTop
  <1>7. Page(NewestFirst(M), limit, offset) = Page(NewestFirst(A \cup B), limit, offset)
    BY <1>6, SamePage
  <1> QED
    BY <1>4, <1>7 DEF A, B

LEMMA PagesOfWhole == Rows => PageOfWhole
  BY PageByAddress, TransferQueriesAssumption DEF PageOfWhole, Pages

(* The other answers *)

LEMMA CountsAreExact == Rows => CountsExact
  <1> SUFFICES ASSUME Rows, NEW a \in Accounts, SelfTransfers(a) = {},
                      NEW N, N = Cardinality(RowsFrom(a) \cup RowsTo(a))
               PROVE  IF Capped(a) THEN TotalCount(a) <= N ELSE TotalCount(a) = N
    BY DEF CountsExact
  <1> DEFINE A == RowsFrom(a)
             B == RowsTo(a)
  <1>1. A \in SUBSET Ids /\ B \in SUBSET Ids
    BY DEF RowsFrom, RowsTo
  <1>2. /\ IsFiniteSet(A) /\ Cardinality(A) \in Nat
        /\ IsFiniteSet(B) /\ Cardinality(B) \in Nat
    BY <1>1, Finite
  <1>3. Cardinality(A \cup B) = Cardinality(A) + Cardinality(B) - Cardinality(A \cap B)
    BY <1>2, FS_Union
  <1>4. Cardinality(A \cap B) = 0
    BY FS_EmptySet DEF SelfTransfers
  <1>5. N = Cardinality(A) + Cardinality(B)
    BY <1>2, <1>3, <1>4
  <1> HIDE DEF A, B
  <1>6. FromCount(a) = AtMost(Cardinality(A), CountCap) /\ ToCount(a) = AtMost(Cardinality(B), CountCap)
    BY DEF A, B, FromCount, ToCount
  <1> QED
    BY <1>2, <1>5, <1>6, TransferQueriesAssumption DEF TotalCount, Capped, AtMost

LEMMA RecentIsByChain == Rows => RecentByChain
  <1> SUFFICES ASSUME Rows, NEW limit \in 0 .. MaxLimit,
                      NEW i \in ToSet(Recent(limit)), NEW j \in Ids \ ToSet(Recent(limit))
               PROVE  transfers[j].height <= transfers[i].height
    BY DEF RecentByChain
  <1>1. limit \in Nat /\ 0 \in Nat /\ limit + 0 = limit
    BY TransferQueriesAssumption
  <1>2. ToSet(Recent(limit)) = {r \in Ids : 0 <= Place(r, Ids) /\ Place(r, Ids) < limit}
    BY <1>1, PageSet DEF Recent
  <1>3. \A r \in Ids : Place(r, Ids) \in Nat
    BY PlaceType, Finite
  <1>4. i \in Ids /\ Place(i, Ids) < Place(j, Ids)
    BY <1>1, <1>2, <1>3
  <1>5. ~Newer(j, i)
    BY <1>3, <1>4, PlaceFalls
  <1> QED
    BY <1>4, <1>5, RowTypes DEF Newer

LEMMA SinceIsWindow ==
  ASSUME Rows, NEW i \in Ids
  PROVE  transfers[i].height >= Since <=> transfers[i].height + Window >= height
  BY RowTypes, TransferQueriesAssumption DEF Since, Rows

LEMMA FilterIsRecent == Rows => FilteredIsRecent
  <1> SUFFICES ASSUME Rows, NEW token \in Tokens, NEW type \in Types \cup {AnyType},
                      NEW limit \in 1 .. MaxLimit
               PROVE  LET feed  == RecentFiltered(token, type, limit)
                          shown == ToSet(feed)
                          wanted == {i \in Ids : /\ transfers[i].token = token
                                                 /\ type \in {AnyType, transfers[i].type}
                                                 /\ transfers[i].height + Window >= height}
                      IN /\ \A m, n \in DOMAIN feed : m < n => Newer(feed[m], feed[n])
                         /\ shown \subseteq wanted
                         /\ \A j \in wanted \ shown : Len(feed) = limit /\ \A i \in shown : Newer(i, j)
    BY DEF FilteredIsRecent
  <1> DEFINE wanted == {i \in Ids : /\ transfers[i].token = token
                                    /\ type \in {AnyType, transfers[i].type}
                                    /\ transfers[i].height + Window >= height}
             N == Cardinality(wanted)
             s == NewestFirst(wanted)
             feed == RecentFiltered(token, type, limit)
             shown == ToSet(feed)
             end == PageEnd(wanted, limit, 0)
  <1>1. limit \in Nat /\ 0 \in Nat /\ limit + 0 = limit
    BY TransferQueriesAssumption
  <1>2. wanted \in SUBSET Ids
    OBVIOUS
  <1>3. feed = Page(s, limit, 0)
    <2>1. wanted = {i \in Ids : /\ transfers[i].token = token
                               /\ transfers[i].height >= Since
                               /\ type \in {AnyType, transfers[i].type}}
      BY SinceIsWindow
    <2> QED
      BY <2>1 DEF RecentFiltered
  <1> HIDE DEF wanted
  <1>4. shown = {i \in wanted : 0 <= Place(i, wanted) /\ Place(i, wanted) < limit}
    BY <1>1, <1>2, <1>3, PageSet
  <1>5. /\ feed \in Seq(wanted) /\ Len(feed) = (IF 0 < end THEN end - 0 ELSE 0)
        /\ \A n \in 1 .. Len(feed) : feed[n] = s[n + 0]
    <2>1. IsPageOf(Page(s, limit, 0), wanted, limit, 0)
      BY <1>1, <1>2, PageHolds
    <2> QED
      BY <1>3, <2>1 DEF IsPageOf
  <1>6. N \in Nat /\ end = IF limit < N THEN limit ELSE N
    BY <1>1, <1>2, Finite DEF PageEnd
  <1>7. \A n \in 1 .. N : s[n] \in wanted /\ Place(s[n], wanted) = n - 1
    BY <1>2, NewestFirstPlaces
  <1>8. \A i \in wanted : Place(i, wanted) \in 0 .. N - 1
    BY <1>2, PlaceType
  <1>9. ASSUME NEW i \in wanted, NEW j \in wanted, Place(i, wanted) < Place(j, wanted)
        PROVE  Newer(i, j)
    <2>1. i # j /\ ~Newer(j, i)
      BY <1>2, <1>6, <1>8, <1>9, PlaceFalls
    <2> QED
      BY <1>2, <2>1, ChainOrder
  <1>10. DOMAIN feed = 1 .. Len(feed)
    BY <1>5, LenProperties
  <1> HIDE DEF N, s, feed, shown, end
  <1>11. ASSUME NEW m \in DOMAIN feed, NEW n \in DOMAIN feed, m < n PROVE Newer(feed[m], feed[n])
    <2>1. m \in 1 .. N /\ n \in 1 .. N /\ feed[m] = s[m] /\ feed[n] = s[n]
      BY <1>1, <1>5, <1>6, <1>10
    <2>2. Place(s[m], wanted) < Place(s[n], wanted) /\ s[m] \in wanted /\ s[n] \in wanted
      BY <1>7, <1>11, <2>1
    <2> QED
      BY <1>9, <2>1, <2>2
  <1>12. ASSUME NEW j \in wanted \ shown
         PROVE  Len(feed) = limit /\ \A i \in shown : Newer(i, j)
    <2>1. Place(j, wanted) >= limit /\ Place(j, wanted) < N
      BY <1>1, <1>4, <1>6, <1>8
    <2>2. Len(feed) = limit
      BY <1>1, <1>5, <1>6, <1>8, <2>1
    <2>3. \A i \in shown : i \in wanted /\ Place(i, wanted) < Place(j, wanted)
      BY <1>1, <1>4, <1>6, <1>8, <2>1
    <2> QED
      BY <1>9, <2>2, <2>3
  <1> QED
    BY <1>4, <1>11, <1>12 DEF feed, shown, wanted

LEMMA AnswersRight == Rows => HistoryAnswersRight
  BY PagesOfWhole, CountsAreExact, RecentIsByChain, FilterIsRecent DEF HistoryAnswersRight

(* A client's walk *)

WalkType ==
  [on : BOOLEAN, addr : Accounts \cup {NoAddr}, limit : 0 .. MaxLimit, offset : Nat,
   present : SUBSET (1 .. MaxRows), seen : SUBSET (1 .. MaxRows),
   complete : BOOLEAN, disturbed : BOOLEAN]

FeedTypes == TransfersTypeOK /\ walk \in WalkType

RowsOf(a) == RowsFrom(a) \cup RowsTo(a)

\* Rows come in above what the client has seen or below it, which only pushes rows
\* down: whatever there was at the start and stands above the offset was seen.
Walking ==
  ~walk.disturbed =>
    /\ walk.present \subseteq RowsOf(walk.addr)
    /\ walk.on => \A i \in walk.present : Place(i, RowsOf(walk.addr)) < walk.offset => i \in walk.seen
    /\ walk.complete => walk.present \subseteq walk.seen

LEMMA Bounds ==
  /\ MaxLimit \in Nat /\ MaxLimit > 0 /\ CountCap \in Nat /\ CountCap > 0
  /\ MaxOffset \in Nat /\ Window \in Nat /\ MaxRows \in Nat
  /\ MaxHeight \in Nat /\ MaxRollbacks \in Nat
  BY TransferQueriesAssumption

LEMMA FeedTypesRows == TransfersTypeOK => Rows
  BY Bounds DEF TransfersTypeOK, Rows

LEMMA WalkFrame ==
  ASSUME walk \in WalkType, walk' = walk PROVE walk' \in WalkType
  OBVIOUS

LEMMA AppendType ==
  ASSUME TransfersTypeOK, NEW r \in Row, Len(transfers) < MaxRows, transfers' = Append(transfers, r)
  PROVE  /\ transfers' \in Seq(Row) /\ Len(transfers') = Len(transfers) + 1
         /\ \A i \in 1 .. Len(transfers) : transfers'[i] = transfers[i]
  BY DEF TransfersTypeOK

LEMMA RowOfType ==
  ASSUME NEW h \in 1 .. MaxHeight, NEW token \in Tokens, NEW move \in Moves
  PROVE  RowOf(h, token, move) \in Row
  BY TransferQueriesAssumption DEF RowOf, Row, Move

LEMMA FeedInit == TransfersInit => FeedTypes /\ Walking
  BY Bounds DEF TransfersInit, FeedTypes, TransfersTypeOK, WalkType, NoWalk, Walking

LEMMA BlockTypes == FeedTypes /\ SyncBlock => FeedTypes'
  <1> SUFFICES ASSUME FeedTypes, SyncBlock PROVE FeedTypes'
    OBVIOUS
  <1>1. height' \in 0 .. MaxHeight /\ height' = height + 1 /\ height' \in 1 .. MaxHeight
    BY Bounds DEF SyncBlock, FeedTypes, TransfersTypeOK
  <1>2. transfers' \in Seq(Row) /\ Len(transfers') <= MaxRows /\ Len(transfers) <= Len(transfers')
    <2>1. CASE UNCHANGED transfers
      BY <2>1, Bounds DEF FeedTypes, TransfersTypeOK
    <2>2. CASE ~UNCHANGED transfers
      <3>1. PICK token \in Tokens, move \in Moves :
              Len(transfers) < MaxRows /\ transfers' = Append(transfers, RowOf(height + 1, token, move))
        BY <2>2 DEF SyncBlock
      <3>2. RowOf(height + 1, token, move) \in Row
        BY <1>1, RowOfType
      <3> QED
        BY <3>1, <3>2, AppendType, Bounds DEF FeedTypes, TransfersTypeOK
    <2> QED
      BY <2>1, <2>2
  <1> QED
    BY <1>1, <1>2, Bounds DEF SyncBlock, FeedTypes, TransfersTypeOK

LEMMA BackfillTypes == FeedTypes /\ BackfillRow => FeedTypes'
  <1> SUFFICES ASSUME FeedTypes, BackfillRow PROVE FeedTypes'
    OBVIOUS
  <1>1. PICK h \in 1 .. height, token \in Tokens, move \in Moves :
          Len(transfers) < MaxRows /\ transfers' = Append(transfers, RowOf(h, token, move))
    BY DEF BackfillRow
  <1>2. h \in 1 .. MaxHeight
    BY Bounds DEF FeedTypes, TransfersTypeOK
  <1>3. RowOf(h, token, move) \in Row
    BY <1>2, RowOfType
  <1>4. transfers' \in Seq(Row) /\ Len(transfers') = Len(transfers) + 1
    BY <1>1, <1>3, AppendType DEF FeedTypes
  <1> QED
    BY <1>1, <1>4, Bounds DEF BackfillRow, FeedTypes, TransfersTypeOK

LEMMA CommitTypes == FeedTypes /\ Commit => FeedTypes'
  BY Bounds DEF Commit, Committed, FeedTypes, TransfersTypeOK

LEMMA RollbackTypes == FeedTypes /\ Rollback => FeedTypes'
  <1> SUFFICES ASSUME FeedTypes, Rollback PROVE FeedTypes'
    OBVIOUS
  <1>1. saved.rows \in Nat /\ saved.rows <= Len(transfers) /\ 1 \in Int /\ saved.rows \in Int
    BY Bounds DEF FeedTypes, TransfersTypeOK
  <1>2. \A i \in 1 .. saved.rows : transfers[i] \in Row
    BY <1>1 DEF FeedTypes, TransfersTypeOK
  <1>3. SubSeq(transfers, 1, saved.rows) \in Seq(Row)
        /\ Len(SubSeq(transfers, 1, saved.rows)) = IF 1 <= saved.rows THEN saved.rows - 1 + 1 ELSE 0
    BY <1>1, <1>2, SubSeqProperties
  <1>4. Len(transfers') = saved.rows /\ transfers' \in Seq(Row)
    BY <1>1, <1>3 DEF Rollback
  <1>5. walk' \in WalkType /\ walk'.limit = walk.limit /\ walk'.present = walk.present /\ walk'.seen = walk.seen
    BY DEF Rollback, FeedTypes, WalkType
  <1>6. /\ height' \in 0 .. MaxHeight /\ saved' = saved /\ saved'.height <= height'
        /\ rollbacks' \in 0 .. MaxRollbacks /\ saved \in [rows : 0 .. MaxRows, height : 0 .. MaxHeight]
    BY Bounds DEF Rollback, FeedTypes, TransfersTypeOK
  <1>7. walk'.limit \in 0 .. MaxLimit /\ walk'.present \cup walk'.seen \subseteq 1 .. MaxRows
    BY <1>5 DEF WalkType
  <1> QED
    BY <1>1, <1>4, <1>5, <1>6, <1>7, Bounds DEF FeedTypes, TransfersTypeOK

LEMMA RowsOfType ==
  ASSUME TransfersTypeOK, NEW a
  PROVE  RowsOf(a) \in SUBSET Ids /\ RowsOf(a) \in SUBSET (1 .. MaxRows)
  <1>1. RowsOf(a) \in SUBSET Ids
    BY DEF RowsOf, RowsFrom, RowsTo
  <1> QED
    BY <1>1, FeedTypesRows, RowTypes, Bounds DEF TransfersTypeOK

LEMMA StartTypes ==
  ASSUME FeedTypes, NEW a \in Walkers, NEW limit \in 1 .. MaxLimit + 1, StartWalk(a, limit)
  PROVE  FeedTypes' /\ Walking'
  <1>1. CutLimit(limit) \in 0 .. MaxLimit
    BY Bounds DEF CutLimit, AtMost
  <1>2. RowsOf(a) \in SUBSET (1 .. MaxRows)
    BY RowsOfType DEF FeedTypes
  <1>3. walk' = [on |-> TRUE, addr |-> a, limit |-> CutLimit(limit), offset |-> 0,
                 present |-> RowsOf(a), seen |-> {}, complete |-> FALSE, disturbed |-> FALSE]
    BY DEF StartWalk, NoWalk, RowsOf
  <1>4. walk' \in WalkType
    BY <1>1, <1>2, <1>3, TransferQueriesAssumption DEF WalkType
  <1>5. TransfersTypeOK'
    <2>1. walk'.limit \in 0 .. MaxLimit /\ walk'.present \cup walk'.seen \subseteq 1 .. MaxRows
      BY <1>4 DEF WalkType
    <2> QED
      BY <2>1 DEF FeedTypes, TransfersTypeOK, StartWalk
  <1>6. Rows'
    BY <1>5, Bounds DEF TransfersTypeOK, Rows
  <1>7. RowsOf(a)' = RowsOf(a)
    BY DEF RowsOf, RowsFrom, RowsTo, Ids, StartWalk
  <1>8. \A i \in RowsOf(a) : ~(Place(i, RowsOf(a)) < 0)
    BY RowsOfType, FeedTypesRows, PlaceType, Finite DEF FeedTypes
  <1>9. transfers' = transfers
    BY DEF StartWalk
  <1>10. \A i : Place(i, RowsOf(a))' = Place(i, RowsOf(a))
    BY <1>7, <1>9 DEF Place, Above, Newer
  <1> QED
    BY <1>3, <1>4, <1>5, <1>7, <1>8, <1>10 DEF Walking, FeedTypes

LEMMA PageTypes == FeedTypes /\ NextPage => FeedTypes'
  <1> SUFFICES ASSUME FeedTypes, NextPage PROVE FeedTypes'
    OBVIOUS
  <1> DEFINE offset == CutOffset(walk.offset)
             page == ByAddress(walk.addr, walk.limit, offset)
  <1>1. walk' = [walk EXCEPT !.seen = @ \cup ToSet(page),
                             !.offset = IF offset = @ THEN @ + walk.limit ELSE @,
                             !.complete = Len(page) < walk.limit,
                             !.on = Len(page) = walk.limit /\ offset = walk.offset]
    BY DEF NextPage
  <1>2. walk.limit \in Nat /\ walk.offset \in Nat /\ offset \in Nat
    BY Bounds DEF FeedTypes, WalkType, CutOffset, AtMost
  <1>3. ToSet(page) \subseteq 1 .. MaxRows
    <2>1. page = Page(NewestFirst(RowsOf(walk.addr)), walk.limit, offset)
      BY <1>2, PageByAddress, FeedTypesRows DEF FeedTypes, RowsOf
    <2>2. RowsOf(walk.addr) \in SUBSET Ids /\ RowsOf(walk.addr) \in SUBSET (1 .. MaxRows)
      BY RowsOfType DEF FeedTypes
    <2>3. ToSet(page) \subseteq RowsOf(walk.addr)
      BY <1>2, <2>1, <2>2, PageSet, FeedTypesRows DEF FeedTypes
    <2> QED
      BY <2>2, <2>3
  <1> HIDE DEF offset, page
  <1>4. walk' \in WalkType
    <2>1. walk.on \in BOOLEAN /\ walk.seen \in SUBSET (1 .. MaxRows) /\ walk \in WalkType
      BY DEF FeedTypes, WalkType
    <2>2. walk.seen \cup ToSet(page) \in SUBSET (1 .. MaxRows)
      BY <1>3, <2>1
    <2>3. (IF offset = walk.offset THEN walk.offset + walk.limit ELSE walk.offset) \in Nat
      BY <1>2
    <2>4. (Len(page) < walk.limit) \in BOOLEAN
          /\ (Len(page) = walk.limit /\ offset = walk.offset) \in BOOLEAN
      OBVIOUS
    <2>5. PICK seen \in SUBSET (1 .. MaxRows), next \in Nat, complete \in BOOLEAN, on \in BOOLEAN :
            walk' = [walk EXCEPT !.seen = seen, !.offset = next, !.complete = complete, !.on = on]
      BY <1>1, <2>2, <2>3, <2>4, Zenon
    <2> QED
      BY <2>1, <2>5 DEF WalkType
  <1>5. walk'.limit \in 0 .. MaxLimit /\ walk'.present \cup walk'.seen \subseteq 1 .. MaxRows
    BY <1>4 DEF WalkType
  <1> QED
    BY <1>4, <1>5 DEF FeedTypes, TransfersTypeOK, NextPage

\* A page from where the client stands shows every row at the places it covers; a
\* short one reaches the last row of the address.
LEMMA PageStep ==
  ASSUME FeedTypes, Walking, NextPage, ~walk.disturbed
  PROVE  Walking'
  <1> DEFINE offset == CutOffset(walk.offset)
             U == RowsOf(walk.addr)
             page == ByAddress(walk.addr, walk.limit, offset)
             end == PageEnd(U, walk.limit, offset)
  <1>1. walk' = [walk EXCEPT !.seen = @ \cup ToSet(page),
                             !.offset = IF offset = @ THEN @ + walk.limit ELSE @,
                             !.complete = Len(page) < walk.limit,
                             !.on = Len(page) = walk.limit /\ offset = walk.offset]
    BY DEF NextPage
  <1>2. walk.limit \in Nat /\ walk.offset \in Nat /\ offset \in Nat /\ offset <= walk.offset
    BY Bounds DEF FeedTypes, WalkType, CutOffset, AtMost
  <1>3. U \in SUBSET Ids /\ Rows
    BY RowsOfType, FeedTypesRows DEF FeedTypes
  <1>4. page = Page(NewestFirst(U), walk.limit, offset)
    BY <1>2, <1>3, PageByAddress DEF RowsOf
  <1>5. ToSet(page) = {i \in U : offset <= Place(i, U) /\ Place(i, U) < walk.limit + offset}
    BY <1>2, <1>3, <1>4, PageSet
  <1>6. Len(page) = IF offset < end THEN end - offset ELSE 0
    BY <1>2, <1>3, <1>4, PageHolds DEF IsPageOf
  <1>7. /\ Cardinality(U) \in Nat
        /\ end = IF walk.limit + offset < Cardinality(U) THEN walk.limit + offset ELSE Cardinality(U)
    BY <1>3, Finite DEF PageEnd
  <1>8. \A i \in U : Place(i, U) \in 0 .. Cardinality(U) - 1
    BY <1>3, PlaceType
  <1>9. /\ walk.on /\ walk.present \subseteq U
        /\ \A i \in walk.present : Place(i, U) < walk.offset => i \in walk.seen
    BY DEF Walking, NextPage
  <1>10. transfers' = transfers
    BY DEF NextPage
  <1> HIDE DEF offset, page, end
  <1>11. /\ walk'.addr = walk.addr /\ walk'.present = walk.present
         /\ walk'.seen = walk.seen \cup ToSet(page)
         /\ walk'.on = (Len(page) = walk.limit /\ offset = walk.offset)
         /\ walk'.complete = (Len(page) < walk.limit)
         /\ walk'.offset = IF offset = walk.offset THEN walk.offset + walk.limit ELSE walk.offset
    BY <1>1 DEF FeedTypes, WalkType
  <1>12. RowsOf(walk.addr)' = U
    BY <1>10, <1>11 DEF RowsOf, RowsFrom, RowsTo, Ids
  <1>13. \A i : Place(i, RowsOf(walk.addr))' = Place(i, U)
    BY <1>10, <1>12 DEF Place, Above, Newer
  <1> HIDE DEF U
  <1>14. ASSUME walk'.on, NEW i \in walk.present, Place(i, U) < walk'.offset PROVE i \in walk'.seen
    BY <1>2, <1>5, <1>8, <1>9, <1>11, <1>14
  <1>15. ASSUME walk'.complete, NEW i \in walk.present PROVE i \in walk'.seen
    <2>0. Len(page) < walk.limit
      BY <1>11, <1>15
    <2>1. Cardinality(U) < walk.limit + offset \/ Cardinality(U) <= offset
      BY <1>2, <1>6, <1>7, <2>0
    <2>2. Place(i, U) < walk.limit + offset
      BY <1>2, <1>7, <1>8, <1>9, <2>1
    <2> QED
      BY <1>2, <1>5, <1>8, <1>9, <1>11, <2>2
  <1> QED
    BY <1>9, <1>11, <1>12, <1>13, <1>14, <1>15 DEF Walking

\* A new row never moves another one up.
LEMMA PlaceGrows ==
  ASSUME TransfersTypeOK, NEW r \in Row, Len(transfers) < MaxRows,
         transfers' = Append(transfers, r), NEW a
  PROVE  /\ RowsOf(a) \subseteq RowsOf(a)'
         /\ \A i \in RowsOf(a) : /\ Place(i, RowsOf(a)) \in Nat /\ Place(i, RowsOf(a))' \in Nat
                                 /\ Place(i, RowsOf(a)) <= Place(i, RowsOf(a))'
  <1>1. /\ transfers' \in Seq(Row) /\ Len(transfers') = Len(transfers) + 1
        /\ \A i \in 1 .. Len(transfers) : transfers'[i] = transfers[i]
    BY AppendType
  <1>2. Ids = 1 .. Len(transfers) /\ Len(transfers) \in Nat /\ Rows
    BY FeedTypesRows, RowTypes
  <1>3. Ids' = 1 .. Len(transfers')
    BY <1>1, LenProperties DEF Ids
  <1>4. Ids \subseteq Ids' /\ \A i \in Ids : transfers'[i] = transfers[i]
    BY <1>1, <1>2, <1>3
  <1>5. RowsOf(a) \subseteq RowsOf(a)'
    BY <1>4 DEF RowsOf, RowsFrom, RowsTo
  <1>6. ASSUME NEW i \in RowsOf(a)
        PROVE  /\ Place(i, RowsOf(a)) \in Nat /\ Place(i, RowsOf(a))' \in Nat
               /\ Place(i, RowsOf(a)) <= Place(i, RowsOf(a))'
    <2>1. i \in Ids /\ RowsOf(a) \subseteq Ids
      BY DEF RowsOf, RowsFrom, RowsTo
    <2>2. Above(i, RowsOf(a)) \subseteq Above(i, RowsOf(a))'
      BY <1>4, <1>5, <2>1 DEF Above, Newer
    <2>3. Above(i, RowsOf(a))' \subseteq Ids'
      BY DEF Above, RowsOf, RowsFrom, RowsTo
    <2>4. IsFiniteSet(Ids')
      BY <1>1, <1>2, <1>3, FS_Interval
    <2>5. IsFiniteSet(Above(i, RowsOf(a))')
      BY <2>3, <2>4, FS_Subset
    <2> QED
      BY <2>2, <2>5, FS_Subset, FS_CardinalityType DEF Place
  <1> QED
    BY <1>5, <1>6

LEMMA WalkingKept ==
  ASSUME Walking, UNCHANGED <<transfers, walk>>
  PROVE  Walking'
  BY DEF Walking, RowsOf, RowsFrom, RowsTo, Ids, Place, Above, Newer

LEMMA GrowStep ==
  ASSUME FeedTypes, Walking, NEW r \in Row, Len(transfers) < MaxRows,
         transfers' = Append(transfers, r), walk' = walk
  PROVE  Walking'
  <1>1. PICK a : a = walk.addr
    OBVIOUS
  <1>2. walk'.addr = a
    BY <1>1
  <1>3. /\ RowsOf(a) \subseteq RowsOf(a)'
        /\ \A i \in RowsOf(a) : /\ Place(i, RowsOf(a)) \in Nat /\ Place(i, RowsOf(a))' \in Nat
                                /\ Place(i, RowsOf(a)) <= Place(i, RowsOf(a))'
    BY PlaceGrows DEF FeedTypes
  <1>4. walk.offset \in Nat
    BY DEF FeedTypes, WalkType
  <1>5. RowsOf(walk.addr)' = RowsOf(a)' /\ RowsOf(walk.addr) = RowsOf(a)
    BY <1>1, <1>2 DEF RowsOf, RowsFrom, RowsTo
  <1>6. \A i : Place(i, RowsOf(walk.addr))' = Place(i, RowsOf(a))'
    BY <1>5 DEF Place, Above
  <1>7. \A i : Place(i, RowsOf(walk.addr)) = Place(i, RowsOf(a))
    BY <1>5
  <1> QED
    BY <1>3, <1>4, <1>5, <1>6, <1>7 DEF Walking

LEMMA WalkingStep == FeedTypes /\ Walking /\ TransfersNext => FeedTypes' /\ Walking'
  <1> SUFFICES ASSUME FeedTypes, Walking, TransfersNext PROVE FeedTypes' /\ Walking'
    OBVIOUS
  <1>1. CASE SyncBlock
    <2>1. walk' = walk
      BY <1>1 DEF SyncBlock
    <2>2. CASE UNCHANGED transfers
      BY <1>1, <2>1, <2>2, BlockTypes, WalkingKept
    <2>3. CASE ~UNCHANGED transfers
      <3>1. PICK token \in Tokens, move \in Moves :
              Len(transfers) < MaxRows /\ transfers' = Append(transfers, RowOf(height + 1, token, move))
        BY <1>1, <2>3 DEF SyncBlock
      <3>2. height + 1 \in 1 .. MaxHeight
        BY <1>1, Bounds DEF SyncBlock, FeedTypes, TransfersTypeOK
      <3> QED
        BY <1>1, <2>1, <3>1, <3>2, RowOfType, GrowStep, BlockTypes
    <2> QED
      BY <2>2, <2>3
  <1>2. CASE BackfillRow
    <2>1. PICK h \in 1 .. height, token \in Tokens, move \in Moves :
            Len(transfers) < MaxRows /\ transfers' = Append(transfers, RowOf(h, token, move))
      BY <1>2 DEF BackfillRow
    <2>2. h \in 1 .. MaxHeight /\ walk' = walk
      BY <1>2, Bounds DEF BackfillRow, FeedTypes, TransfersTypeOK
    <2> QED
      BY <1>2, <2>1, <2>2, RowOfType, GrowStep, BackfillTypes
  <1>3. CASE Commit
    BY <1>3, CommitTypes, WalkingKept DEF Commit
  <1>4. CASE Rollback
    <2>1. walk'.disturbed
      BY <1>4 DEF Rollback, FeedTypes, WalkType
    <2> QED
      BY <1>4, <2>1, RollbackTypes DEF Walking
  <1>5. ASSUME NEW a \in Walkers, NEW limit \in 1 .. MaxLimit + 1, StartWalk(a, limit)
        PROVE  FeedTypes' /\ Walking'
    BY <1>5, StartTypes
  <1>6. CASE NextPage
    <2>1. walk'.disturbed = walk.disturbed
      BY <1>6 DEF NextPage, FeedTypes, WalkType
    <2> QED
      BY <1>6, <2>1, PageTypes, PageStep DEF Walking
  <1> QED
    BY <1>1, <1>2, <1>3, <1>4, <1>5, <1>6 DEF TransfersNext

LEMMA WalkingInductive ==
  FeedTypes /\ Walking /\ [TransfersNext]_transfersVars => FeedTypes' /\ Walking'
  <1>1. UNCHANGED transfersVars /\ FeedTypes => FeedTypes'
    BY DEF transfersVars, FeedTypes, TransfersTypeOK, WalkType
  <1>2. UNCHANGED transfersVars => UNCHANGED <<transfers, walk>>
    BY DEF transfersVars
  <1> QED
    BY <1>1, <1>2, WalkingStep, WalkingKept

\* The rows have their type, and a client's walk knows only rows there are or were:
\* what every answer is read from.
THEOREM FeedTypesHold == TransfersSpec => []TransfersTypeOK
  <1>1. FeedTypes => TransfersTypeOK
    BY DEF FeedTypes
  <1> QED
    BY <1>1, FeedInit, WalkingInductive, PTL DEF TransfersSpec

\* A client that pages to a short page has seen every transfer there was when it
\* began, for every page size, offset cap and number of blocks and replayed rows
\* that come in between two pages.
THEOREM WalksAreComplete == TransfersSpec => []WalkComplete
  <1>1. Walking => WalkComplete
    BY DEF Walking, WalkComplete
  <1> QED
    BY <1>1, FeedInit, WalkingInductive, PTL DEF TransfersSpec

\* Every answer of GET /transfers is the one a single query over all rows would
\* give, for every table.
THEOREM HistoryIsAnswered == TransfersSpec => []HistoryAnswersRight
  <1>1. FeedTypes => HistoryAnswersRight
    BY AnswersRight, FeedTypesRows DEF FeedTypes
  <1> QED
    BY <1>1, FeedInit, WalkingInductive, PTL DEF TransfersSpec

-----------------------------------------------------------------------------
(* ExplorerQueries.                                                          *)

LEMMA LeastNat ==
  ASSUME NEW N \in SUBSET Nat, N # {}
  PROVE  \E n \in N : \A m \in N : n <= m
  <1> DEFINE Less == {p \in Nat \X Nat : p[1] < p[2]}
  <1>1. IsWellFoundedOn(Less, Nat)
    BY NatLessThanWellFounded DEF OpToRel
  <1> HIDE DEF Less
  <1>2. PICK n \in N : \A m \in N : ~(<<m, n>> \in Less)
    BY <1>1, WFMin
  <1>3. ASSUME NEW m \in N
        PROVE  n <= m
    <2>1. n \in Nat /\ m \in Nat /\ <<m, n>> \in Nat \X Nat
      OBVIOUS
    <2>2. ~(m < n)
      BY <1>2, <2>1 DEF Less
    <2> QED
      BY <2>1, <2>2
  <1> QED
    BY <1>3

LEMMA MaxFacts ==
  ASSUME NEW S \in SUBSET Nat, NEW n \in Nat, \A x \in S : x <= n, S # {}
  PROVE  Max(S) \in S /\ \A x \in S : x <= Max(S)
  <1> DEFINE B == {m \in Nat : \A x \in S : x <= m}
  <1>1. PICK b \in B : \A m \in B : b <= m
    BY LeastNat
  <1>2. b \in S
    <2> SUFFICES ASSUME b \notin S PROVE FALSE
      OBVIOUS
    <2>1. PICK x \in S : TRUE
      OBVIOUS
    <2>2. x <= b /\ x # b /\ x \in Nat /\ b \in Nat
      BY <1>1, <2>1
    <2>3. b - 1 \in Nat /\ \A y \in S : y <= b - 1
      BY <1>1, <2>2
    <2> QED
      BY <1>1, <2>2, <2>3
  <1> QED
    BY <1>1, <1>2 DEF Max

-----------------------------------------------------------------------------
(* The text of a number.                                                     *)

LEMMA DivFacts ==
  ASSUME NEW n \in Nat, NEW r \in Nat \ {0}
  PROVE  /\ n \div r \in Nat /\ n % r \in 0 .. r - 1
         /\ n = (n \div r) * r + (n % r)
  OBVIOUS

LEMMA TimesLess ==
  ASSUME NEW p \in Nat, NEW q \in Nat, NEW r \in Nat, p < q
  PROVE  p * r + r <= q * r /\ p * r \in Nat /\ q * r \in Nat
  <1>1. PICK d \in Nat : q = p + 1 + d
    BY q - p - 1 \in Nat
  <1>2. q * r = p * r + r + d * r /\ d * r \in Nat /\ p * r \in Nat
    BY <1>1
  <1> QED
    BY <1>2

LEMMA DivSmaller ==
  ASSUME NEW n \in Nat, NEW r \in Nat \ {0, 1}, n >= r
  PROVE  n \div r \in 0 .. n - 1
  <1> DEFINE q == n \div r
  <1>1. q \in Nat /\ n % r \in Nat /\ n = q * r + (n % r)
    BY DivFacts
  <1>2. q # 0 => q * r >= q * 2 /\ q * r \in Nat
    <2>1. PICK d \in Nat : r = 2 + d
      BY r - 2 \in Nat
    <2>2. q * r = q * 2 + q * d /\ q * d \in Nat
      BY <1>1, <2>1
    <2> QED
      BY <1>1, <2>2
  <1> HIDE DEF q
  <1>3. q < n
    BY <1>1, <1>2
  <1> QED
    BY <1>1, <1>3 DEF q

\* The text is read off a function on an initial segment, which exists and is unique.
Written(f, n) == IF n < Radix THEN <<n>> ELSE Append(f[n \div Radix], n % Radix)

Writes(f, N) == f \in [0 .. N -> Seq(Nat)] /\ \A n \in 0 .. N : f[n] = Written(f, n)

LEMMA TextStep ==
  ASSUME NEW n \in Nat
  PROVE  /\ Radix \in Nat /\ n \div Radix \in Nat /\ n % Radix \in 0 .. Radix - 1
         /\ n = (n \div Radix) * Radix + (n % Radix)
         /\ ~(n < Radix) => n \div Radix \in 0 .. n - 1
  <1>1. Radix \in Nat \ {0, 1} /\ Radix \in Nat \ {0}
    BY ExplorerAssumption
  <1>2. ~(n < Radix) => n >= Radix
    BY <1>1
  <1> QED
    BY <1>1, <1>2, DivFacts, DivSmaller

LEMMA WrittenTypes ==
  ASSUME NEW f, NEW n \in Nat, \A m \in 0 .. n - 1 : f[m] \in Seq(Nat)
  PROVE  Written(f, n) \in Seq(Nat)
  <1>1. CASE n < Radix
    BY <1>1 DEF Written
  <1>2. CASE ~(n < Radix)
    <2>1. n \div Radix \in 0 .. n - 1 /\ n % Radix \in Nat
      BY <1>2, TextStep
    <2>2. f[n \div Radix] \in Seq(Nat)
      BY <2>1
    <2> QED
      BY <1>2, <2>1, <2>2 DEF Written
  <1> QED
    BY <1>1, <1>2

LEMMA WrittenSame ==
  ASSUME NEW f, NEW g, NEW n \in Nat, \A m \in 0 .. n - 1 : f[m] = g[m]
  PROVE  Written(f, n) = Written(g, n)
  <1>1. ~(n < Radix) => n \div Radix \in 0 .. n - 1
    BY TextStep
  <1> QED
    BY <1>1 DEF Written

LEMMA WritesUnique ==
  ASSUME NEW N \in Nat, NEW M \in Nat, NEW f, NEW g, Writes(f, N), Writes(g, M),
         NEW n \in 0 .. N, n <= M
  PROVE  f[n] = g[n]
  <1> DEFINE Bad == {m \in 0 .. N : m <= M /\ f[m] # g[m]}
  <1> SUFFICES ASSUME Bad # {} PROVE FALSE
    OBVIOUS
  <1>1. PICK m \in Bad : \A k \in Bad : m <= k
    <2>1. Bad \in SUBSET Nat
      OBVIOUS
    <2> HIDE DEF Bad
    <2> QED
      BY <2>1, LeastNat
  <1>2. m \in Nat /\ m \in 0 .. N /\ m \in 0 .. M
    BY <1>1
  <1>3. \A k \in 0 .. m - 1 : f[k] = g[k]
    BY <1>1, <1>2
  <1>4. f[m] = Written(f, m) /\ g[m] = Written(g, m)
    BY <1>2 DEF Writes
  <1>5. Written(f, m) = Written(g, m)
    BY <1>2, <1>3, WrittenSame
  <1> QED
    BY <1>1, <1>4, <1>5

LEMMA WritesExist ==
  ASSUME NEW N \in Nat
  PROVE  \E f : Writes(f, N)
  <1> DEFINE Bad == {n \in Nat : ~\E f : Writes(f, n)}
  <1> SUFFICES ASSUME Bad # {} PROVE FALSE
    OBVIOUS
  <1>1. PICK n \in Bad : \A k \in Bad : n <= k
    BY LeastNat
  <1>2. n \in Nat /\ ~\E f : Writes(f, n)
    BY <1>1
  <1>3. PICK f : \A m \in 0 .. n - 1 : f[m] \in Seq(Nat) /\ f[m] = Written(f, m)
    <2>1. CASE n = 0
      BY <2>1
    <2>2. CASE n # 0
      <3>1. n - 1 \in Nat /\ n - 1 \notin Bad
        BY <1>1, <1>2, <2>2
      <3>2. PICK f : Writes(f, n - 1)
        BY <3>1
      <3> QED
        BY <3>2 DEF Writes
    <2> QED
      BY <2>1, <2>2
  <1> DEFINE g == [m \in 0 .. n |-> IF m = n THEN Written(f, n) ELSE f[m]]
  <1>4. \A m \in 0 .. n - 1 : m \in 0 .. n /\ g[m] = f[m]
    BY <1>2
  <1>5. g[n] = Written(f, n)
    BY <1>2
  <1>6. Written(f, n) \in Seq(Nat)
    BY <1>2, <1>3, WrittenTypes
  <1>7. g \in [0 .. n -> Seq(Nat)]
    BY <1>2, <1>3, <1>6
  <1> HIDE DEF g
  <1>8. \A m \in 0 .. n : g[m] = Written(g, m)
    <2> SUFFICES ASSUME NEW m \in 0 .. n PROVE g[m] = Written(g, m)
      OBVIOUS
    <2>1. m \in Nat /\ \A k \in 0 .. m - 1 : k \in 0 .. n - 1
      BY <1>2
    <2>2. Written(g, m) = Written(f, m)
      BY <1>4, <2>1, WrittenSame
    <2>3. g[m] = Written(f, m)
      BY <1>2, <1>3, <1>4, <1>5
    <2> QED
      BY <2>2, <2>3
  <1> QED
    BY <1>2, <1>7, <1>8 DEF Writes

\* So the definition of Text has a solution, and Text is one.
LEMMA TextFacts ==
  \A n \in Nat : Text[n] \in Seq(Nat) /\ Text[n] = Written(Text, n)
  <1> DEFINE W(n) == CHOOSE f : Writes(f, n)
             T == [n \in Nat |-> W(n)[n]]
             Solves(g) == g = [n \in Nat |-> Written(g, n)]
  <1>1. \A n \in Nat : Writes(W(n), n)
    BY WritesExist
  <1> HIDE DEF W
  <1>2. \A n \in Nat : T[n] = Written(T, n)
    <2> SUFFICES ASSUME NEW n \in Nat PROVE T[n] = Written(T, n)
      OBVIOUS
    <2>1. \A m \in 0 .. n - 1 : T[m] = W(n)[m]
      <3> SUFFICES ASSUME NEW m \in 0 .. n - 1 PROVE W(m)[m] = W(n)[m]
        OBVIOUS
      <3>1. m \in Nat /\ m \in 0 .. m /\ m <= n
        OBVIOUS
      <3> QED
        BY <1>1, <3>1, WritesUnique
    <2>2. W(n)[n] = Written(W(n), n)
      BY <1>1 DEF Writes
    <2>3. Written(T, n) = Written(W(n), n)
      BY <2>1, WrittenSame
    <2> QED
      BY <2>2, <2>3
  <1>3. Solves(T)
    BY <1>2
  <1>4. Solves(Text)
    <2>1. Text = CHOOSE g : Solves(g)
      BY DEF Text, Written
    <2> HIDE DEF Solves, T
    <2>2. Solves(CHOOSE g : Solves(g))
      BY <1>3
    <2> QED
      BY <2>1, <2>2
  <1>5. \A n \in Nat : Text[n] = Written(Text, n)
    <2>1. Text = [n \in Nat |-> Written(Text, n)]
      BY <1>4
    <2> QED
      BY <2>1
  <1>6. \A n \in Nat : Text[n] \in Seq(Nat)
    <2> DEFINE Bad == {n \in Nat : Text[n] \notin Seq(Nat)}
    <2> SUFFICES ASSUME Bad # {} PROVE FALSE
      OBVIOUS
    <2>1. PICK n \in Bad : \A k \in Bad : n <= k
      BY LeastNat
    <2>2. n \in Nat /\ \A m \in 0 .. n - 1 : Text[m] \in Seq(Nat)
      BY <2>1
    <2> QED
      BY <1>5, <2>1, <2>2, WrittenTypes
  <1> QED
    BY <1>5, <1>6

LEMMA LastDigit ==
  \A s, t \in Seq(Nat), d, e \in Nat : Append(s, d) = Append(t, e) => s = t /\ d = e
  <1> SUFFICES ASSUME NEW s \in Seq(Nat), NEW t \in Seq(Nat), NEW d \in Nat, NEW e \in Nat,
                      Append(s, d) = Append(t, e)
               PROVE  s = t /\ d = e
    BY Zenon
  <1> DEFINE u == Append(s, d)
             v == Append(t, e)
  <1>1. /\ Len(s) \in Nat /\ Len(u) = Len(s) + 1 /\ u[Len(s) + 1] = d
        /\ \A i \in 1 .. Len(s) : u[i] = s[i]
    <2>1. Len(s) \in Nat /\ Len(u) = Len(s) + 1
      BY AppendProperties, LenProperties
    <2>2. /\ u[Len(s) + 1] = d
          /\ \A i \in 1 .. Len(s) : u[i] = s[i]
      BY AppendProperties, Zenon
    <2> QED
      BY <2>1, <2>2
  <1>2. /\ Len(t) \in Nat /\ Len(v) = Len(t) + 1 /\ v[Len(t) + 1] = e
        /\ \A i \in 1 .. Len(t) : v[i] = t[i]
    <2>1. Len(t) \in Nat /\ Len(v) = Len(t) + 1
      BY AppendProperties, LenProperties
    <2>2. /\ v[Len(t) + 1] = e
          /\ \A i \in 1 .. Len(t) : v[i] = t[i]
      BY AppendProperties, Zenon
    <2> QED
      BY <2>1, <2>2
  <1>3. u = v
    OBVIOUS
  <1> HIDE DEF u, v
  <1>4. Len(s) = Len(t)
    BY <1>1, <1>2, <1>3
  <1>5. d = e
    BY <1>1, <1>2, <1>3, <1>4
  <1>6. \A i \in 1 .. Len(s) : s[i] = t[i]
    BY <1>1, <1>2, <1>3, <1>4
  <1> QED
    BY <1>4, <1>5, <1>6, SeqEqual

LEMMA AppendAbove ==
  ASSUME NEW s \in Seq(Nat), NEW t \in Seq(Nat), Len(s) = Len(t), NEW d \in Nat, NEW e \in Nat
  PROVE  TextAbove(Append(s, d), Append(t, e)) <=> TextAbove(s, t) \/ (s = t /\ d > e)
  <1> DEFINE n == Len(s)
             u == Append(s, d)
             v == Append(t, e)
  <1>1. n \in Nat /\ DOMAIN s = 1 .. n /\ DOMAIN t = 1 .. n
    BY LenProperties
  <1>2. /\ DOMAIN u = 1 .. n + 1 /\ \A i \in 1 .. n : u[i] = s[i]
        /\ u[n + 1] = d
    BY <1>1
  <1>3. /\ DOMAIN v = 1 .. n + 1 /\ \A i \in 1 .. n : v[i] = t[i]
        /\ v[n + 1] = e
    BY <1>1
  <1> HIDE DEF u, v
  <1>4. ASSUME TextAbove(u, v)
        PROVE  TextAbove(s, t) \/ (s = t /\ d > e)
    <2>1. PICK i \in 1 .. n + 1 : /\ \A j \in 1 .. i - 1 : j \in DOMAIN v /\ u[j] = v[j]
                                  /\ u[i] > v[i]
      BY <1>2, <1>3, <1>4 DEF TextAbove
    <2>2. \A j \in 1 .. i - 1 : j \in 1 .. n /\ s[j] = t[j]
      BY <1>1, <1>2, <1>3, <2>1
    <2>3. CASE i = n + 1
      <3>1. \A j \in 1 .. n : s[j] = t[j]
        BY <1>1, <2>2, <2>3
      <3>2. s = t
        BY <3>1, SeqEqual
      <3> QED
        BY <1>2, <1>3, <2>1, <2>3, <3>2
    <2>4. CASE i # n + 1
      <3>1. i \in 1 .. n /\ s[i] > t[i]
        BY <1>1, <1>2, <1>3, <2>1, <2>4
      <3> QED
        BY <1>1, <2>2, <3>1 DEF TextAbove
    <2> QED
      BY <2>3, <2>4
  <1>5. ASSUME TextAbove(s, t)
        PROVE  TextAbove(u, v)
    <2>1. PICK i \in 1 .. n : /\ \A j \in 1 .. i - 1 : j \in 1 .. n /\ s[j] = t[j]
                              /\ s[i] > t[i]
      BY <1>1, <1>5 DEF TextAbove
    <2>2. i \in 1 .. n + 1 /\ u[i] > v[i]
      BY <1>1, <1>2, <1>3, <2>1
    <2>3. \A j \in 1 .. i - 1 : j \in 1 .. n + 1 /\ u[j] = v[j]
      BY <1>1, <1>2, <1>3, <2>1
    <2> QED
      BY <1>2, <1>3, <2>2, <2>3 DEF TextAbove
  <1>6. ASSUME s = t, d > e
        PROVE  TextAbove(u, v)
    <2>1. \A j \in 1 .. n : j \in 1 .. n + 1 /\ u[j] = v[j]
      BY <1>1, <1>2, <1>3, <1>6
    <2>2. n + 1 \in 1 .. n + 1 /\ u[n + 1] > v[n + 1] /\ (n + 1) - 1 = n
      BY <1>1, <1>2, <1>3, <1>6
    <2> QED
      BY <1>2, <1>3, <2>1, <2>2 DEF TextAbove
  <1> QED
    BY <1>4, <1>5, <1>6 DEF u, v

LEMMA DigitAbove ==
  ASSUME NEW d \in Nat, NEW e \in Nat
  PROVE  TextAbove(<<d>>, <<e>>) <=> d > e
  <1>1. DOMAIN <<d>> = {1} /\ DOMAIN <<e>> = {1} /\ <<d>>[1] = d /\ <<e>>[1] = e
    OBVIOUS
  <1>2. \A i \in {1} : 1 .. i - 1 = {}
    OBVIOUS
  <1> QED
    BY <1>1, <1>2 DEF TextAbove

LEMMA NothingAboveItself ==
  ASSUME NEW s \in Seq(Nat)
  PROVE  ~TextAbove(s, s)
  <1>1. \A i \in DOMAIN s : s[i] \in Nat
    OBVIOUS
  <1> QED
    BY <1>1 DEF TextAbove

\* Numbers compare as their texts do: by length first, then as text.
TextRanks(m, n) ==
  /\ Len(Text[m]) > Len(Text[n]) => m > n
  /\ Len(Text[m]) < Len(Text[n]) => m < n
  /\ Len(Text[m]) = Len(Text[n]) => (TextAbove(Text[m], Text[n]) <=> m > n)
  /\ Text[m] = Text[n] => m = n

LEMMA TextLength ==
  ASSUME NEW n \in Nat
  PROVE  /\ Text[n] \in Seq(Nat) /\ Len(Text[n]) \in Nat \ {0}
         /\ n < Radix => Text[n] = <<n>> /\ Len(Text[n]) = 1
         /\ ~(n < Radix) =>
               LET q == n \div Radix
               IN  /\ Text[n] = Append(Text[q], n % Radix) /\ Text[q] \in Seq(Nat)
                   /\ Len(Text[q]) \in Nat \ {0} /\ Len(Text[n]) = Len(Text[q]) + 1
                   /\ q \in 0 .. n - 1
  <1>1. ASSUME NEW m \in Nat
        PROVE  /\ Text[m] \in Seq(Nat) /\ Len(Text[m]) \in Nat
               /\ m < Radix => Text[m] = <<m>> /\ Len(Text[m]) = 1
    <2>1. Text[m] \in Seq(Nat) /\ Len(Text[m]) \in Nat
      BY TextFacts, LenProperties
    <2>2. m < Radix => Text[m] = <<m>>
      BY TextFacts DEF Written
    <2>3. Len(<<m>>) = 1
      OBVIOUS
    <2> QED
      BY <2>1, <2>2, <2>3
  <1>2. ASSUME NEW m \in Nat, ~(m < Radix)
        PROVE  LET q == m \div Radix
               IN  /\ Text[m] = Append(Text[q], m % Radix) /\ Text[q] \in Seq(Nat)
                   /\ Len(Text[m]) = Len(Text[q]) + 1 /\ q \in 0 .. m - 1
                   /\ Len(Text[q]) \in Nat
    <2>1. m \div Radix \in 0 .. m - 1 /\ m \div Radix \in Nat /\ m % Radix \in Nat
      BY <1>2, TextStep
    <2>2. Text[m] = Append(Text[m \div Radix], m % Radix)
      BY <1>2, TextFacts DEF Written
    <2>3. Text[m \div Radix] \in Seq(Nat)
      BY <2>1, TextFacts
    <2> QED
      BY <2>1, <2>2, <2>3, AppendProperties, LenProperties
  <1>3. ASSUME NEW m \in Nat
        PROVE  Len(Text[m]) \in Nat \ {0}
    <2>1. CASE m < Radix
      <3>1. Len(Text[m]) = 1
        BY <1>1, <2>1
      <3>2. 1 \in Nat \ {0}
        OBVIOUS
      <3> QED
        BY <3>1, <3>2, Zenon
    <2>2. CASE ~(m < Radix)
      <3>1. Len(Text[m]) = Len(Text[m \div Radix]) + 1 /\ Len(Text[m \div Radix]) \in Nat
        BY <1>2, <2>2
      <3> QED
        BY <3>1
    <2> QED
      BY <2>1, <2>2
  <1> QED
    BY <1>1, <1>2, <1>3

LEMMA TextOrder == \A m, n \in Nat : TextRanks(m, n)
  <1> DEFINE Bad == {m \in Nat : \E n \in Nat : ~TextRanks(m, n)}
  <1> SUFFICES ASSUME Bad # {} PROVE FALSE
    OBVIOUS
  <1>1. PICK m \in Bad : \A k \in Bad : m <= k
    BY LeastNat
  <1>2. m \in Nat /\ \A k \in 0 .. m - 1, n \in Nat : TextRanks(k, n)
    BY <1>1
  <1>3. PICK n \in Nat : ~TextRanks(m, n)
    BY <1>1
  <1> HIDE DEF Bad
  <1> DEFINE q == m \div Radix
             p == n \div Radix
             d == m % Radix
             e == n % Radix
  <1>4. /\ q \in Nat /\ d \in 0 .. Radix - 1 /\ m = q * Radix + d
        /\ p \in Nat /\ e \in 0 .. Radix - 1 /\ n = p * Radix + e
        /\ Radix \in Nat /\ d \in Nat /\ e \in Nat
    <2>1. q \in Nat /\ d \in 0 .. Radix - 1 /\ m = q * Radix + d /\ Radix \in Nat
      BY <1>2, TextStep
    <2>2. p \in Nat /\ e \in 0 .. Radix - 1 /\ n = p * Radix + e
      BY <1>3, TextStep
    <2> HIDE DEF q, p, d, e
    <2> QED
      BY <2>1, <2>2
  <1>5. /\ m < Radix => Text[m] = <<m>> /\ Len(Text[m]) = 1
        /\ n < Radix => Text[n] = <<n>> /\ Len(Text[n]) = 1
        /\ ~(m < Radix) => /\ Text[m] = Append(Text[q], d) /\ Text[q] \in Seq(Nat)
                           /\ Len(Text[m]) = Len(Text[q]) + 1 /\ Len(Text[q]) \in Nat \ {0}
                           /\ q \in 0 .. m - 1
        /\ ~(n < Radix) => /\ Text[n] = Append(Text[p], e) /\ Text[p] \in Seq(Nat)
                           /\ Len(Text[n]) = Len(Text[p]) + 1 /\ Len(Text[p]) \in Nat \ {0}
    BY <1>2, TextLength
  <1> HIDE DEF q, p, d, e
  <1>6. CASE m < Radix /\ n < Radix
    <2>1. Text[m] = Text[n] => m = n
      BY <1>5, <1>6
    <2> QED
      BY <1>2, <1>3, <1>5, <1>6, <2>1, DigitAbove DEF TextRanks
  <1>7. CASE m < Radix /\ ~(n < Radix)
    <2>1. Len(Text[m]) = 1 /\ Len(Text[n]) = Len(Text[p]) + 1 /\ Len(Text[p]) \in Nat \ {0}
      BY <1>5, <1>7
    <2>2. Len(Text[m]) < Len(Text[n]) /\ ~(Len(Text[m]) > Len(Text[n])) /\ Text[m] # Text[n]
      <3>1. ASSUME NEW a \in Nat \ {0} PROVE 1 < a + 1 /\ ~(1 > a + 1) /\ 1 # a + 1
        OBVIOUS
      <3> QED
        BY <2>1, <3>1, Zenon
    <2>3. m < n
      BY <1>2, <1>3, <1>4, <1>7
    <2> QED
      BY <1>3, <2>2, <2>3 DEF TextRanks
  <1>8. CASE ~(m < Radix) /\ n < Radix
    <2>1. Len(Text[n]) = 1 /\ Len(Text[m]) = Len(Text[q]) + 1 /\ Len(Text[q]) \in Nat \ {0}
      BY <1>5, <1>8
    <2>2. Len(Text[m]) > Len(Text[n]) /\ ~(Len(Text[m]) < Len(Text[n])) /\ Text[m] # Text[n]
      <3>1. ASSUME NEW a \in Nat \ {0} PROVE a + 1 > 1 /\ ~(a + 1 < 1) /\ a + 1 # 1
        OBVIOUS
      <3> QED
        BY <2>1, <3>1, Zenon
    <2>3. m > n
      BY <1>2, <1>3, <1>4, <1>8
    <2> QED
      BY <1>3, <2>2, <2>3 DEF TextRanks
  <1>9. CASE ~(m < Radix) /\ ~(n < Radix)
    <2>1. TextRanks(q, p)
      BY <1>2, <1>4, <1>5, <1>9
    <2>2. /\ q > p => m > n
          /\ q < p => m < n
          /\ q = p => (m > n <=> d > e)
      <3>1. CASE q > p
        <4>1. p * Radix + Radix <= q * Radix /\ p * Radix \in Nat /\ q * Radix \in Nat
          BY <1>4, <3>1, TimesLess
        <4> QED
          BY <1>4, <3>1, <4>1
      <3>2. CASE q < p
        <4>1. q * Radix + Radix <= p * Radix /\ p * Radix \in Nat /\ q * Radix \in Nat
          BY <1>4, <3>2, TimesLess
        <4> QED
          BY <1>4, <3>2, <4>1
      <3>3. CASE q = p
        <4>1. q * Radix \in Nat
          BY <1>4
        <4> QED
          BY <1>4, <3>3, <4>1
      <3> QED
        BY <1>4, <3>1, <3>2, <3>3
    <2>3. /\ Len(Text[m]) > Len(Text[n]) => Len(Text[q]) > Len(Text[p])
          /\ Len(Text[m]) < Len(Text[n]) => Len(Text[q]) < Len(Text[p])
          /\ Len(Text[m]) = Len(Text[n]) => Len(Text[q]) = Len(Text[p])
      <3>1. /\ Len(Text[m]) = Len(Text[q]) + 1 /\ Len(Text[q]) \in Nat \ {0}
            /\ Len(Text[n]) = Len(Text[p]) + 1 /\ Len(Text[p]) \in Nat \ {0}
        BY <1>5, <1>9
      <3> QED
        BY <3>1
    <2>4. ASSUME Len(Text[m]) = Len(Text[n])
          PROVE  TextAbove(Text[m], Text[n]) <=> m > n
      <3>1. /\ TextAbove(Text[m], Text[n]) <=>
                 TextAbove(Text[q], Text[p]) \/ (Text[q] = Text[p] /\ d > e)
            /\ TextAbove(Text[q], Text[p]) <=> q > p
            /\ Text[q] = Text[p] <=> q = p
        <4>1. /\ Text[m] = Append(Text[q], d) /\ Text[q] \in Seq(Nat)
              /\ Text[n] = Append(Text[p], e) /\ Text[p] \in Seq(Nat)
              /\ Len(Text[q]) = Len(Text[p])
          BY <1>5, <1>9, <2>3, <2>4
        <4>2. TextAbove(Append(Text[q], d), Append(Text[p], e)) <=>
                 TextAbove(Text[q], Text[p]) \/ (Text[q] = Text[p] /\ d > e)
          BY <1>4, <4>1, AppendAbove
        <4> QED
          BY <2>1, <4>1, <4>2 DEF TextRanks
      <3> QED
        BY <1>2, <1>4, <2>2, <3>1
    <2>5. ASSUME Text[m] = Text[n]
          PROVE  m = n
      <3>1. Text[q] = Text[p] /\ d = e
        <4> DEFINE u == Text[q]
                   v == Text[p]
        <4>1. /\ Append(u, d) = Append(v, e)
              /\ u \in Seq(Nat) /\ v \in Seq(Nat)
          BY <1>5, <1>9, <2>5
        <4>2. d \in Nat /\ e \in Nat
          BY <1>4
        <4> HIDE DEF u, v
        <4>3. u = v /\ d = e
          BY <4>1, <4>2, LastDigit
        <4> QED
          BY <4>3 DEF u, v
      <3>2. q = p
        BY <2>1, <3>1 DEF TextRanks
      <3> QED
        BY <1>4, <3>1, <3>2
    <2> QED
      BY <1>3, <2>1, <2>2, <2>3, <2>4, <2>5 DEF TextRanks
  <1> QED
    BY <1>6, <1>7, <1>8, <1>9

-----------------------------------------------------------------------------
(* The ranking of the holders.                                               *)

\* What a query of the explorer reads is typed.
Balances == bal \in [Addresses -> Nat]

LEMMA HolderTypes ==
  ASSUME Balances
  PROVE  /\ IsFiniteSet(Holders) /\ Cardinality(Holders) \in Nat
         /\ \A a \in Holders : a \in Addresses /\ a \in Nat /\ bal[a] \in Nat
  <1>1. Addresses \subseteq Nat /\ IsFiniteSet(Addresses) /\ Holders \in SUBSET Addresses
    BY ExplorerAssumption DEF Holders
  <1>2. IsFiniteSet(Holders) /\ Cardinality(Holders) \in Nat
    BY <1>1, FS_Subset, FS_CardinalityType
  <1> QED
    BY <1>1, <1>2 DEF Balances, Holders

\* Text ranks by value, and equal values by address.
LEMMA RanksRight ==
  ASSUME Balances, NEW a \in Holders, NEW b \in Holders
  PROVE  Ranks(a, b) <=> bal[a] > bal[b] \/ (bal[a] = bal[b] /\ a < b)
  <1> DEFINE m == bal[a]
             n == bal[b]
  <1>1. m \in Nat /\ n \in Nat
    BY HolderTypes
  <1>2. TextRanks(m, n)
    BY <1>1, TextOrder
  <1>3. Len(Text[m]) \in Nat /\ Len(Text[n]) \in Nat
    BY <1>1, TextLength
  <1>4. Ranks(a, b) <=> \/ Len(Text[m]) > Len(Text[n])
                        \/ Len(Text[m]) = Len(Text[n]) /\ TextAbove(Text[m], Text[n])
                        \/ Text[m] = Text[n] /\ a < b
    BY DEF Ranks
  <1> HIDE DEF m, n
  <1>5. Ranks(a, b) <=> m > n \/ (m = n /\ a < b)
    BY <1>1, <1>2, <1>3, <1>4 DEF TextRanks
  <1> QED
    BY <1>5 DEF m, n

\* How many holders rank before a holder.
Rank(a) == Cardinality({b \in Holders : Ranks(b, a)})

LEMMA RankType ==
  ASSUME Balances, NEW a \in Holders
  PROVE  Rank(a) \in 0 .. Cardinality(Holders) - 1
  <1> DEFINE B == {b \in Holders : Ranks(b, a)}
  <1>1. IsFiniteSet(Holders) /\ Cardinality(Holders) \in Nat
    BY HolderTypes
  <1>2. B \in SUBSET (Holders \ {a})
    BY RanksRight, HolderTypes
  <1>3. IsFiniteSet(Holders \ {a}) /\ Cardinality(Holders \ {a}) = Cardinality(Holders) - 1
    BY <1>1, FS_RemoveElement
  <1>4. IsFiniteSet(B) /\ Cardinality(B) <= Cardinality(Holders) - 1
    BY <1>2, <1>3, FS_Subset
  <1>5. Cardinality(B) \in Nat
    BY <1>4, FS_CardinalityType
  <1> QED
    BY <1>1, <1>4, <1>5 DEF Rank

LEMMA RankFalls ==
  ASSUME Balances, NEW a \in Holders, NEW b \in Holders, Ranks(b, a)
  PROVE  Rank(b) < Rank(a)
  <1> DEFINE A == {c \in Holders : Ranks(c, a)}
             B == {c \in Holders : Ranks(c, b)}
  <1>1. IsFiniteSet(Holders)
    BY HolderTypes
  <1>2. A \in SUBSET Holders /\ B \in SUBSET A /\ b \in A /\ b \notin B
    <2>1. \A c \in Holders : Ranks(c, b) => Ranks(c, a)
      BY RanksRight, HolderTypes
    <2>2. ~Ranks(b, b)
      BY RanksRight, HolderTypes
    <2> QED
      BY <2>1, <2>2
  <1>3. IsFiniteSet(A) /\ IsFiniteSet(B)
    BY <1>1, <1>2, FS_Subset
  <1>4. Cardinality(A) \in Nat /\ Cardinality(B) \in Nat
    BY <1>3, FS_CardinalityType
  <1>5. Cardinality(B) <= Cardinality(A) /\ (Cardinality(A) = Cardinality(B) => A = B)
    BY <1>2, <1>3, FS_Subset
  <1> QED
    BY <1>2, <1>4, <1>5 DEF Rank

LEMMA RankUnique ==
  ASSUME Balances, NEW a \in Holders, NEW b \in Holders, Rank(a) = Rank(b)
  PROVE  a = b
  <1>1. Rank(a) \in Int /\ Rank(b) \in Int
    BY RankType, HolderTypes
  <1>2. ~Ranks(a, b) /\ ~Ranks(b, a)
    BY <1>1, RankFalls
  <1> QED
    BY <1>2, RanksRight, HolderTypes

LEMMA RankTaken ==
  ASSUME Balances, NEW n \in 0 .. Cardinality(Holders) - 1
  PROVE  \E a \in Holders : Rank(a) = n
  <1> DEFINE N == Cardinality(Holders)
             f == [a \in Holders |-> Rank(a)]
  <1>1. IsFiniteSet(Holders) /\ N \in Nat
    BY HolderTypes
  <1>2. IsFiniteSet(0 .. N - 1) /\ Cardinality(0 .. N - 1) = N
    <2>1. 0 \in Int /\ N - 1 \in Int
      BY <1>1
    <2> QED
      BY <1>1, <2>1, FS_Interval
  <1>3. f \in [Holders -> 0 .. N - 1]
    BY RankType
  <1>4. \A a, b \in Holders : f[a] = f[b] => a = b
    BY RankUnique
  <1>5. f \in Injection(Holders, 0 .. N - 1)
    BY <1>3, <1>4 DEF Injection, IsInjective
  <1>6. f \in Surjection(Holders, 0 .. N - 1)
    BY <1>2, <1>5, FS_Injection
  <1> QED
    BY <1>6 DEF Surjection

\* Every holder stands at one place, the richer before the poorer.
LEMMA RankedFacts ==
  ASSUME Balances
  PROVE  /\ Ranked \in Seq(Holders) /\ Len(Ranked) = Cardinality(Holders)
         /\ DOMAIN Ranked = 1 .. Cardinality(Holders)
         /\ {Ranked[k] : k \in DOMAIN Ranked} = Holders
         /\ \A k, l \in DOMAIN Ranked : k < l => bal[Ranked[k]] >= bal[Ranked[l]]
         /\ \A k, l \in DOMAIN Ranked : Ranked[k] = Ranked[l] => k = l
  <1> DEFINE N == Cardinality(Holders)
  <1>1. N \in Nat
    BY HolderTypes
  <1>2. DOMAIN Ranked = 1 .. N /\ \A k \in 1 .. N : Ranked[k] = CHOOSE a \in Holders : Rank(a) = k - 1
    BY DEF Ranked, Rank
  <1>3. \A k \in 1 .. N : Ranked[k] \in Holders /\ Rank(Ranked[k]) = k - 1
    <2> TAKE k \in 1 .. N
    <2>1. k - 1 \in 0 .. N - 1
      BY <1>1
    <2>2. \E a \in Holders : Rank(a) = k - 1
      BY <2>1, RankTaken
    <2> QED
      BY <1>2, <2>2
  <1>4. Ranked \in [1 .. N -> Holders]
    BY <1>3 DEF Ranked
  <1>5. Ranked \in Seq(Holders) /\ Len(Ranked) = N
    BY <1>1, <1>4
  <1>6. \A a \in Holders : \E k \in 1 .. N : Ranked[k] = a
    <2> TAKE a \in Holders
    <2>1. Rank(a) \in 0 .. N - 1
      BY RankType
    <2>2. PICK k \in 1 .. N : k - 1 = Rank(a)
      <3>1. Rank(a) + 1 \in 1 .. N /\ (Rank(a) + 1) - 1 = Rank(a)
        BY <1>1, <2>1
      <3> QED
        BY <3>1
    <2> QED
      BY <1>3, <2>2, RankUnique
  <1>7. ASSUME NEW k \in 1 .. N, NEW l \in 1 .. N, k < l
        PROVE  bal[Ranked[k]] >= bal[Ranked[l]]
    <2>1. /\ Ranked[k] \in Holders /\ Rank(Ranked[k]) = k - 1
          /\ Ranked[l] \in Holders /\ Rank(Ranked[l]) = l - 1
      BY <1>3
    <2>2. ~Ranks(Ranked[l], Ranked[k])
      <3>1. ~(l - 1 < k - 1)
        BY <1>1, <1>7
      <3> QED
        BY <2>1, <3>1, RankFalls
    <2> QED
      BY <2>1, <2>2, RanksRight, HolderTypes
  <1>8. {Ranked[k] : k \in 1 .. N} = Holders
    BY <1>3, <1>6
  <1>9. ASSUME NEW k \in 1 .. N, NEW l \in 1 .. N, Ranked[k] = Ranked[l]
        PROVE  k = l
    <2>1. k - 1 = l - 1
      BY <1>3, <1>9
    <2> QED
      BY <1>1, <2>1
  <1> QED
    BY <1>2, <1>5, <1>7, <1>8, <1>9

LEMMA MinPair ==
  ASSUME NEW a \in Nat, NEW b \in Nat
  PROVE  Min({a, b}) = IF a <= b THEN a ELSE b
  <1>1. PICK m \in {a, b} : \A y \in {a, b} : m <= y
    <2>1. a <= b \/ b <= a
      OBVIOUS
    <2> QED
      BY <2>1
  <1>2. Min({a, b}) \in {a, b} /\ \A y \in {a, b} : Min({a, b}) <= y
    BY <1>1 DEF Min
  <1> QED
    BY <1>2

\* Pages of any size up to the clamp, joined together, are the first holders.
PageSizeOf(asked) == Min({asked, MaxHolders})
PagesOf(asked) == MaxHolderOffset \div PageSizeOf(asked) + 1

PageAfter(w, k, asked) ==
  IF k = 0 THEN <<>> ELSE w[k - 1] \o HoldersPage(asked, (k - 1) * PageSizeOf(asked))

Walks(w, pages, asked) == w = [k \in 0 .. pages |-> PageAfter(w, k, asked)]

LEMMA PageSizes ==
  ASSUME NEW asked \in 1 .. MaxHolders + 1
  PROVE  PageSizeOf(asked) \in Nat \ {0}
  <1>1. asked \in Nat \ {0} /\ MaxHolders \in Nat \ {0}
    BY ExplorerAssumption
  <1> QED
    BY <1>1, MinPair DEF PageSizeOf

\* No page begins beyond the clamp.
LEMMA PageBounds ==
  ASSUME NEW m \in Nat, NEW limit \in Nat \ {0}
  PROVE  LET pages == m \div limit + 1
         IN  /\ pages \in Nat \ {0} /\ pages * limit \in Nat
             /\ \A k \in 1 .. pages :
                  /\ (k - 1) * limit \in Nat /\ (k - 1) * limit <= m /\ k * limit \in Nat
                  /\ k * limit = (k - 1) * limit + limit
  <1> DEFINE q == m \div limit
             r == m % limit
  <1>1. q \in Nat /\ r \in 0 .. limit - 1 /\ m = q * limit + r
    BY DivFacts
  <1> HIDE DEF q, r
  <1>2. q * limit \in Nat /\ q * limit <= m /\ (q + 1) * limit \in Nat
    BY <1>1
  <1>3. ASSUME NEW k \in 1 .. q + 1
        PROVE  /\ (k - 1) * limit \in Nat /\ (k - 1) * limit <= m /\ k * limit \in Nat
               /\ k * limit = (k - 1) * limit + limit
    <2>1. PICK j \in Nat : j = k - 1
      BY <1>1, k - 1 \in Nat
    <2>2. k = j + 1 /\ j <= q
      BY <1>1, <2>1
    <2>3. j * limit \in Nat /\ k * limit = j * limit + limit
      BY <2>2
    <2>4. j * limit <= q * limit
      <3>1. CASE j = q
        BY <1>2, <3>1
      <3>2. CASE j # q
        <4>1. j < q
          BY <1>1, <2>2, <3>2
        <4>2. j * limit + limit <= q * limit
          BY <1>1, <4>1, TimesLess
        <4> QED
          BY <1>2, <2>3, <4>2
      <3> QED
        BY <3>1, <3>2
    <2> QED
      BY <1>2, <2>1, <2>3, <2>4
  <1> QED
    BY <1>1, <1>2, <1>3 DEF q

LEMMA WalkUnique ==
  ASSUME NEW asked, NEW pages \in Nat, NEW v, NEW w, Walks(v, pages, asked), Walks(w, pages, asked)
  PROVE  v = w
  <1> DEFINE Bad == {k \in Nat : k <= pages /\ v[k] # w[k]}
  <1>1. \A k \in 0 .. pages : v[k] = PageAfter(v, k, asked) /\ w[k] = PageAfter(w, k, asked)
    BY Zenon DEF Walks
  <1>2. Bad = {}
    <2> SUFFICES ASSUME Bad # {} PROVE FALSE
      OBVIOUS
    <2>1. PICK k \in Bad : \A j \in Bad : k <= j
      BY LeastNat
    <2>2. k \in 0 .. pages /\ v[k] # w[k]
      BY <2>1
    <2>3. k # 0 => v[k - 1] = w[k - 1]
      BY <2>1, <2>2
    <2> QED
      BY <1>1, <2>2, <2>3 DEF PageAfter
  <1>3. \A k \in 0 .. pages : v[k] = w[k]
    BY <1>2
  <1>4. v = [k \in 0 .. pages |-> v[k]] /\ w = [k \in 0 .. pages |-> w[k]]
    BY Zenon DEF Walks
  <1> QED
    BY <1>3, <1>4

LEMMA WalkExists ==
  ASSUME Balances, NEW asked \in 1 .. MaxHolders + 1
  PROVE  LET pages == PagesOf(asked)
             upto  == Min({Len(Ranked), pages * PageSizeOf(asked)})
         IN  /\ pages \in Nat
             /\ \E w : Walks(w, pages, asked) /\ w[pages] = SubSeq(Ranked, 1, upto)
  <1> DEFINE n == Len(Ranked)
             limit == PageSizeOf(asked)
             pages == PagesOf(asked)
             upto(k) == Min({n, k * limit})
             w == [k \in 0 .. pages |-> SubSeq(Ranked, 1, upto(k))]
  <1>1. Ranked \in Seq(Holders) /\ n \in Nat
    BY RankedFacts, HolderTypes
  <1>2. limit \in Nat \ {0} /\ MaxHolderOffset \in Nat
    BY PageSizes, ExplorerAssumption
  <1>3. /\ pages \in Nat \ {0} /\ pages * limit \in Nat
        /\ \A k \in 1 .. pages :
             /\ (k - 1) * limit \in Nat /\ (k - 1) * limit <= MaxHolderOffset /\ k * limit \in Nat
             /\ k * limit = (k - 1) * limit + limit
    BY <1>2, PageBounds DEF PagesOf
  <1> HIDE DEF pages, limit
  <1>4. ASSUME NEW k \in 0 .. pages
        PROVE  w[k] = PageAfter(w, k, asked)
    <2>1. CASE k = 0
      <3>1. upto(k) = 0
        <4>1. k * limit = 0
          BY <1>2, <2>1
        <4> QED
          BY <1>1, <4>1, MinPair
      <3>2. SubSeq(Ranked, 1, 0) = <<>>
        BY SubSeqEmpty
      <3>3. w[k] = SubSeq(Ranked, 1, upto(k))
        OBVIOUS
      <3> HIDE DEF w, upto
      <3> QED
        BY <2>1, <3>1, <3>2, <3>3 DEF PageAfter
    <2>2. CASE k # 0
      <3>1. k \in 1 .. pages /\ k - 1 \in 0 .. pages
        BY <1>3, <2>2
      <3> DEFINE from == (k - 1) * limit
      <3>2. from \in Nat /\ from <= MaxHolderOffset /\ k * limit \in Nat /\ k * limit = limit + from
        BY <1>2, <1>3, <3>1
      <3>3. w[k] = SubSeq(Ranked, 1, upto(k)) /\ w[k - 1] = SubSeq(Ranked, 1, upto(k - 1))
        BY <3>1
      <3>4. upto(k - 1) = IF n <= from THEN n ELSE from
        BY <1>1, <3>2, MinPair
      <3>5. upto(k) = IF n <= limit + from THEN n ELSE limit + from
        BY <1>1, <3>2, MinPair
      <3>6. HoldersPage(asked, from) = SubSeq(Ranked, from + 1, upto(k))
        <4>1. Min({from, MaxHolderOffset}) = from
          BY <1>2, <3>2, MinPair
        <4>2. Min({limit + from, n}) = upto(k)
          BY <1>1, <1>2, <3>2, <3>5, MinPair
        <4> HIDE DEF from, upto, n
        <4> QED
          BY <4>1, <4>2 DEF HoldersPage, PageSizeOf, limit, n
      <3> HIDE DEF upto, w, from
      <3>7. w[k] = w[k - 1] \o HoldersPage(asked, from)
        <4>1. CASE n <= from
          <5>1. upto(k) = n /\ upto(k - 1) = n
            BY <1>1, <1>2, <3>2, <3>4, <3>5, <4>1
          <5>2. SubSeq(Ranked, from + 1, n) = <<>>
            BY <1>1, <3>2, <4>1, SubSeqEmpty
          <5>3. SubSeq(Ranked, 1, n) = Ranked
            BY <1>1, SubSeqFull
          <5> QED
            BY <1>1, <3>3, <3>6, <5>1, <5>2, <5>3, ConcatEmptySeq
        <4>2. CASE ~(n <= from)
          <5>1. upto(k - 1) = from /\ 1 \in 1 .. n + 1 /\ from \in 1 - 1 .. n /\ upto(k) \in from .. n
            BY <1>1, <1>2, <3>2, <3>4, <3>5, <4>2
          <5>2. SubSeq(Ranked, 1, from) \o SubSeq(Ranked, from + 1, upto(k)) = SubSeq(Ranked, 1, upto(k))
            BY <1>1, <5>1, ConcatAdjacentSubSeq DEF n
          <5> QED
            BY <3>3, <3>6, <5>1, <5>2
        <4> QED
          BY <4>1, <4>2
      <3> QED
        BY <2>2, <3>7 DEF PageAfter, from, limit
    <2> QED
      BY <2>1, <2>2
  <1>5. Walks(w, pages, asked)
    <2>1. w = [k \in 0 .. pages |-> w[k]]
      OBVIOUS
    <2> HIDE DEF w
    <2>2. [k \in 0 .. pages |-> w[k]] = [k \in 0 .. pages |-> PageAfter(w, k, asked)]
      BY <1>4
    <2> QED
      BY <2>1, <2>2 DEF Walks
  <1>6. w[pages] = SubSeq(Ranked, 1, upto(pages))
    <2>1. pages \in 0 .. pages
      BY <1>3
    <2> HIDE DEF upto
    <2> QED
      BY <2>1
  <1> QED
    BY <1>3, <1>5, <1>6 DEF pages, limit

\* The first N of the ranking are N holders, and nobody richer is left out.
LEMMA FirstRanked ==
  ASSUME Balances, NEW N \in 0 .. Cardinality(Holders)
  PROVE  LET seen  == SubSeq(Ranked, 1, N)
             shown == {seen[i] : i \in DOMAIN seen}
         IN  /\ Len(seen) = N
             /\ shown \subseteq Holders /\ Cardinality(shown) = Len(seen)
             /\ \A i, j \in DOMAIN seen : i < j => bal[seen[i]] >= bal[seen[j]]
             /\ \A a \in shown, b \in Holders \ shown : bal[a] >= bal[b]
  <1> DEFINE n == Cardinality(Holders)
             seen == SubSeq(Ranked, 1, N)
             shown == {seen[i] : i \in DOMAIN seen}
  <1>1. /\ Ranked \in Seq(Holders) /\ n \in Nat /\ Len(Ranked) = n /\ DOMAIN Ranked = 1 .. n
        /\ {Ranked[k] : k \in DOMAIN Ranked} = Holders
        /\ \A k, l \in DOMAIN Ranked : k < l => bal[Ranked[k]] >= bal[Ranked[l]]
        /\ \A k, l \in DOMAIN Ranked : Ranked[k] = Ranked[l] => k = l
    BY RankedFacts, HolderTypes
  <1>2. N \in Nat /\ N <= n
    BY <1>1
  <1>3. seen \in Seq(Holders) /\ Len(seen) = N /\ \A i \in 1 .. N : seen[i] = Ranked[i]
    <2>1. \A i \in 1 .. N : Ranked[i] \in Holders
      BY <1>1, <1>2
    <2>2. /\ seen \in Seq(Holders) /\ Len(seen) = IF 1 <= N THEN N - 1 + 1 ELSE 0
          /\ \A i \in 1 .. N - 1 + 1 : seen[i] = Ranked[1 + i - 1]
      BY <1>2, <2>1, SubSeqProperties
    <2> HIDE DEF seen
    <2>3. N - 1 + 1 = N /\ \A i \in 1 .. N : 1 + i - 1 = i
      BY <1>2
    <2> QED
      BY <1>2, <2>2, <2>3
  <1> HIDE DEF n, seen
  <1>4. DOMAIN seen = 1 .. N /\ \A i \in 1 .. N : i \in DOMAIN Ranked
    BY <1>1, <1>2, <1>3
  <1>5. shown \subseteq Holders
    BY <1>1, <1>3, <1>4
  <1>6. Cardinality(shown) = N
    <2> DEFINE f == [i \in 1 .. N |-> Ranked[i]]
    <2>1. f \in Bijection(1 .. N, shown)
      <3>1. f \in [1 .. N -> shown]
        BY <1>3, <1>4
      <3>2. \A i, j \in 1 .. N : f[i] = f[j] => i = j
        BY <1>1, <1>4
      <3>3. \A a \in shown : \E i \in 1 .. N : f[i] = a
        BY <1>3, <1>4
      <3> HIDE DEF f, shown
      <3> QED
        BY <3>1, <3>2, <3>3 DEF Bijection, Injection, Surjection, IsInjective
    <2>2. IsFiniteSet(1 .. N) /\ Cardinality(1 .. N) = N
      <3>1. /\ IsFiniteSet(1 .. N)
            /\ Cardinality(1 .. N) = IF 1 > N THEN 0 ELSE N - 1 + 1
        BY <1>2, FS_Interval
      <3> QED
        BY <1>2, <3>1
    <2> HIDE DEF f, shown
    <2>3. ExistsBijection(1 .. N, shown)
      BY <2>1 DEF ExistsBijection
    <2> QED
      BY <2>2, <2>3, FS_Bijection
  <1>7. \A i, j \in DOMAIN seen : i < j => bal[seen[i]] >= bal[seen[j]]
    BY <1>1, <1>3, <1>4
  <1>8. ASSUME NEW a \in shown, NEW b \in Holders \ shown
        PROVE  bal[a] >= bal[b]
    <2>1. PICK i \in 1 .. N : a = Ranked[i]
      BY <1>3, <1>4
    <2>2. PICK j \in 1 .. n : b = Ranked[j]
      BY <1>1
    <2>3. j \notin 1 .. N
      BY <1>3, <1>4, <2>2
    <2>4. i < j /\ i \in DOMAIN Ranked /\ j \in DOMAIN Ranked
      BY <1>1, <1>2, <1>4, <2>3
    <2> QED
      BY <1>1, <2>1, <2>2, <2>4
  <1> HIDE DEF shown
  <1> QED
    BY <1>3, <1>5, <1>6, <1>7, <1>8 DEF shown, seen

LEMMA RankedByValueHolds == ASSUME Balances PROVE RankedByValue
  <1> SUFFICES ASSUME NEW asked \in 1 .. MaxHolders + 1
               PROVE  PagesJoin(asked)
    BY Zenon DEF RankedByValue
  <1> DEFINE limit == Min({asked, MaxHolders})
             pages == MaxHolderOffset \div limit + 1
             turned == CHOOSE w : w =
               [k \in 0 .. pages |->
                  IF k = 0 THEN <<>> ELSE w[k - 1] \o HoldersPage(asked, (k - 1) * limit)]
             upto == Min({Cardinality(Holders), pages * limit})
  <1>1. limit = PageSizeOf(asked) /\ pages = PagesOf(asked) /\ Len(Ranked) = Cardinality(Holders)
    BY RankedFacts DEF PageSizeOf, PagesOf
  <1>2. pages \in Nat /\ \E w : Walks(w, pages, asked) /\ w[pages] = SubSeq(Ranked, 1, upto)
    BY <1>1, WalkExists
  <1>3. upto \in 0 .. Cardinality(Holders)
    <2>1. limit \in Nat \ {0} /\ pages * limit \in Nat
      BY <1>1, PageSizes, PageBounds, ExplorerAssumption
    <2>2. Cardinality(Holders) \in Nat
      BY HolderTypes
    <2> HIDE DEF pages, limit
    <2> QED
      BY <2>1, <2>2, MinPair
  <1>4. Walks(turned, pages, asked)
    <2>1. \A w : Walks(w, pages, asked) <=>
                 w = [k \in 0 .. pages |->
                        IF k = 0 THEN <<>> ELSE w[k - 1] \o HoldersPage(asked, (k - 1) * limit)]
      BY Zenon DEF Walks, PageAfter, PageSizeOf
    <2>2. turned = CHOOSE w : w = [k \in 0 .. pages |->
                        IF k = 0 THEN <<>> ELSE w[k - 1] \o HoldersPage(asked, (k - 1) * limit)]
      BY Zenon
    <2> HIDE DEF turned
    <2>3. PICK w : w = [k \in 0 .. pages |->
                        IF k = 0 THEN <<>> ELSE w[k - 1] \o HoldersPage(asked, (k - 1) * limit)]
      BY <1>2, <2>1
    <2>4. turned = [k \in 0 .. pages |->
                        IF k = 0 THEN <<>> ELSE turned[k - 1] \o HoldersPage(asked, (k - 1) * limit)]
      BY <2>2, <2>3, Zenon
    <2> QED
      BY <2>1, <2>4
  <1> HIDE DEF turned
  <1>5. turned[pages] = SubSeq(Ranked, 1, upto)
    BY <1>2, <1>4, WalkUnique
  <1>6. LET seen  == SubSeq(Ranked, 1, upto)
            shown == {seen[i] : i \in DOMAIN seen}
        IN  /\ Len(seen) = upto
            /\ shown \subseteq Holders /\ Cardinality(shown) = Len(seen)
            /\ \A i, j \in DOMAIN seen : i < j => bal[seen[i]] >= bal[seen[j]]
            /\ \A a \in shown, b \in Holders \ shown : bal[a] >= bal[b]
    <2> HIDE DEF upto
    <2> QED
      BY <1>3, FirstRanked
  <1> HIDE DEF pages
  <1>7. LET seen  == turned[pages]
            shown == {seen[i] : i \in DOMAIN seen}
        IN  /\ Len(seen) = upto
            /\ shown \subseteq Holders /\ Cardinality(shown) = Len(seen)
            /\ \A i, j \in DOMAIN seen : i < j => bal[seen[i]] >= bal[seen[j]]
            /\ \A a \in shown, b \in Holders \ shown : bal[a] >= bal[b]
    <2> HIDE DEF upto
    <2> QED
      BY <1>5, <1>6, Zenon
  <1> QED
    BY <1>7 DEF PagesJoin, pages, turned, limit, upto

-----------------------------------------------------------------------------
(* The producers of the window.                                              *)

PickedSigner(s) == CHOOSE x \in s : TRUE

\* The blocks of H whose signer is in s.
BlocksBy(H, s) == {h \in H : signer[h] \in s}

LEMMA ByOneMore ==
  ASSUME NEW H, IsFiniteSet(H), NEW s, s # {}
  PROVE  /\ IsFiniteSet(BlocksBy(H, s)) /\ Cardinality(BlocksBy(H, s)) \in Nat
         /\ Cardinality(BlocksBy(H, s))
              = Cardinality({h \in H : signer[h] = PickedSigner(s)})
                + Cardinality(BlocksBy(H, s \ {PickedSigner(s)}))
  <1> DEFINE A == {h \in H : signer[h] = PickedSigner(s)}
             B == BlocksBy(H, s \ {PickedSigner(s)})
  <1>1. PickedSigner(s) \in s
    BY DEF PickedSigner
  <1>2. BlocksBy(H, s) = A \cup B /\ A \cap B = {} /\ A \in SUBSET H /\ B \in SUBSET H
    BY <1>1 DEF BlocksBy
  <1>3. IsFiniteSet(A) /\ IsFiniteSet(B)
    BY <1>2, FS_Subset
  <1>4. Cardinality(A) \in Nat /\ Cardinality(B) \in Nat /\ Cardinality(A \cap B) = 0
    BY <1>2, <1>3, FS_CardinalityType, FS_EmptySet
  <1>5. /\ IsFiniteSet(A \cup B)
        /\ Cardinality(A \cup B) = Cardinality(A) + Cardinality(B) - Cardinality(A \cap B)
    BY <1>3, FS_Union
  <1> HIDE DEF A, B
  <1>6. Cardinality(A \cup B) = Cardinality(A) + Cardinality(B) /\ Cardinality(A \cup B) \in Nat
    BY <1>4, <1>5
  <1> QED
    BY <1>2, <1>5, <1>6 DEF A, B

SumOver(f, S) == MapThenSumSet(LAMBDA a : f[a], S)

\* If f tells how many blocks of H each of S's members signed, it adds up to the
\* blocks of all of them.
LEMMA SignedSum ==
  ASSUME NEW H, IsFiniteSet(H), NEW S, IsFiniteSet(S), NEW f,
         \A a \in S : f[a] = Cardinality({h \in H : signer[h] = a})
  PROVE  SumOver(f, S) = Cardinality(BlocksBy(H, S))
  <1> DEFINE Folds(g) == g = [s \in SUBSET S |-> IF s = {} THEN 0
                                                 ELSE f[PickedSigner(s)] + g[s \ {PickedSigner(s)}]]
             it == CHOOSE g : Folds(g)
             sum == [s \in SUBSET S |-> Cardinality(BlocksBy(H, s))]
  <1>1. SumOver(f, S) = it[S]
    BY DEF SumOver, MapThenSumSet, MapThenFoldSet, PickedSigner
  <1>2. \A s \in SUBSET S : sum[s] = IF s = {} THEN 0 ELSE f[PickedSigner(s)] + sum[s \ {PickedSigner(s)}]
    <2> SUFFICES ASSUME NEW s \in SUBSET S
                 PROVE  Cardinality(BlocksBy(H, s)) = IF s = {} THEN 0
                          ELSE f[PickedSigner(s)] + Cardinality(BlocksBy(H, s \ {PickedSigner(s)}))
      OBVIOUS
    <2>1. CASE s = {}
      <3>1. BlocksBy(H, s) = {}
        BY <2>1 DEF BlocksBy
      <3> QED
        BY <2>1, <3>1, FS_EmptySet
    <2>2. CASE s # {}
      <3>1. PickedSigner(s) \in S
        BY <2>2 DEF PickedSigner
      <3> QED
        BY <2>2, <3>1, ByOneMore
    <2> QED
      BY <2>1, <2>2
  <1>3. Folds(sum)
    <2>1. sum = [s \in SUBSET S |-> sum[s]]
      OBVIOUS
    <2> HIDE DEF sum
    <2>2. [s \in SUBSET S |-> sum[s]]
            = [s \in SUBSET S |-> IF s = {} THEN 0 ELSE f[PickedSigner(s)] + sum[s \ {PickedSigner(s)}]]
      BY <1>2
    <2> QED
      BY <2>1, <2>2
  <1>4. \A s \in SUBSET S : it[s] = IF s = {} THEN 0 ELSE f[PickedSigner(s)] + it[s \ {PickedSigner(s)}]
    <2>1. Folds(it)
      <3> HIDE DEF Folds, sum
      <3> QED
        BY <1>3
    <2> HIDE DEF it
    <2> QED
      BY <2>1, Zenon
  <1> HIDE DEF it, sum, Folds
  <1>5. \A s \in SUBSET S : IsFiniteSet(s) /\ Cardinality(s) \in Nat
    BY FS_Subset, FS_CardinalityType
  <1>6. it[S] = sum[S]
    <2> DEFINE Bad == {n \in Nat : \E s \in SUBSET S : Cardinality(s) = n /\ it[s] # sum[s]}
    <2> SUFFICES ASSUME it[S] # sum[S] PROVE FALSE
      OBVIOUS
    <2>1. Cardinality(S) \in Bad
      BY <1>5
    <2>2. PICK n \in Bad : \A m \in Bad : n <= m
      BY <2>1, LeastNat
    <2>3. PICK s \in SUBSET S : Cardinality(s) = n /\ it[s] # sum[s]
      BY <2>2
    <2>4. s # {}
      BY <1>2, <1>4, <2>3
    <2> DEFINE t == s \ {PickedSigner(s)}
    <2>5. PickedSigner(s) \in s /\ t \in SUBSET S
      BY <2>4 DEF PickedSigner
    <2>6. Cardinality(t) = Cardinality(s) - 1
      BY <1>5, <2>5, FS_RemoveElement
    <2>7. it[t] = sum[t]
      BY <1>5, <2>2, <2>3, <2>5, <2>6
    <2> QED
      BY <1>2, <1>4, <2>3, <2>4, <2>5, <2>7
  <1>7. sum[S] = Cardinality(BlocksBy(H, S))
    BY DEF sum
  <1> QED
    BY <1>1, <1>6, <1>7

\* What a call of GetProducers has counted, and the blocks it counted.
SumOf(f) == SumOver(f, DOMAIN f)
Counted == {h \in InWindow(report.since) : h <= report.upto}
CountsOf(f, H) ==
  DOMAIN f = {signer[h] : h \in H} /\ \A a \in DOMAIN f : f[a] = Cardinality({h \in H : signer[h] = a})

LEMMA TotalIsSum == TotalBlocks = SumOf(report.blocks)
  BY DEF TotalBlocks, SumOf, SumOver

LEMMA WindowFacts ==
  ASSUME ChainOK(bal, signer, head), NEW since \in Nat, NEW upto \in Nat,
         NEW H \in SUBSET InWindow(since), \A h \in H : h <= upto
  PROVE  /\ IsFiniteSet(H) /\ IsFiniteSet({signer[h] : h \in H})
         /\ {signer[h] : h \in H} \subseteq Addresses
         /\ Cardinality(H) \in Nat /\ Cardinality(H) <= IF upto > since THEN upto - since ELSE 0
  <1>1. \A h \in H : h \in Nat /\ since < h /\ h <= upto /\ signer[h] \in Addresses
    <2> TAKE h \in H
    <2>1. h \in DOMAIN signer /\ h > since /\ signer[h] # NoSigner
      BY DEF InWindow, Stored
    <2>2. h \in 1 .. head /\ head \in Nat /\ signer[h] \in Addresses \cup {NoSigner}
      BY <2>1, ExplorerAssumption DEF ChainOK
    <2> QED
      BY <2>1, <2>2
  <1>2. H \in SUBSET (since + 1 .. upto)
    <2>1. \A h \in H : h \in since + 1 .. upto
      BY <1>1
    <2> QED
      BY <2>1
  <1>3. /\ IsFiniteSet(since + 1 .. upto)
        /\ Cardinality(since + 1 .. upto) = IF upto > since THEN upto - since ELSE 0
    <2>1. since + 1 \in Int /\ upto \in Int
      OBVIOUS
    <2>2. /\ IsFiniteSet(since + 1 .. upto)
          /\ Cardinality(since + 1 .. upto) = IF since + 1 > upto THEN 0 ELSE upto - (since + 1) + 1
      BY <2>1, FS_Interval
    <2> QED
      BY <2>2
  <1>4. IsFiniteSet(H) /\ Cardinality(H) <= Cardinality(since + 1 .. upto)
    BY <1>2, <1>3, FS_Subset
  <1>5. Cardinality(H) \in Nat
    BY <1>4, FS_CardinalityType
  <1>6. {signer[h] : h \in H} \in SUBSET Addresses
    BY <1>1
  <1>7. IsFiniteSet({signer[h] : h \in H})
    BY <1>6, ExplorerAssumption, FS_Subset
  <1> QED
    BY <1>3, <1>4, <1>5, <1>6, <1>7

LEMMA CountsAddUp ==
  ASSUME NEW H, IsFiniteSet(H), IsFiniteSet({signer[h] : h \in H}), NEW f, CountsOf(f, H)
  PROVE  SumOf(f) = Cardinality(H)
  <1> DEFINE S == {signer[h] : h \in H}
  <1>1. SumOver(f, S) = Cardinality(BlocksBy(H, S))
    <2>1. IsFiniteSet(S) /\ \A a \in S : f[a] = Cardinality({h \in H : signer[h] = a})
      BY DEF CountsOf
    <2> HIDE DEF S
    <2> QED
      BY <2>1, SignedSum
  <1>2. BlocksBy(H, S) = H
    BY DEF BlocksBy
  <1>3. DOMAIN f = S
    BY DEF CountsOf
  <1> QED
    BY <1>1, <1>2, <1>3 DEF SumOf

LEMMA NothingCounted == SumOf(<<>>) = 0
  <1>1. CountsOf(<<>>, {})
    BY DEF CountsOf
  <1>2. IsFiniteSet({}) /\ Cardinality({}) = 0 /\ {signer[h] : h \in {}} = {}
    BY FS_EmptySet
  <1> QED
    BY <1>1, <1>2, CountsAddUp

\* A call of GetProducers: what it has read, in the order of its queries; how far
\* its total may exceed the window; and what holds until something it saw is
\* rolled back.
Fields(r) ==
  r = [step |-> r.step, head |-> r.head, since |-> r.since, upto |-> r.upto, blocks |-> r.blocks,
       vhp |-> r.vhp, last |-> r.last, timed |-> r.timed, undone |-> r.undone]

SinceOf(h) == IF h > ProducerWindow THEN h - ProducerWindow ELSE 0

Bounded(r) == SumOf(r.blocks) <= ProducerWindow \/ SumOf(r.blocks) + r.head <= ProducerWindow + r.upto

Ordered(r) ==
  /\ Fields(r)
  /\ r.since = SinceOf(r.head)
  /\ r.step = "none" => r = NoReport
  /\ r.step = "head" => r.blocks = <<>> /\ r.upto = r.head
  /\ r.step \in {"head", "counts"} => r.last = <<>> /\ r.timed = {}

\* What a last block of an entry is, as far as the chain and the counts tell.
LastRight(r, a) ==
  /\ r.last[a] = 0 \/ r.last[a] \in SignedBy(a)
  /\ a \in DOMAIN r.blocks => r.last[a] > r.since
  /\ a \notin r.timed => r.last[a] # 0

Agreeing ==
  /\ report.step # "failed"
  /\ report.head <= report.upto /\ report.upto <= head
  /\ report.step \in {"counts", "entries"} => CountsOf(report.blocks, Counted)
  /\ \A a \in DOMAIN report.last : LastRight(report, a)

Reporting ==
  ExplorerTypeOK /\ Ordered(report) /\ Bounded(report) /\ (~report.undone => Agreeing)

LEMMA ReportNumbers ==
  ASSUME ExplorerTypeOK, Ordered(report)
  PROVE  /\ report.head \in Nat /\ report.since \in Nat /\ report.upto \in Nat /\ head \in Nat
         /\ ProducerWindow \in Nat \ {0} /\ report.since <= report.head
         /\ report.head - report.since <= ProducerWindow
  <1>1. report.head \in 0 .. MaxBlock /\ report.upto \in 0 .. MaxBlock /\ MaxBlock \in Nat
    BY ExplorerAssumption DEF ExplorerTypeOK
  <1>2. head \in Nat /\ ProducerWindow \in Nat \ {0}
    BY ExplorerAssumption DEF ExplorerTypeOK, ChainOK
  <1> QED
    BY <1>1, <1>2 DEF Ordered, SinceOf

LEMMA SignedFacts ==
  ASSUME ChainOK(bal, signer, head), NEW a
  PROVE  /\ head \in Nat
         /\ \A h \in SignedBy(a) : h \in Nat /\ h \in Stored /\ 0 < h /\ h <= head /\ signer[h] = a
         /\ Newest(a) \in Nat
         /\ Newest(a) = 0 \/ Newest(a) \in SignedBy(a)
         /\ \A h \in SignedBy(a) : h <= Newest(a)
  <1>1. head \in Nat
    BY ExplorerAssumption DEF ChainOK
  <1>2. ASSUME NEW h \in SignedBy(a)
        PROVE  h \in Nat /\ h \in Stored /\ 0 < h /\ h <= head /\ signer[h] = a
    <2>1. h \in DOMAIN signer /\ signer[h] = a
      BY DEF SignedBy, Stored
    <2>2. h \in 1 .. head
      BY <2>1 DEF ChainOK
    <2> QED
      BY <1>1, <2>1, <2>2 DEF Stored
  <1>3. CASE SignedBy(a) = {}
    BY <1>1, <1>3 DEF Newest
  <1>4. CASE SignedBy(a) # {}
    <2>1. SignedBy(a) \in SUBSET Nat /\ \A h \in SignedBy(a) : h <= head
      BY <1>2
    <2>2. Max(SignedBy(a)) \in SignedBy(a) /\ \A h \in SignedBy(a) : h <= Max(SignedBy(a))
      BY <1>1, <1>4, <2>1, MaxFacts
    <2> QED
      BY <1>1, <1>2, <1>4, <2>2 DEF Newest
  <1> QED
    BY <1>1, <1>2, <1>3, <1>4

LEMMA ProducersAddUpHolds == ASSUME Reporting PROVE ProducersAddUp
  <1>1. \/ TotalBlocks <= ProducerWindow
        \/ TotalBlocks + report.head <= ProducerWindow + report.upto
    BY TotalIsSum DEF Reporting, Bounded
  <1>2. ExplorerTypeOK /\ Ordered(report) /\ ChainOK(bal, signer, head)
    BY DEF Reporting, ExplorerTypeOK
  <1>3. /\ report.head \in Nat /\ report.since \in Nat /\ report.upto \in Nat /\ head \in Nat
    BY <1>2, ReportNumbers
  <1> SUFFICES ASSUME ~report.undone
               PROVE  /\ report.step \in {"counts", "entries"} =>
                           TotalBlocks = Cardinality({h \in InWindow(report.since) : h <= report.upto})
                      /\ \A a \in DOMAIN report.last :
                           IF a \in DOMAIN report.blocks THEN report.last[a] > report.since
                           ELSE report.last[a] <= report.since \/ report.last[a] > report.upto
                      /\ report.step # "failed"
    BY <1>1 DEF ProducersAddUp
  <1>4. Agreeing
    BY DEF Reporting
  <1>5. report.step \in {"counts", "entries"} =>
          TotalBlocks = Cardinality({h \in InWindow(report.since) : h <= report.upto})
    <2> HAVE report.step \in {"counts", "entries"}
    <2>1. CountsOf(report.blocks, Counted)
      BY <1>4 DEF Agreeing
    <2>2. IsFiniteSet(Counted) /\ IsFiniteSet({signer[h] : h \in Counted})
      <3>1. Counted \in SUBSET InWindow(report.since) /\ \A h \in Counted : h <= report.upto
        BY DEF Counted
      <3> QED
        BY <1>2, <1>3, <3>1, WindowFacts
    <2> QED
      BY <2>1, <2>2, CountsAddUp, TotalIsSum DEF Counted
  <1>6. ASSUME NEW a \in DOMAIN report.last
        PROVE  IF a \in DOMAIN report.blocks THEN report.last[a] > report.since
               ELSE report.last[a] <= report.since \/ report.last[a] > report.upto
    <2>1. LastRight(report, a)
      BY <1>4 DEF Agreeing
    <2>2. report.last # <<>> /\ a \in Addresses
      BY <1>2 DEF ExplorerTypeOK
    <2>3. report.step \in {"counts", "entries"}
      <3>1. report.step \notin {"none", "head", "counts"}
        BY <1>2, <2>2 DEF Ordered, NoReport
      <3> QED
        BY <1>2, <1>4, <3>1 DEF ExplorerTypeOK, Agreeing
    <2>4. CASE report.last[a] = 0
      BY <1>3, <2>1, <2>4 DEF LastRight
    <2>5. CASE report.last[a] \in SignedBy(a)
      <3>1. report.last[a] \in Stored /\ signer[report.last[a]] = a /\ report.last[a] \in Nat
        BY <1>2, <2>5, SignedFacts
      <3>2. a # NoSigner
        BY <2>2, ExplorerAssumption
      <3>3. report.last[a] > report.since /\ report.last[a] <= report.upto => report.last[a] \in Counted
        BY <3>1, <3>2 DEF Counted, InWindow
      <3>4. report.last[a] \in Counted => a \in DOMAIN report.blocks
        BY <1>4, <2>3, <3>1 DEF Agreeing, CountsOf
      <3> QED
        BY <1>3, <2>1, <3>1, <3>3, <3>4 DEF LastRight
    <2> QED
      BY <2>1, <2>4, <2>5 DEF LastRight
  <1> QED
    BY <1>4, <1>5, <1>6 DEF Agreeing

-----------------------------------------------------------------------------
(* The ranges of blocks.                                                     *)

LEMMA RangeSize ==
  ASSUME ExplorerTypeOK, NEW from \in Nat, NEW to \in Int
  PROVE  LET rows == {h \in Stored : from <= h /\ h <= to}
         IN  from <= to => IsFiniteSet(rows) /\ Cardinality(rows) <= to - from + 1
  <1> DEFINE rows == {h \in Stored : from <= h /\ h <= to}
  <1>1. rows \in SUBSET (from .. to)
    <2>1. ASSUME NEW h \in rows PROVE h \in from .. to
      <3>1. h \in 1 .. head
        BY DEF ExplorerTypeOK, ChainOK, Stored
      <3> QED
        BY <3>1
    <2> QED
      BY <2>1
  <1>2. IsFiniteSet(from .. to) /\ (from <= to => Cardinality(from .. to) = to - from + 1)
    <2>1. from \in Int
      OBVIOUS
    <2>2. IsFiniteSet(from .. to) /\ Cardinality(from .. to) = IF from > to THEN 0 ELSE to - from + 1
      BY <2>1, FS_Interval
    <2> QED
      BY <2>2
  <1>3. IsFiniteSet(rows) /\ Cardinality(rows) <= Cardinality(from .. to)
    BY <1>1, <1>2, FS_Subset
  <1> QED
    BY <1>2, <1>3

LEMMA BlocksCoveredHolds == ASSUME ExplorerTypeOK PROVE BlocksCovered
  <1>1. Span \in Nat \ {0} /\ NewestBlocks \in Nat \ {0} /\ head \in Nat /\ MaxBlock \in Nat
    BY ExplorerAssumption DEF ExplorerTypeOK, ChainOK
  <1>2. ASSUME NEW from \in Nat, NEW to \in 1 .. head
        PROVE  LET top == IF to - from > Span THEN from + Span ELSE to
               IN  /\ from <= to =>
                        BlocksOf(from, to, head) = [from |-> from, to |-> top,
                                              rows |-> {h \in Stored : from <= h /\ h <= top}, ok |-> TRUE]
                   /\ from <= to => top \in from .. to /\ top - from <= Span
    <2>1. to # 0 /\ to \in Nat
      OBVIOUS
    <2>2. RangeAsked(from, to, head) = <<from, to>>
      BY <2>1 DEF RangeAsked
    <2>3. RangeAsked(from, to, head)[1] = from /\ RangeAsked(from, to, head)[2] = to
      BY <2>2
    <2>4. from <= to => ~(from > to)
      BY <2>1
    <2> DEFINE top == IF to - from > Span THEN from + Span ELSE to
    <2>5. from <= to => top \in from .. to /\ top - from <= Span
      BY <1>1, <2>1
    <2>6. from <= to =>
            BlocksOf(from, to, head) = [from |-> from, to |-> top,
                                  rows |-> {h \in Stored : from <= h /\ h <= top}, ok |-> TRUE]
      BY <2>3, <2>4 DEF BlocksOf
    <2> QED
      BY <2>5, <2>6
  <1>3. ASSUME NEW from \in 1 .. head, NEW to \in 1 .. head, from <= to
        PROVE  LET first == BlocksOf(from, to, head)
                   next  == BlocksOf(first.to + 1, to, head)
               IN /\ first.ok /\ Cardinality(first.rows) <= Span + 1
                  /\ {h \in Stored : from <= h /\ h <= first.to} = first.rows
                  /\ first.to < to => next.ok /\ next.from = first.to + 1
    <2> DEFINE top == IF to - from > Span THEN from + Span ELSE to
               rows == {h \in Stored : from <= h /\ h <= top}
    <2>1. /\ BlocksOf(from, to, head) = [from |-> from, to |-> top, rows |-> rows, ok |-> TRUE]
          /\ top \in from .. to /\ top - from <= Span
      BY <1>2, <1>3
    <2> HIDE DEF top
    <2>2. top \in Nat /\ from \in Nat /\ from <= top /\ top <= to /\ top \in Int
      BY <2>1
    <2>3. IsFiniteSet(rows) /\ Cardinality(rows) <= top - from + 1
      BY <2>2, RangeSize
    <2>4. Cardinality(rows) \in Nat
      BY <2>3, FS_CardinalityType
    <2>5. Cardinality(rows) <= Span + 1
      BY <1>1, <2>1, <2>2, <2>3, <2>4
    <2>6. top < to => BlocksOf(top + 1, to, head).ok /\ BlocksOf(top + 1, to, head).from = top + 1
      <3> HAVE top < to
      <3>1. top + 1 \in Nat /\ top + 1 <= to
        BY <2>2
      <3> QED
        BY <1>2, <3>1
    <2> HIDE DEF rows
    <2>7. /\ BlocksOf(from, to, head).ok /\ BlocksOf(from, to, head).to = top
          /\ BlocksOf(from, to, head).rows = rows
      BY <2>1
    <2> QED
      BY <2>5, <2>6, <2>7 DEF rows
  <1>4. ASSUME NEW n \in NewestBlocks .. MaxBlock, NewestBlocks <= Span + 1
        PROVE  BlocksOf(0, 0, n).rows = {h \in Stored : h <= n /\ h + NewestBlocks > n}
    <2> DEFINE from == n - (NewestBlocks - 1)
    <2>1. n > NewestBlocks - 1 /\ from \in Nat /\ from <= n /\ n - from <= Span
      BY <1>1, <1>4
    <2>2. RangeAsked(0, 0, n)[1] = from /\ RangeAsked(0, 0, n)[2] = n
      BY <2>1 DEF RangeAsked
    <2>3. ~(from > n) /\ ~(n - from > Span)
      BY <1>1, <2>1
    <2>4. \A h \in Stored : (from <= h /\ h <= n) <=> h <= n /\ h + NewestBlocks > n
      <3> SUFFICES ASSUME NEW h \in 1 .. head
                   PROVE  (from <= h /\ h <= n) <=> h <= n /\ h + NewestBlocks > n
        BY DEF ExplorerTypeOK, ChainOK, Stored
      <3> QED
        BY <1>1
    <2> HIDE DEF from
    <2>5. BlocksOf(0, 0, n).rows = {h \in Stored : from <= h /\ h <= n}
      BY <2>2, <2>3 DEF BlocksOf
    <2> QED
      BY <2>4, <2>5
  <1> QED
    BY <1>3, <1>4 DEF BlocksCovered

-----------------------------------------------------------------------------
(* The chain the explorer answers from, and a call of GetProducers on it.    *)

ReportTypes(r) ==
  /\ r.step \in {"none", "head", "counts", "entries", "failed"} /\ r.undone \in BOOLEAN
  /\ {r.head, r.since, r.upto} \subseteq 0 .. MaxBlock
  /\ DOMAIN r.blocks \subseteq Addresses /\ DOMAIN r.vhp \subseteq Addresses
  /\ r.timed \subseteq DOMAIN r.last /\ DOMAIN r.last \subseteq DOMAIN r.vhp

LEMMA TypesInParts ==
  ExplorerTypeOK <=> /\ ChainOK(bal, signer, head) /\ ChainOK(durable.bal, durable.signer, durable.head)
                     /\ ReportTypes(report)
  BY DEF ExplorerTypeOK, ReportTypes

LEMMA ReportingInit == ExplorerInit => Reporting
  <1> SUFFICES ASSUME ExplorerInit PROVE Reporting
    OBVIOUS
  <1>1. /\ bal = [a \in Addresses |-> 0] /\ signer = <<>> /\ head = 0
        /\ durable = [bal |-> bal, signer |-> signer, head |-> head] /\ report = NoReport
    BY DEF ExplorerInit, Now
  <1>2. MaxBlock \in Nat /\ ProducerWindow \in Nat \ {0}
    BY ExplorerAssumption
  <1>3. ChainOK(bal, signer, head) /\ ChainOK(durable.bal, durable.signer, durable.head)
    BY <1>1, <1>2 DEF ChainOK
  <1>4. ReportTypes(report)
    BY <1>1, <1>2 DEF ReportTypes, NoReport
  <1>5. Ordered(report) /\ Bounded(report) /\ Agreeing
    <2>1. Ordered(report)
      BY <1>1, <1>2 DEF Ordered, Fields, SinceOf, NoReport
    <2>2. Bounded(report)
      BY <1>1, <1>2, NothingCounted DEF Bounded, NoReport
    <2>3. Agreeing
      BY <1>1 DEF Agreeing, NoReport
    <2> QED
      BY <2>1, <2>2, <2>3
  <1> QED
    BY <1>3, <1>4, <1>5, TypesInParts DEF Reporting

\* A block is stored above everything a call has read.
LEMMA ReportingStore ==
  ASSUME Reporting, NEW h \in 1 .. MaxBlock, NEW s \in Addresses \cup {NoSigner}, StoreBlock(h, s)
  PROVE  Reporting'
  <1>1. ExplorerTypeOK /\ Ordered(report) /\ Bounded(report) /\ ChainOK(bal, signer, head) /\ ReportTypes(report)
    BY TypesInParts DEF Reporting
  <1>2. head \in 0 .. MaxBlock /\ MaxBlock \in Nat /\ head' = h /\ h > head /\ Stored \subseteq 1 .. head
    BY <1>1, ExplorerAssumption DEF StoreBlock, ChainOK, Stored
  <1>3. /\ DOMAIN signer' = Stored \cup {h}
        /\ \A i \in Stored \cup {h} : signer'[i] = IF i = h THEN s ELSE signer[i]
        /\ UNCHANGED <<durable, report>>
    BY DEF StoreBlock
  <1>4. h \notin Stored /\ \A i \in Stored : signer'[i] = signer[i] /\ i <= head
    <2>1. \A i \in Stored : i \in Nat /\ i <= head /\ i # h
      BY <1>2
    <2> QED
      BY <1>3, <2>1
  <1>5. ChainOK(bal, signer, head)'
    <2>1. bal' \in [Addresses -> Amounts \cup {0}]
      <3>1. PICK a \in Addresses, n \in Amounts : bal' = [bal EXCEPT ![a] = n]
        BY DEF StoreBlock
      <3> QED
        BY <1>1, <3>1 DEF ChainOK
    <2>2. DOMAIN signer' \subseteq 1 .. head' /\ head' \in DOMAIN signer'
      <3>1. \A i \in Stored : i \in 1 .. h
        BY <1>2
      <3> QED
        BY <1>2, <1>3, <3>1
    <2>3. \A i \in DOMAIN signer' : signer'[i] \in Addresses \cup {NoSigner}
      BY <1>1, <1>3 DEF ChainOK, Stored
    <2>4. head' \in 0 .. MaxBlock
      BY <1>2
    <2> QED
      BY <2>1, <2>2, <2>3, <2>4 DEF ChainOK
  <1>6. ExplorerTypeOK'
    BY <1>1, <1>3, <1>5, TypesInParts DEF ExplorerTypeOK
  <1>7. Ordered(report)' /\ Bounded(report)'
    BY <1>1, <1>3
  <1>8. ASSUME ~report.undone
        PROVE  Agreeing'
    <2>1. Agreeing
      BY <1>8 DEF Reporting
    <2>2. /\ report.head \in Nat /\ report.since \in Nat /\ report.upto \in Nat /\ head \in Nat
      BY <1>1, ReportNumbers
    <2>3. report.upto <= head /\ report.upto <= head' /\ ~(h <= report.upto)
      BY <1>2, <2>1, <2>2 DEF Agreeing
    <2>4. Counted' = Counted
      BY <1>3, <1>4, <2>3 DEF Counted, InWindow, Stored
    <2>5. \A i \in Counted : signer'[i] = signer[i]
      BY <1>4 DEF Counted, InWindow
    <2>6. CountsOf(report.blocks, Counted) => CountsOf(report.blocks, Counted)'
      <3>1. {signer'[i] : i \in Counted} = {signer[i] : i \in Counted}
        BY <2>5
      <3>2. \A a : {i \in Counted : signer'[i] = a} = {i \in Counted : signer[i] = a}
        BY <2>5
      <3> QED
        BY <1>3, <2>4, <3>1, <3>2 DEF CountsOf
    <2>7. \A a : SignedBy(a) \subseteq SignedBy(a)'
      BY <1>3, <1>4 DEF SignedBy, Stored
    <2>8. \A a \in DOMAIN report.last : LastRight(report, a)'
      BY <1>3, <2>1, <2>7 DEF Agreeing, LastRight
    <2> QED
      BY <1>3, <2>1, <2>3, <2>6, <2>8 DEF Agreeing
  <1> QED
    BY <1>3, <1>6, <1>7, <1>8 DEF Reporting

LEMMA ReportingCommit == ASSUME Reporting, CommitBlocks PROVE Reporting'
  <1>1. /\ durable' = [bal |-> bal, signer |-> signer, head |-> head]
        /\ UNCHANGED <<bal, signer, head, report>>
    BY DEF CommitBlocks, Now
  <1>2. durable'.bal = bal /\ durable'.signer = signer /\ durable'.head = head
    BY <1>1
  <1>3. ExplorerTypeOK'
    BY <1>1, <1>2, TypesInParts DEF Reporting, ExplorerTypeOK
  <1>4. Ordered(report)' /\ Bounded(report)' /\ (~report.undone => Agreeing)'
    BY <1>1 DEF Reporting, Agreeing, Counted, InWindow, Stored, CountsOf, LastRight, SignedBy
  <1> QED
    BY <1>3, <1>4 DEF Reporting

LEMMA ReportingUndo == ASSUME Reporting, UndoBlocks PROVE Reporting'
  <1>1. /\ bal' = durable.bal /\ signer' = durable.signer /\ head' = durable.head
        /\ report' = [report EXCEPT !.undone = report.step # "none"]
        /\ durable' = durable
    BY DEF UndoBlocks
  <1>2. Fields(report) /\ ReportTypes(report) /\ Ordered(report) /\ Bounded(report)
    BY TypesInParts DEF Reporting, Ordered
  <1>3. ChainOK(bal, signer, head)' /\ ChainOK(durable.bal, durable.signer, durable.head)'
    BY <1>1, TypesInParts DEF Reporting
  <1>4. CASE report.step = "none"
    <2>1. report = NoReport /\ report' = NoReport
      <3>1. report = NoReport
        BY <1>2, <1>4 DEF Ordered
      <3>2. report' = [NoReport EXCEPT !.undone = FALSE]
        BY <1>1, <1>4, <3>1
      <3> QED
        BY <3>1, <3>2 DEF NoReport
    <2>2. head' \in Nat
      BY <1>3, ExplorerAssumption DEF ChainOK
    <2>3. Agreeing'
      BY <2>1, <2>2 DEF Agreeing, NoReport
    <2>4. Ordered(report)' /\ Bounded(report)' /\ ReportTypes(report)'
      BY <1>2, <2>1
    <2> QED
      BY <1>3, <2>3, <2>4, TypesInParts DEF Reporting, ExplorerTypeOK, ReportTypes
  <1>5. CASE report.step # "none"
    <2>1. report' = [step |-> report.step, head |-> report.head, since |-> report.since,
                     upto |-> report.upto, blocks |-> report.blocks, vhp |-> report.vhp,
                     last |-> report.last, timed |-> report.timed, undone |-> TRUE]
      BY <1>1, <1>2, <1>5 DEF Fields
    <2>2. Ordered(report')
      BY <1>2, <1>5, <2>1 DEF Ordered, Fields
    <2>3. Bounded(report') /\ ReportTypes(report') /\ report'.undone
      BY <1>2, <2>1 DEF Bounded, ReportTypes
    <2> QED
      BY <1>3, <2>2, <2>3, TypesInParts DEF Reporting, ExplorerTypeOK, ReportTypes
  <1> QED
    BY <1>4, <1>5

\* What a query of GetProducers leaves to show.
LEMMA ReportingQuery ==
  ASSUME Reporting, UNCHANGED chain, ReportTypes(report'), Ordered(report'), Bounded(report'),
         report'.undone = report.undone, ~report.undone => Agreeing'
  PROVE  Reporting'
  <1>1. UNCHANGED <<bal, signer, head, durable>>
    BY DEF chain
  <1>2. ExplorerTypeOK'
    BY <1>1, TypesInParts DEF Reporting, ExplorerTypeOK, ReportTypes
  <1> QED
    BY <1>2 DEF Reporting

LEMMA ReportingHead == ASSUME Reporting, ReadHead PROVE Reporting'
  <1>1. Fields(report) /\ ReportTypes(report) /\ ChainOK(bal, signer, head) /\ report = NoReport
    BY TypesInParts DEF Reporting, Ordered, ReadHead
  <1>2. head \in 0 .. MaxBlock /\ head \in Nat /\ ProducerWindow \in Nat \ {0} /\ MaxBlock \in Nat
    BY <1>1, ExplorerAssumption DEF ChainOK
  <1>3. report' = [step |-> "head", head |-> head, since |-> SinceOf(head), upto |-> head,
                   blocks |-> <<>>, vhp |-> <<>>, last |-> <<>>, timed |-> {}, undone |-> FALSE]
    BY <1>1 DEF ReadHead, NoReport, SinceOf
  <1>4. SinceOf(head) \in 0 .. MaxBlock
    BY <1>2 DEF SinceOf
  <1>5. ReportTypes(report')
    BY <1>2, <1>3, <1>4 DEF ReportTypes
  <1>6. Ordered(report')
    BY <1>3 DEF Ordered, Fields
  <1>7. Bounded(report')
    BY <1>2, <1>3, NothingCounted DEF Bounded
  <1>8. Agreeing'
    <2>1. head' = head /\ DOMAIN <<>> = {}
      BY DEF ReadHead, chain
    <2> QED
      BY <1>2, <1>3, <2>1 DEF Agreeing
  <1> QED
    BY <1>1, <1>3, <1>5, <1>6, <1>7, <1>8, ReportingQuery DEF ReadHead, NoReport

LEMMA ReportingCounts == ASSUME Reporting, ReadCounts PROVE Reporting'
  <1> DEFINE H == InWindow(report.since)
             f == [a \in {signer[h] : h \in H} |-> Cardinality({h \in H : signer[h] = a})]
  <1>1. /\ ExplorerTypeOK /\ Fields(report) /\ ReportTypes(report) /\ Ordered(report)
        /\ ChainOK(bal, signer, head) /\ report.step = "head"
        /\ report.last = <<>> /\ report.timed = {} /\ report.since = SinceOf(report.head)
    BY TypesInParts DEF Reporting, Ordered, ReadCounts
  <1>2. /\ report.head \in Nat /\ report.since \in Nat /\ head \in Nat /\ head \in 0 .. MaxBlock
        /\ ProducerWindow \in Nat \ {0}
    BY <1>1, ReportNumbers DEF ChainOK
  <1>3. report' = [step |-> "counts", head |-> report.head, since |-> report.since, upto |-> head,
                   blocks |-> f, vhp |-> report.vhp, last |-> <<>>, timed |-> {}, undone |-> report.undone]
    <2> HIDE DEF f
    <2>1. report' = [report EXCEPT !.step = "counts", !.upto = head, !.blocks = f]
      BY DEF ReadCounts, f
    <2> QED
      BY <1>1, <2>1 DEF Fields
  <1>4. \A h \in H : h <= head
    <2> TAKE h \in H
    <2>1. h \in 1 .. head
      BY <1>1 DEF InWindow, ChainOK, Stored
    <2> QED
      BY <2>1
  <1>5. /\ IsFiniteSet(H) /\ IsFiniteSet({signer[h] : h \in H})
        /\ {signer[h] : h \in H} \subseteq Addresses
        /\ Cardinality(H) \in Nat
        /\ Cardinality(H) <= IF head > report.since THEN head - report.since ELSE 0
    BY <1>1, <1>2, <1>4, WindowFacts
  <1>6. CountsOf(f, H)
    BY DEF CountsOf
  <1>7. DOMAIN f = {signer[h] : h \in H}
    OBVIOUS
  <1> HIDE DEF f, H
  <1>8. SumOf(f) = Cardinality(H)
    BY <1>5, <1>6, CountsAddUp
  <1>9. ReportTypes(report')
    BY <1>1, <1>2, <1>3, <1>5, <1>7 DEF ReportTypes
  <1>10. Ordered(report')
    BY <1>1, <1>3 DEF Ordered, Fields
  <1>11. Bounded(report')
    BY <1>1, <1>2, <1>3, <1>5, <1>8 DEF Bounded, SinceOf
  <1>12. UNCHANGED <<bal, signer, head, durable>>
    BY DEF ReadCounts, chain
  <1>13. ASSUME ~report.undone
         PROVE  Agreeing'
    <2>1. report.head <= head
      BY <1>1, <1>2, <1>13 DEF Reporting, Agreeing, Ordered
    <2>2. Counted' = H
      BY <1>3, <1>4, <1>12 DEF Counted, InWindow, Stored, H
    <2>3. CountsOf(report.blocks, Counted)'
      BY <1>3, <1>6, <1>12, <2>2 DEF CountsOf
    <2>4. DOMAIN report'.last = {}
      BY <1>3
    <2> QED
      BY <1>2, <1>3, <1>12, <2>1, <2>3, <2>4 DEF Agreeing
  <1> QED
    BY <1>3, <1>9, <1>10, <1>11, <1>13, ReportingQuery DEF ReadCounts

LEMMA ReportingHolders == ASSUME Reporting, ReadHolders PROVE Reporting'
  <1> DEFINE v == [a \in DOMAIN report.blocks \cup Holders |-> bal[a]]
  <1>1. /\ Fields(report) /\ ReportTypes(report) /\ Ordered(report) /\ Bounded(report)
        /\ report.step = "counts" /\ report.last = <<>> /\ report.timed = {}
    BY TypesInParts DEF Reporting, Ordered, ReadHolders
  <1>2. report' = [step |-> "entries", head |-> report.head, since |-> report.since, upto |-> report.upto,
                   blocks |-> report.blocks, vhp |-> v, last |-> report.last, timed |-> report.timed,
                   undone |-> report.undone]
    <2> HIDE DEF v
    <2>1. report' = [report EXCEPT !.step = "entries", !.vhp = v]
      BY DEF ReadHolders, v
    <2> QED
      BY <1>1, <2>1 DEF Fields
  <1>3. DOMAIN v \subseteq Addresses
    BY <1>1 DEF ReportTypes, Holders
  <1> HIDE DEF v
  <1>4. ReportTypes(report')
    BY <1>1, <1>2, <1>3 DEF ReportTypes
  <1>5. Ordered(report') /\ Bounded(report')
    BY <1>1, <1>2 DEF Ordered, Fields, Bounded
  <1>6. UNCHANGED <<bal, signer, head, durable>>
    BY DEF ReadHolders, chain
  <1>7. ASSUME ~report.undone
        PROVE  Agreeing'
    <2>1. Agreeing
      BY <1>7 DEF Reporting
    <2>2. CountsOf(report.blocks, Counted)' /\ DOMAIN report'.last = {}
      <3>1. CountsOf(report.blocks, Counted)
        BY <1>1, <2>1 DEF Agreeing
      <3>2. report'.blocks = report.blocks /\ report'.since = report.since /\ report'.upto = report.upto
        BY <1>2
      <3>3. CountsOf(report.blocks, Counted)'
        BY <1>6, <3>1, <3>2 DEF CountsOf, Counted, InWindow, Stored
      <3>4. DOMAIN report'.last = {}
        BY <1>1, <1>2
      <3> QED
        BY <3>3, <3>4
    <2> QED
      BY <1>2, <1>6, <2>1, <2>2 DEF Agreeing
  <1> QED
    BY <1>2, <1>4, <1>5, <1>7, ReportingQuery DEF ReadHolders

LEMMA ReportingLast == ASSUME Reporting, NEW a \in Addresses, ReadLast(a) PROVE Reporting'
  <1> DEFINE l == [b \in {a} \cup DOMAIN report.last |-> IF b = a THEN Newest(a) ELSE report.last[b]]
             t == IF Newest(a) = 0 THEN report.timed \cup {a} ELSE report.timed
  <1>1. /\ Fields(report) /\ ReportTypes(report) /\ Ordered(report) /\ Bounded(report)
        /\ ChainOK(bal, signer, head) /\ report.step = "entries"
        /\ a \in DOMAIN report.vhp \ DOMAIN report.last
    BY TypesInParts DEF Reporting, Ordered, ReadLast
  <1>2. report' = [step |-> "entries", head |-> report.head, since |-> report.since, upto |-> report.upto,
                   blocks |-> report.blocks, vhp |-> report.vhp, last |-> l, timed |-> t,
                   undone |-> report.undone]
    <2> HIDE DEF l, t
    <2>1. report' = [report EXCEPT !.last = l, !.timed = t]
      BY <1>1 DEF ReadLast, Fields, l, t
    <2> QED
      BY <1>1, <2>1 DEF Fields
  <1>3. /\ DOMAIN l = {a} \cup DOMAIN report.last /\ l[a] = Newest(a)
        /\ \A b \in DOMAIN report.last : b # a /\ l[b] = report.last[b]
    BY <1>1
  <1>4. report.timed \subseteq t /\ t \subseteq {a} \cup report.timed /\ (Newest(a) = 0 => a \in t)
    OBVIOUS
  <1> HIDE DEF l, t
  <1>5. ReportTypes(report')
    BY <1>1, <1>2, <1>3, <1>4 DEF ReportTypes
  <1>6. Ordered(report') /\ Bounded(report')
    BY <1>1, <1>2 DEF Ordered, Fields, Bounded
  <1>7. UNCHANGED <<bal, signer, head, durable>>
    BY DEF ReadLast, chain
  <1>8. ASSUME ~report.undone
        PROVE  Agreeing'
    <2>1. Agreeing
      BY <1>8 DEF Reporting
    <2>2. CountsOf(report.blocks, Counted)' /\ CountsOf(report.blocks, Counted)
      BY <1>1, <1>2, <1>7, <2>1 DEF Agreeing, CountsOf, Counted, InWindow, Stored
    <2>3. \A b : SignedBy(b)' = SignedBy(b)
      BY <1>7 DEF SignedBy, Stored
    <2>4. LastRight(report, a)'
      <3>1. Newest(a) = 0 \/ Newest(a) \in SignedBy(a)
        BY <1>1, SignedFacts
      <3>2. ASSUME a \in DOMAIN report.blocks
            PROVE  Newest(a) > report.since
        <4>1. PICK h \in Counted : signer[h] = a
          BY <2>2, <3>2 DEF CountsOf
        <4>2. h \in SignedBy(a) /\ h > report.since
          BY <4>1 DEF Counted, InWindow, SignedBy
        <4>3. h <= Newest(a) /\ h \in Nat /\ Newest(a) \in Nat /\ report.since \in Nat
          BY <1>1, <4>2, SignedFacts, ReportNumbers DEF Reporting
        <4> QED
          BY <4>2, <4>3
      <3> QED
        BY <1>2, <1>3, <1>4, <2>3, <3>1, <3>2 DEF LastRight
    <2>5. \A b \in DOMAIN report.last : LastRight(report, b)'
      BY <1>2, <1>3, <1>4, <2>1, <2>3 DEF Agreeing, LastRight
    <2>6. \A b \in DOMAIN report'.last : LastRight(report, b)'
      BY <1>2, <1>3, <2>4, <2>5
    <2> QED
      BY <1>2, <1>7, <2>1, <2>2, <2>6 DEF Agreeing
  <1> QED
    BY <1>2, <1>5, <1>6, <1>8, ReportingQuery DEF ReadLast

LEMMA ReportingTime == ASSUME Reporting, NEW a \in Addresses, ReadTime(a) PROVE Reporting'
  <1>1. /\ Fields(report) /\ ReportTypes(report) /\ Ordered(report) /\ Bounded(report)
        /\ ChainOK(bal, signer, head) /\ report.step = "entries"
        /\ a \in DOMAIN report.last \ report.timed
    BY TypesInParts DEF Reporting, Ordered, ReadTime
  <1>2. UNCHANGED <<bal, signer, head, durable>>
    BY DEF ReadTime, chain
  <1>3. CASE report.last[a] \in Stored
    <2>1. report' = [step |-> "entries", head |-> report.head, since |-> report.since, upto |-> report.upto,
                     blocks |-> report.blocks, vhp |-> report.vhp, last |-> report.last,
                     timed |-> report.timed \cup {a}, undone |-> report.undone]
      <3>1. report' = [report EXCEPT !.timed = report.timed \cup {a}]
        BY <1>1, <1>3 DEF ReadTime, Fields
      <3> QED
        BY <1>1, <3>1 DEF Fields
    <2>2. ReportTypes(report') /\ Ordered(report') /\ Bounded(report')
      BY <1>1, <2>1 DEF ReportTypes, Ordered, Fields, Bounded
    <2>3. ASSUME ~report.undone
          PROVE  Agreeing'
      <3>1. Agreeing
        BY <2>3 DEF Reporting
      <3>2. CountsOf(report.blocks, Counted)'
        BY <1>1, <1>2, <2>1, <3>1 DEF Agreeing, CountsOf, Counted, InWindow, Stored
      <3>3. \A b \in DOMAIN report'.last : LastRight(report, b)'
        BY <1>2, <2>1, <3>1 DEF Agreeing, LastRight, SignedBy, Stored
      <3> QED
        BY <1>2, <2>1, <3>1, <3>2, <3>3 DEF Agreeing
    <2> QED
      BY <2>1, <2>2, <2>3, ReportingQuery DEF ReadTime
  <1>4. CASE report.last[a] \notin Stored
    <2>1. report' = [step |-> "failed", head |-> report.head, since |-> report.since, upto |-> report.upto,
                     blocks |-> report.blocks, vhp |-> report.vhp, last |-> report.last,
                     timed |-> report.timed, undone |-> report.undone]
      <3>1. report' = [report EXCEPT !.step = "failed"]
        BY <1>4 DEF ReadTime
      <3> QED
        BY <1>1, <3>1 DEF Fields
    <2>2. ReportTypes(report') /\ Ordered(report') /\ Bounded(report')
      BY <1>1, <2>1 DEF ReportTypes, Ordered, Fields, Bounded
    <2>3. report.undone
      <3> SUFFICES ASSUME ~report.undone PROVE FALSE
        OBVIOUS
      <3>1. LastRight(report, a)
        BY <1>1 DEF Reporting, Agreeing
      <3>2. report.last[a] \in SignedBy(a)
        BY <1>1, <3>1 DEF LastRight
      <3> QED
        BY <1>4, <3>2 DEF SignedBy
    <2> QED
      BY <2>1, <2>2, <2>3, ReportingQuery DEF ReadTime
  <1> QED
    BY <1>3, <1>4

LEMMA ReportingInductive == Reporting /\ [ExplorerNext]_explorerVars => Reporting'
  <1> SUFFICES ASSUME Reporting, [ExplorerNext]_explorerVars PROVE Reporting'
    OBVIOUS
  <1>1. CASE UNCHANGED explorerVars
    <2>1. UNCHANGED <<bal, signer, head, durable, report>>
      BY <1>1 DEF explorerVars, chain
    <2>2. Ordered(report)' /\ Bounded(report)' /\ ExplorerTypeOK'
      BY <2>1 DEF Reporting, ExplorerTypeOK
    <2>3. (~report.undone => Agreeing)'
      BY <2>1 DEF Reporting, Agreeing, Counted, InWindow, Stored, CountsOf, LastRight, SignedBy
    <2> QED
      BY <2>2, <2>3 DEF Reporting
  <1>2. CASE ProducersStep
    BY <1>2, ReportingHead, ReportingCounts, ReportingHolders, ReportingLast, ReportingTime DEF ProducersStep
  <1> QED
    BY <1>1, <1>2, ReportingStore, ReportingCommit, ReportingUndo DEF ExplorerNext

\* ExplorerTypeOK: the stored blocks lie between 1 and the head, the head among
\* them, as they are and as the last commit left them, and a call of GetProducers
\* keeps to known addresses.
THEOREM ExplorerTyped == ExplorerSpec => []ExplorerTypeOK
  <1>1. Reporting => ExplorerTypeOK
    BY DEF Reporting
  <1> QED
    BY <1>1, ReportingInit, ReportingInductive, PTL DEF ExplorerSpec

\* ExplorerAnswersRight: for every radix, page size, clamp, window and chain, GET
\* /holders ranks by value and its pages up to the clamp are the first holders; a
\* call of GET /producers counts the blocks of its window, above the window only
\* by what was stored after its first query, whatever is stored, committed or
\* rolled back between its queries; and the ranges of GET /blocks cover the store.
THEOREM ExplorerRight == ExplorerSpec => []ExplorerAnswersRight
  <1>1. Reporting => ExplorerAnswersRight
    <2> SUFFICES ASSUME Reporting PROVE ExplorerAnswersRight
      OBVIOUS
    <2>1. ExplorerTypeOK
      BY DEF Reporting
    <2>2. Balances
      <3>1. bal \in [Addresses -> Amounts \cup {0}] /\ Amounts \cup {0} \subseteq Nat
        BY <2>1, ExplorerAssumption DEF ExplorerTypeOK, ChainOK
      <3> QED
        BY <3>1 DEF Balances
    <2> QED
      BY <2>1, <2>2, RankedByValueHolds, ProducersAddUpHolds, BlocksCoveredHolds DEF ExplorerAnswersRight
  <1> QED
    BY <1>1, ReportingInit, ReportingInductive, PTL DEF ExplorerSpec
==============================================================================
