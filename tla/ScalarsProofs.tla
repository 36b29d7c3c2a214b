--------------------------- MODULE ScalarsProofs ---------------------------
(***************************************************************************)
(* Proofs about Scalars, for any number of threads and connections, any    *)
(* updates and any width of the atomics.                                   *)
(*                                                                         *)
(* The argument: `current` is the number of live connections and `total`   *)
(* counts establishments one by one, so the position of a value of `total` *)
(* in its modification order is the number of connections established by   *)
(* then; the connections a thread knows have positions of their own, all   *)
(* before the thread's (OrderInv).  Sums are kept modulo the width.  Each  *)
(* value of `current` counts a set of connections, and those a thread can  *)
(* load have the connections it holds and none it knows to be closed       *)
(* (CurrentInv).                                                           *)
(***************************************************************************)
EXTENDS Scalars, SumProofs, FunctionTheorems, SequenceTheorems

(* The width, its half, and the casts of 1 and -1. *)
LEMMA WidthFacts ==
  /\ Modulus \in Nat \ {0} /\ Modulus > 1
  /\ Modulus \div 2 \in Nat /\ Modulus = 2 * (Modulus \div 2)
  /\ Modulus \div 2 < Modulus
  /\ AsU64(1) = 1 /\ AsU64(-1) = Modulus - 1
  <1>1. Modulus \in Nat \ {0} /\ Modulus > 1 /\ Modulus % 2 = 0
    BY ScalarsAssumption
  <1> DEFINE h == Modulus \div 2
  <1>2. h \in Int /\ Modulus = 2 * h + (Modulus % 2)
    BY <1>1
  <1> HIDE DEF h
  <1>3. h \in Nat /\ Modulus = 2 * h /\ h < Modulus
    BY <1>1, <1>2
  <1>4. 1 % Modulus = 1
    BY <1>1, ModSmall
  <1>5. (-1) % Modulus = Modulus - 1
    <2>1. Modulus - 1 \in 0..(Modulus - 1) /\ -1 \in Int
      BY <1>1
    <2>2. -1 = Modulus * (-1) + (Modulus - 1)
      BY <1>1
    <2> QED BY <1>1, <2>1, <2>2, ModUnique
  <1> QED BY <1>1, <1>3, <1>4, <1>5 DEF h, AsU64

(* The i64 read from a wrapped sum is the sum wrapped around zero. *)
LEMMA SignedWrap ==
  ASSUME NEW v \in Int
  PROVE  AsI64(v % Modulus) = ((v + (Modulus \div 2)) % Modulus) - (Modulus \div 2)
  <1> DEFINE M == Modulus
             h == Modulus \div 2
             q == v \div M
             r == v % M
  <1>1. M \in Nat \ {0} /\ h \in Nat /\ M = 2 * h
    BY WidthFacts
  <1>2. q \in Int /\ r \in 0..(M - 1) /\ v = M * q + r
    BY <1>1, ModFacts
  <1>3. AsI64(r) = IF r < h THEN r ELSE r - M
    BY DEF AsI64
  <1> HIDE DEF M, h, q, r
  <1>4. v + h \in Int
    BY <1>1
  <1>5. M * q \in Int /\ M * (q + 1) = M * q + M
    BY <1>1, <1>2
  <1>6. CASE r < h
    <2>1. r + h \in 0..(M - 1) /\ v + h = M * q + (r + h)
      BY <1>1, <1>2, <1>5, <1>6
    <2>2. (v + h) % M = r + h
      BY <1>1, <1>2, <1>4, <2>1, ModUnique
    <2>3. AsI64(r) = ((v + h) % M) - h
      BY <1>1, <1>2, <1>3, <1>6, <2>2
    <2> QED BY <2>3 DEF M, h, r
  <1>7. CASE ~ (r < h)
    <2>1. /\ r - h \in 0..(M - 1) /\ q + 1 \in Int
          /\ v + h = M * (q + 1) + (r - h)
      BY <1>1, <1>2, <1>5, <1>7
    <2>2. (v + h) % M = r - h
      BY <1>1, <1>4, <2>1, ModUnique
    <2>3. AsI64(r) = ((v + h) % M) - h
      BY <1>1, <1>2, <1>3, <1>7, <2>2
    <2> QED BY <2>3 DEF M, h, r
  <1> QED BY <1>6, <1>7

----------------------------------------------------------------------------
(***************************************************************************)
(* The inductive invariant.                                                *)
(***************************************************************************)

(* Each value of `total` counts the establishments before it. *)
TotalInv ==
  /\ Len(cell["total"]) = Cardinality(EverEstablished) + 1
  /\ \A i \in 1..Len(cell["total"]) : cell["total"][i] = i - 1

(* The establishments have an order, a thread that knows a connection has   *)
(* seen the value of `total` that counts it.                                *)
OrderInv ==
  \E f \in [EverEstablished -> 1..(Len(cell["total"]) - 1)] :
    /\ \A x, y \in EverEstablished : f[x] = f[y] => x = y
    /\ \A t \in Threads : \A x \in known[t] :
         x \in EverEstablished /\ f[x] < view[t]["total"]

(* The values of the four atomics. *)
SumInv ==
  /\ Newest("current") = Cardinality(Live)
  /\ Newest("gauge") = net % Modulus
  /\ Newest("counter") = added % Modulus

ScalarsInv == TypeOK /\ TotalInv /\ OrderInv /\ SumInv

(* The cells. *)
LEMMA CellFacts ==
  /\ "current" \in Cells /\ "total" \in Cells /\ "gauge" \in Cells /\ "counter" \in Cells
  /\ 0 \in 0..(Modulus - 1)
  BY WidthFacts DEF Cells

(* A modification order is never empty and ends in its newest value. *)
LEMMA NewestFacts ==
  ASSUME TypeOK, NEW c \in Cells, Threads # {}
  PROVE  /\ Len(cell[c]) \in Nat \ {0} /\ cell[c] \in Seq(0..(Modulus - 1))
         /\ Newest(c) \in 0..(Modulus - 1)
  <1>1. PICK t : t \in Threads
    OBVIOUS
  <1>2. cell[c] \in Seq(0..(Modulus - 1)) /\ view[t][c] \in 1..Len(cell[c])
    BY <1>1 DEF TypeOK
  <1>3. Len(cell[c]) \in Nat
    BY <1>2
  <1>4. Len(cell[c]) \in Nat \ {0} /\ Len(cell[c]) \in 1..Len(cell[c])
    BY <1>2, <1>3
  <1>5. cell[c][Len(cell[c])] \in 0..(Modulus - 1)
    BY <1>2, <1>4, ElementOfSeq
  <1> QED BY <1>2, <1>4, <1>5 DEF Newest

(* A write is the newest value of its cell and known to its thread; other   *)
(* cells and other threads' views stay.                                     *)
LEMMA WriteFacts ==
  ASSUME TypeOK, NEW t \in Threads, NEW c \in Cells, NEW n \in 0..(Modulus - 1), Write(t, c, n)
  PROVE  /\ cell' \in [Cells -> Seq(0..(Modulus - 1))]
         /\ view' \in [Threads -> [Cells -> Nat]]
         /\ \A u \in Threads, d \in Cells : view'[u][d] \in 1..Len(cell'[d])
         /\ Newest(c)' = n
         /\ Len(cell'[c]) = Len(cell[c]) + 1 /\ cell'[c][Len(cell[c]) + 1] = n
         /\ \A i \in 1..Len(cell[c]) : cell'[c][i] = cell[c][i]
         /\ \A d \in Cells \ {c} : cell'[d] = cell[d] /\ Newest(d)' = Newest(d)
         /\ view'[t][c] = Len(cell[c]) + 1
         /\ \A u \in Threads, d \in Cells : u # t \/ d # c => view'[u][d] = view[u][d]
  <1> DEFINE M == 0..(Modulus - 1)
             k == Len(cell[c])
             s == Append(cell[c], n)
  <1>1. cell \in [Cells -> Seq(M)] /\ cell[c] \in Seq(M) /\ k \in Nat \ {0}
    BY NewestFacts DEF TypeOK
  <1>2. /\ s \in Seq(M) /\ Len(s) = k + 1 /\ s[k + 1] = n
        /\ \A i \in 1..k : s[i] = cell[c][i]
    BY <1>1, AppendProperties
  <1>3. cell' = [cell EXCEPT ![c] = s] /\ view' = [view EXCEPT ![t][c] = k + 1]
    BY DEF Write
  <1> HIDE DEF M, k, s
  <1>4. cell'[c] = s /\ \A d \in Cells \ {c} : cell'[d] = cell[d]
    BY <1>1, <1>3
  <1>5. view \in [Threads -> [Cells -> Nat]]
    BY DEF TypeOK
  <1>6. /\ view'[t][c] = k + 1 /\ view' \in [Threads -> [Cells -> Nat]]
        /\ \A u \in Threads, d \in Cells : u # t \/ d # c => view'[u][d] = view[u][d]
    BY <1>1, <1>3, <1>5
  <1>7. cell' \in [Cells -> Seq(M)]
    BY <1>1, <1>2, <1>3
  <1>8. Newest(c)' = n /\ \A d \in Cells \ {c} : Newest(d)' = Newest(d)
    BY <1>2, <1>4 DEF Newest
  <1>9. ASSUME NEW u \in Threads, NEW d \in Cells PROVE view'[u][d] \in 1..Len(cell'[d])
    <2>1. view[u][d] \in 1..Len(cell[d])
      BY DEF TypeOK
    <2>2. CASE u = t /\ d = c
      BY <1>1, <1>2, <1>4, <1>6, <2>2
    <2>3. CASE d # c
      BY <1>4, <1>6, <2>1, <2>3
    <2>4. CASE u # t /\ d = c
      <3>1. view'[u][d] = view[u][d] /\ Len(cell'[d]) = k + 1 /\ view[u][d] \in 1..k
        BY <1>2, <1>4, <1>6, <2>1, <2>4 DEF k
      <3> QED BY <1>1, <3>1
    <2> QED BY <2>2, <2>3, <2>4
  <1> QED BY <1>2, <1>4, <1>6, <1>7, <1>8, <1>9 DEF M, k

(* A fetch_add writes a value of the width. *)
LEMMA FetchAddWrites ==
  ASSUME TypeOK, NEW t \in Threads, NEW c \in Cells, NEW n \in Nat, FetchAdd(t, c, n)
  PROVE  /\ (Newest(c) + n) % Modulus \in 0..(Modulus - 1)
         /\ Write(t, c, (Newest(c) + n) % Modulus)
  <1>1. Newest(c) \in 0..(Modulus - 1)
    BY NewestFacts
  <1>2. Newest(c) + n \in Int /\ Modulus \in Nat \ {0}
    BY <1>1, WidthFacts
  <1>3. (Newest(c) + n) % Modulus \in 0..(Modulus - 1)
    BY <1>2, ModFacts
  <1> QED BY <1>3 DEF FetchAdd, AddTo

(* The cast of an i64 is a u64. *)
LEMMA CastType ==
  ASSUME NEW v \in Int
  PROVE  AsU64(v) \in 0..(Modulus - 1) /\ AsU64(v) \in Nat
  <1>1. v % Modulus \in 0..(Modulus - 1)
    BY WidthFacts, ModFacts
  <1> QED BY <1>1 DEF AsU64

(* Finitely many connections, fewer than half the width. *)
LEMMA CountFacts ==
  ASSUME NEW S \in SUBSET Connections
  PROVE  /\ IsFiniteSet(S) /\ Cardinality(S) \in Nat
         /\ Cardinality(S) < Modulus \div 2 /\ Cardinality(S) < Modulus
  <1>1. IsFiniteSet(Connections)
    BY ScalarsAssumption
  <1>2. IsFiniteSet(S) /\ Cardinality(S) <= Cardinality(Connections)
    BY <1>1, FS_Subset
  <1>3. Cardinality(S) \in Nat /\ Cardinality(Connections) \in Nat
    BY <1>1, <1>2, FS_CardinalityType
  <1> QED BY <1>2, <1>3, WidthFacts, ConnectionsAssumption

----------------------------------------------------------------------------
(***************************************************************************)
(* Every action preserves the invariant.                                   *)
(***************************************************************************)

(* A step that does not touch `total` and lets no thread forget or learn    *)
(* of a connection.                                                         *)
LEMMA TotalFrame ==
  ASSUME TotalInv, OrderInv, EverEstablished' = EverEstablished,
         cell'["total"] = cell["total"], UNCHANGED known,
         \A u \in Threads : view[u]["total"] \in Nat /\ view'[u]["total"] \in Nat
                            /\ view[u]["total"] <= view'[u]["total"]
  PROVE  TotalInv' /\ OrderInv'
  <1>1. TotalInv'
    BY DEF TotalInv
  <1>2. PICK f \in [EverEstablished -> 1..(Len(cell["total"]) - 1)] :
          /\ \A x, y \in EverEstablished : f[x] = f[y] => x = y
          /\ \A t \in Threads : \A x \in known[t] :
               x \in EverEstablished /\ f[x] < view[t]["total"]
    BY DEF OrderInv
  <1>3. \A t \in Threads : \A x \in known'[t] : x \in EverEstablished /\ f[x] < view'[t]["total"]
    <2> TAKE t \in Threads
    <2> TAKE x \in known'[t]
    <2>1. x \in EverEstablished /\ f[x] < view[t]["total"]
      BY <1>2
    <2>2. Len(cell["total"]) = Cardinality(EverEstablished) + 1 /\ Cardinality(EverEstablished) \in Nat
      BY CountFacts DEF TotalInv, EverEstablished
    <2>3. f[x] \in 1..(Len(cell["total"]) - 1) /\ Len(cell["total"]) \in Int
      BY <2>1, <2>2
    <2> QED BY <2>1, <2>3
  <1>4. OrderInv'
    BY <1>2, <1>3 DEF OrderInv
  <1> QED BY <1>1, <1>4

(* The gauge goes up with a connection. *)
LEMMA ConnectStep ==
  ASSUME ScalarsInv, NEW t \in Threads, NEW x \in Connections,
         NEW state \in {"reporting", "guarding"}, Connect(t, x, state)
  PROVE  ScalarsInv'
  <1> DEFINE n == Cardinality(Live)
  <1> USE DEF ScalarsInv
  <1>1. /\ conn[x] = "none" /\ conn' = [conn EXCEPT ![x] = state]
        /\ owner' = [owner EXCEPT ![x] = {t}]
        /\ UNCHANGED <<known, gone, scraped, updates, net, added>>
        /\ FetchAdd(t, "current", 1)
    BY WidthFacts DEF Connect, updateVars
  <1>2. Live' = Live \cup {x} /\ x \notin Live
    BY <1>1 DEF Live, TypeOK
  <1>3. EverEstablished' = EverEstablished
    BY <1>1 DEF EverEstablished, TypeOK
  <1>4. n \in Nat /\ Cardinality(Live') = n + 1 /\ n + 1 < Modulus
    <2>1. Live \in SUBSET Connections /\ Live' \in SUBSET Connections
      BY <1>2 DEF Live
    <2>2. IsFiniteSet(Live) /\ n \in Nat /\ Cardinality(Live') < Modulus
      BY <2>1, CountFacts
    <2>3. Cardinality(Live \cup {x}) = n + 1
      BY <1>2, <2>2, FS_AddElement
    <2> QED BY <1>2, <2>2, <2>3
  <1>5. Newest("current") = n
    BY DEF SumInv
  <1> HIDE DEF n
  <1>6. (Newest("current") + 1) % Modulus = n + 1
    BY <1>4, <1>5, WidthFacts, ModSmall
  <1>7. n + 1 \in 0..(Modulus - 1) /\ Write(t, "current", n + 1)
    BY <1>1, <1>6, CellFacts, FetchAddWrites
  <1>8. TypeOK'
    <2>1. conn' \in [Connections -> ConnStates] /\ owner' \in [Connections -> SUBSET Threads]
      BY <1>1 DEF TypeOK, ConnStates
    <2> QED BY <1>1, <1>7, <2>1, CellFacts, WriteFacts DEF TypeOK
  <1>9. TotalInv' /\ OrderInv'
    <2>1. cell'["total"] = cell["total"]
      BY <1>7, CellFacts, WriteFacts
    <2>2. \A u \in Threads : view'[u]["total"] = view[u]["total"] /\ view[u]["total"] \in Nat
      <3>1. TypeOK /\ "current" \in Cells /\ "total" \in Cells /\ "total" # "current"
        BY CellFacts
      <3>2. \A u \in Threads : view[u]["total"] \in Nat
        BY <3>1 DEF TypeOK
      <3>3. \A u \in Threads : view'[u]["total"] = view[u]["total"]
        BY ONLY <1>7, <3>1, t \in Threads, WriteFacts
      <3> QED BY <3>2, <3>3
    <2> QED BY <1>1, <1>3, <2>1, <2>2, TotalFrame
  <1>10. SumInv'
    BY <1>1, <1>4, <1>7, CellFacts, WriteFacts DEF SumInv
  <1> QED BY <1>8, <1>9, <1>10

(* The gauge goes down with a connection. *)
LEMMA DisconnectStep ==
  ASSUME ScalarsInv, NEW t \in Threads, NEW x \in Connections, Disconnect(t, x)
  PROVE  ScalarsInv'
  <1> DEFINE n == Cardinality(Live)
  <1> USE DEF ScalarsInv
  <1>1. /\ conn[x] \in {"connected", "guarded"} /\ conn' = [conn EXCEPT ![x] = "closed"]
        /\ owner' = [owner EXCEPT ![x] = {}]
        /\ gone' = [gone EXCEPT ![t] = @ \cup {x}]
        /\ UNCHANGED <<known, scraped, updates, net, added>>
        /\ FetchAdd(t, "current", Modulus - 1)
    BY WidthFacts DEF Disconnect, Decrements, updateVars
  <1>2. Live' = Live \ {x} /\ x \in Live
    BY <1>1 DEF Live, TypeOK
  <1>3. EverEstablished' = EverEstablished
    BY <1>1 DEF EverEstablished, TypeOK
  <1>4. n \in Nat \ {0} /\ Cardinality(Live') = n - 1 /\ n < Modulus
    <2>1. Live \in SUBSET Connections
      BY DEF Live
    <2>2. IsFiniteSet(Live) /\ n \in Nat /\ n < Modulus
      BY <2>1, CountFacts
    <2>3. Cardinality(Live \ {x}) = n - 1
      BY <1>2, <2>2, FS_RemoveElement
    <2>4. n # 0
      BY <1>2, <2>2, FS_EmptySet
    <2> QED BY <1>2, <2>2, <2>3, <2>4
  <1>5. Newest("current") = n
    BY DEF SumInv
  <1> HIDE DEF n
  <1>6. (Newest("current") + (Modulus - 1)) % Modulus = n - 1
    <2>1. /\ n + (Modulus - 1) \in Int /\ n - 1 \in 0..(Modulus - 1) /\ 1 \in Int
          /\ n + (Modulus - 1) = Modulus * 1 + (n - 1)
      BY <1>4, WidthFacts
    <2> QED BY <1>5, <2>1, WidthFacts, ModUnique
  <1>7. n - 1 \in 0..(Modulus - 1) /\ Write(t, "current", n - 1)
    <2>1. Modulus - 1 \in Nat
      BY WidthFacts
    <2> QED BY <1>1, <1>6, <2>1, CellFacts, FetchAddWrites
  <1>8. TypeOK'
    <2>1. /\ conn' \in [Connections -> ConnStates]
          /\ owner' \in [Connections -> SUBSET Threads]
          /\ gone' \in [Threads -> SUBSET Connections]
      BY <1>1 DEF TypeOK, ConnStates
    <2> QED BY <1>1, <1>7, <2>1, CellFacts, WriteFacts DEF TypeOK
  <1>9. TotalInv' /\ OrderInv'
    <2>1. cell'["total"] = cell["total"]
      BY <1>7, CellFacts, WriteFacts
    <2>2. \A u \in Threads : view'[u]["total"] = view[u]["total"] /\ view[u]["total"] \in Nat
      <3>1. TypeOK /\ "current" \in Cells /\ "total" \in Cells /\ "total" # "current"
        BY CellFacts
      <3>2. \A u \in Threads : view[u]["total"] \in Nat
        BY <3>1 DEF TypeOK
      <3>3. \A u \in Threads : view'[u]["total"] = view[u]["total"]
        BY ONLY <1>7, <3>1, t \in Threads, WriteFacts
      <3> QED BY <3>2, <3>3
    <2> QED BY <1>1, <1>3, <2>1, <2>2, TotalFrame
  <1>10. SumInv'
    BY <1>1, <1>4, <1>7, CellFacts, WriteFacts DEF SumInv
  <1> QED BY <1>8, <1>9, <1>10

(* The total counts the connection, after all those before it. *)
LEMMA EstablishStep ==
  ASSUME ScalarsInv, NEW t \in Threads, NEW x \in Connections, Establish(t, x)
  PROVE  ScalarsInv'
  <1> DEFINE E == EverEstablished
             n == Cardinality(E)
             k == Len(cell["total"])
  <1> USE DEF ScalarsInv
  <1>1. /\ conn[x] \in {"reporting", "guarding"}
        /\ conn' = [conn EXCEPT ![x] = IF @ = "guarding" THEN "guarded" ELSE "connected"]
        /\ known' = [known EXCEPT ![t] = @ \cup {x}]
        /\ UNCHANGED <<owner, gone, scraped, updates, net, added>>
        /\ FetchAdd(t, "total", 1)
    BY DEF Establish, Established, updateVars
  <1>2. E' = E \cup {x} /\ x \notin E /\ E \in SUBSET Connections
    BY <1>1 DEF EverEstablished, TypeOK
  <1>3. Live' = Live
    BY <1>1 DEF Live, TypeOK
  <1>4. n \in Nat /\ Cardinality(E') = n + 1 /\ n + 1 < Modulus
    <2>1. E' \in SUBSET Connections
      BY <1>2
    <2>2. IsFiniteSet(E) /\ n \in Nat /\ Cardinality(E') < Modulus
      BY <1>2, <2>1, CountFacts
    <2>3. Cardinality(E \cup {x}) = n + 1
      BY <1>2, <2>2, FS_AddElement
    <2> QED BY <1>2, <2>2, <2>3
  <1>5. k = n + 1 /\ (\A i \in 1..k : cell["total"][i] = i - 1) /\ Newest("total") = n
    <2>1. k = n + 1 /\ \A i \in 1..k : cell["total"][i] = i - 1
      BY DEF TotalInv
    <2>2. k \in 1..k /\ k - 1 = n
      BY <1>4, <2>1
    <2> QED BY <2>1, <2>2 DEF Newest
  <1>6. PICK f \in [E -> 1..(k - 1)] :
          /\ \A y, z \in E : f[y] = f[z] => y = z
          /\ \A u \in Threads : \A y \in known[u] : y \in E /\ f[y] < view[u]["total"]
    BY DEF OrderInv
  <1>7. n + 1 \in 0..(Modulus - 1) /\ Write(t, "total", n + 1)
    <2>1. (n + 1) % Modulus = n + 1
      BY <1>4, WidthFacts, ModSmall
    <2> QED BY <1>1, <1>5, <2>1, CellFacts, FetchAddWrites
  <1>8. /\ Len(cell'["total"]) = k + 1 /\ cell'["total"][k + 1] = n + 1
        /\ \A i \in 1..k : cell'["total"][i] = cell["total"][i]
        /\ view'[t]["total"] = k + 1
        /\ \A u \in Threads \ {t} : view'[u]["total"] = view[u]["total"]
        /\ \A d \in Cells \ {"total"} : Newest(d)' = Newest(d)
    <2>1. "total" \in Cells /\ TypeOK
      BY CellFacts
    <2> HIDE DEF n
    <2>2. /\ Len(cell'["total"]) = k + 1 /\ cell'["total"][k + 1] = n + 1
          /\ \A i \in 1..k : cell'["total"][i] = cell["total"][i]
          /\ view'[t]["total"] = k + 1
          /\ \A u \in Threads, d \in Cells : u # t \/ d # "total" => view'[u][d] = view[u][d]
          /\ \A d \in Cells \ {"total"} : Newest(d)' = Newest(d)
      BY ONLY <1>7, <2>1, t \in Threads, WriteFacts DEF k
    <2> QED BY <2>1, <2>2
  <1>9. TypeOK'
    <2>1. conn' \in [Connections -> ConnStates] /\ known' \in [Threads -> SUBSET Connections]
      BY <1>1 DEF TypeOK, ConnStates
    <2> QED BY <1>1, <1>7, <2>1, CellFacts, WriteFacts DEF TypeOK
  <1>10. SumInv'
    BY <1>1, <1>3, <1>8 DEF SumInv, Cells
  <1>11. k \in Nat /\ \A i \in 1..(k + 1) : i \in 1..k \/ i = k + 1
    BY <1>4, <1>5
  <1>12. TotalInv'
    <2>1. Len(cell'["total"]) = Cardinality(E') + 1
      BY <1>4, <1>5, <1>8
    <2> HIDE DEF n, k
    <2>2. \A i \in 1..(k + 1) : cell'["total"][i] = i - 1
      BY ONLY <1>4, <1>5, <1>8, <1>11
    <2> QED BY <1>8, <2>1, <2>2 DEF TotalInv
  <1>13. OrderInv'
    <2> HIDE DEF E, k
    <2>1. PICK g : g = [y \in E \cup {x} |-> IF y = x THEN k ELSE f[y]]
      OBVIOUS
    <2>2. k \in Nat \ {0}
      BY <1>4, <1>5
    <2>3. \A y \in E : f[y] \in 1..(k - 1) /\ f[y] # k /\ f[y] \in 1..((k + 1) - 1) /\ f[y] < k + 1
      <3> TAKE y \in E
      <3>1. f[y] \in 1..(k - 1)
        BY <1>6
      <3> QED BY <2>2, <3>1
    <2>4. k \in 1..((k + 1) - 1) /\ k < k + 1
      BY <2>2
    <2>5. g \in [E' -> 1..(Len(cell'["total"]) - 1)]
      BY <1>2, <1>8, <2>1, <2>3, <2>4
    <2>6. \A y, z \in E' : g[y] = g[z] => y = z
      BY <1>2, <1>6, <2>1, <2>3
    <2>7. \A u \in Threads : \A y \in known'[u] : y \in E' /\ g[y] < view'[u]["total"]
      <3> TAKE u \in Threads
      <3>1. CASE u = t
        <4>1. known'[t] = known[t] \cup {x}
          BY <1>1 DEF TypeOK
        <4>2. \A y \in known[t] : y \in E
          BY <1>6
        <4> QED BY <1>2, <1>8, <2>1, <2>3, <2>4, <3>1, <4>1, <4>2
      <3>2. CASE u # t
        <4>1. known'[u] = known[u] /\ view'[u]["total"] = view[u]["total"]
          BY <1>1, <1>8, <3>2 DEF TypeOK
        <4>2. \A y \in known[u] : y \in E /\ y # x /\ f[y] < view[u]["total"]
          BY <1>2, <1>6
        <4> QED BY <1>2, <2>1, <4>1, <4>2
      <3> QED BY <3>1, <3>2
    <2> QED BY <2>5, <2>6, <2>7 DEF OrderInv, E
  <1> QED BY <1>9, <1>10, <1>12, <1>13

(* A fetch_add or a store outside the connection metric. *)
LEMMA UpdateStep ==
  ASSUME ScalarsInv, NEW t \in Threads, NEW c \in {"gauge", "counter"},
         NEW n \in 0..(Modulus - 1), Write(t, c, n),
         UNCHANGED <<connVars, scraped>>,
         updates' \in 0..MaxUpdates, net' \in Int, added' \in Nat,
         Newest("gauge")' = net' % Modulus, Newest("counter")' = added' % Modulus
  PROVE  ScalarsInv'
  <1> USE DEF ScalarsInv
  <1>1. UNCHANGED <<conn, owner, known, gone, scraped>>
    BY DEF connVars
  <1>2. Live' = Live /\ EverEstablished' = EverEstablished
    BY <1>1 DEF Live, EverEstablished
  <1>3. c \in Cells /\ "total" \in Cells \ {c} /\ "current" \in Cells \ {c}
    BY DEF Cells
  <1>4. TypeOK'
    BY <1>1, <1>3, WriteFacts DEF TypeOK
  <1>5. TotalInv' /\ OrderInv'
    <2>1. cell'["total"] = cell["total"]
      BY <1>3, WriteFacts
    <2>2. \A u \in Threads : view'[u]["total"] = view[u]["total"] /\ view[u]["total"] \in Nat
      <3>1. TypeOK /\ "total" # c
        BY <1>3
      <3>2. \A u \in Threads : view[u]["total"] \in Nat
        BY <1>3, <3>1 DEF TypeOK
      <3>3. \A u \in Threads : view'[u]["total"] = view[u]["total"]
        BY ONLY <1>3, <3>1, t \in Threads, n \in 0..(Modulus - 1), Write(t, c, n), WriteFacts
      <3> QED BY <3>2, <3>3
    <2> QED BY <1>1, <1>2, <2>1, <2>2, TotalFrame
  <1>6. SumInv'
    BY <1>2, <1>3, WriteFacts DEF SumInv
  <1> QED BY <1>4, <1>5, <1>6

(* add of a counter. *)
LEMMA CounterAddStep ==
  ASSUME ScalarsInv, NEW t \in Threads, NEW n \in Amounts, CounterAdd(t, n)
  PROVE  ScalarsInv'
  <1> USE DEF ScalarsInv
  <1> DEFINE w == (Newest("counter") + n) % Modulus
  <1>1. /\ FetchAdd(t, "counter", n) /\ UNCHANGED <<connVars, scraped, net>>
        /\ updates < MaxUpdates /\ updates' = updates + 1 /\ added' = added + n /\ n \in Nat
    BY ScalarsAssumption DEF CounterAdd
  <1>2. w \in 0..(Modulus - 1) /\ Write(t, "counter", w)
    BY <1>1, CellFacts, FetchAddWrites
  <1>3. /\ updates' \in 0..MaxUpdates /\ net' \in Int /\ added \in Nat /\ added' \in Nat
    BY <1>1, ScalarsAssumption DEF TypeOK
  <1>4. w = added' % Modulus
    <2>1. Newest("counter") = added % Modulus
      BY DEF SumInv
    <2>2. ((added % Modulus) + n) % Modulus = (added + n) % Modulus
      <3>1. added \in Int /\ n \in Int /\ Modulus \in Nat \ {0}
        BY <1>1, <1>3, WidthFacts
      <3> QED BY ONLY <3>1, ModAdd
    <2> QED BY <1>1, <2>1, <2>2
  <1> HIDE DEF w
  <1>5. Newest("counter")' = w /\ Newest("gauge")' = Newest("gauge")
    BY <1>2, WriteFacts DEF Cells
  <1>6. Newest("gauge")' = net' % Modulus /\ Newest("counter")' = added' % Modulus
    BY <1>1, <1>4, <1>5 DEF SumInv
  <1> QED BY <1>1, <1>2, <1>3, <1>6, UpdateStep

(* add and set of a gauge. *)
LEMMA GaugeStep ==
  ASSUME ScalarsInv, NEW t \in Threads, NEW v \in Deltas, GaugeAdd(t, v) \/ GaugeSet(t, v)
  PROVE  ScalarsInv'
  <1> USE DEF ScalarsInv
  <1>1. /\ UNCHANGED <<connVars, scraped, added>> /\ v \in Int /\ net \in Int /\ added' \in Nat
        /\ updates' \in 0..MaxUpdates /\ net' \in Int
    BY ScalarsAssumption DEF GaugeAdd, GaugeSet, TypeOK
  <1>2. PICK w \in 0..(Modulus - 1) : Write(t, "gauge", w) /\ w = net' % Modulus
    <2>1. CASE GaugeAdd(t, v)
      <3>1. /\ AsU64(v) \in Nat /\ net' = net + v
            /\ FetchAdd(t, "gauge", AsU64(v))
        BY <1>1, <2>1, CastType DEF GaugeAdd
      <3>2. /\ (Newest("gauge") + AsU64(v)) % Modulus \in 0..(Modulus - 1)
            /\ Write(t, "gauge", (Newest("gauge") + AsU64(v)) % Modulus)
        BY <3>1, CellFacts, FetchAddWrites
      <3>3. Newest("gauge") = net % Modulus
        BY DEF SumInv
      <3>4. (Newest("gauge") + AsU64(v)) % Modulus = net' % Modulus
        <4>1. ((net % Modulus) + (v % Modulus)) % Modulus = (net + v) % Modulus
          BY <1>1, WidthFacts, ModSum
        <4> QED BY <3>1, <3>3, <4>1 DEF AsU64
      <3> QED BY <3>2, <3>4
    <2>2. CASE GaugeSet(t, v)
      <3>1. AsU64(v) \in 0..(Modulus - 1)
        BY <1>1, CastType
      <3>2. Write(t, "gauge", AsU64(v)) /\ AsU64(v) = net' % Modulus
        BY <2>2 DEF GaugeSet, AsU64
      <3> QED BY <3>1, <3>2
    <2> QED BY <2>1, <2>2
  <1>3. Newest("gauge")' = w /\ Newest("counter")' = Newest("counter")
    BY <1>2, WriteFacts DEF Cells
  <1>4. Newest("gauge")' = net' % Modulus /\ Newest("counter")' = added' % Modulus
    BY <1>1, <1>2, <1>3 DEF SumInv
  <1> QED BY <1>1, <1>2, <1>4, UpdateStep

(* A load moves one view forward. *)
LEMMA GetStep ==
  ASSUME ScalarsInv, NEW t \in Threads, NEW c \in Cells, Get(t, c)
  PROVE  ScalarsInv'
  <1> USE DEF ScalarsInv
  <1>1. PICK i \in view[t][c]..Len(cell[c]) :
          /\ view' = [view EXCEPT ![t][c] = i]
          /\ scraped' = IF c = "total"
                        THEN [scraped EXCEPT ![t] = [total |-> cell[c][i], known |-> known[t]]]
                        ELSE scraped
    BY DEF Get
  <1>2. UNCHANGED <<cell, conn, owner, known, gone, updates, net, added>>
    BY DEF Get, connVars, updateVars
  <1>3. /\ view \in [Threads -> [Cells -> Nat]] /\ view[t][c] \in Nat /\ i \in Nat
        /\ view[t][c] <= i /\ i \in 1..Len(cell[c])
    <2>1. /\ view \in [Threads -> [Cells -> Nat]] /\ view[t][c] \in 1..Len(cell[c])
          /\ Len(cell[c]) \in Nat
      BY NewestFacts DEF TypeOK
    <2> QED BY <2>1
  <1>4. /\ view' \in [Threads -> [Cells -> Nat]]
        /\ \A u \in Threads, d \in Cells :
             view'[u][d] = IF u = t /\ d = c THEN i ELSE view[u][d]
    BY <1>1, <1>3
  <1>5. \A u \in Threads, d \in Cells :
          /\ view'[u][d] \in 1..Len(cell[d])
          /\ view[u][d] \in Nat /\ view'[u][d] \in Nat /\ view[u][d] <= view'[u][d]
    <2> TAKE u \in Threads, d \in Cells
    <2>1. view[u][d] \in 1..Len(cell[d]) /\ view[u][d] \in Nat
      BY DEF TypeOK
    <2>2. CASE u = t /\ d = c
      BY <1>3, <1>4, <2>1, <2>2
    <2>3. CASE ~(u = t /\ d = c)
      <3>1. view'[u][d] = view[u][d]
        BY <1>4, <2>3
      <3> QED BY <2>1, <3>1
    <2> QED BY <2>2, <2>3
  <1>6. TypeOK'
    <2>1. cell[c] \in Seq(0..(Modulus - 1)) /\ cell[c][i] \in 0..(Modulus - 1)
      BY <1>3, NewestFacts, ElementOfSeq
    <2>2. scraped' \in [Threads -> [total : 0..(Modulus - 1), known : SUBSET Connections]]
      BY <1>1, <2>1 DEF TypeOK
    <2> QED BY <1>2, <1>4, <1>5, <2>2 DEF TypeOK
  <1>7. Live' = Live /\ EverEstablished' = EverEstablished
    BY <1>2 DEF Live, EverEstablished
  <1>8. TotalInv' /\ OrderInv'
    BY <1>2, <1>5, <1>7, CellFacts, TotalFrame
  <1>9. SumInv'
    BY <1>2, <1>7 DEF SumInv, Newest
  <1> QED BY <1>6, <1>8, <1>9

(* Synchronisation takes the newer of two views, and what both know. *)
LEMMA SynchronizeStep ==
  ASSUME ScalarsInv, NEW a \in Threads, NEW b \in Threads, NEW S \in SUBSET Connections,
         Synchronize(a, b, S)
  PROVE  ScalarsInv'
  <1> USE DEF ScalarsInv
  <1>1. /\ UNCHANGED <<cell, conn, scraped, updates, net, added>>
        /\ gone' = [gone EXCEPT ![b] = @ \cup gone[a]]
        /\ known' = [known EXCEPT ![b] = @ \cup known[a]]
        /\ owner' = [x \in Connections |-> IF x \in S THEN {b} ELSE owner[x]]
    BY DEF Synchronize, updateVars
  <1>2. /\ view' \in [Threads -> [Cells -> Nat]]
        /\ \A u \in Threads \ {b} : view'[u] = view[u]
        /\ \A c \in Cells :
             view'[b][c] = IF view[a][c] > view[b][c] THEN view[a][c] ELSE view[b][c]
    BY DEF Synchronize, TypeOK
  <1>3. \A u \in Threads, c \in Cells : view[u][c] \in Nat /\ view[u][c] \in 1..Len(cell[c])
    BY DEF TypeOK
  <1>4. \A u \in Threads, c \in Cells :
          /\ view'[u][c] \in 1..Len(cell[c])
          /\ view[u][c] <= view'[u][c]
          /\ u = b => view[a][c] <= view'[u][c]
    BY <1>2, <1>3
  <1>5. TypeOK'
    BY <1>1, <1>2, <1>4 DEF TypeOK
  <1>6. Live' = Live /\ EverEstablished' = EverEstablished
    BY <1>1 DEF Live, EverEstablished
  <1>7. SumInv' /\ TotalInv'
    BY <1>1, <1>6 DEF SumInv, Newest, TotalInv
  <1>8. OrderInv'
    <2>1. PICK f \in [EverEstablished -> 1..(Len(cell["total"]) - 1)] :
            /\ \A x, y \in EverEstablished : f[x] = f[y] => x = y
            /\ \A t \in Threads : \A x \in known[t] :
                 x \in EverEstablished /\ f[x] < view[t]["total"]
      BY DEF OrderInv
    <2>2. \A t \in Threads : \A x \in known'[t] : x \in EverEstablished /\ f[x] < view'[t]["total"]
      <3> TAKE t \in Threads
      <3> TAKE x \in known'[t]
      <3>1. PICK u \in {t, a} :
              x \in known[u] /\ view[u]["total"] <= view'[t]["total"] /\ u \in Threads
        BY <1>1, <1>4, CellFacts DEF TypeOK
      <3>2. x \in EverEstablished /\ f[x] < view[u]["total"]
        BY <2>1, <3>1
      <3>3. f[x] \in Nat
        <4>1. Len(cell["total"]) \in Nat
          BY CellFacts, NewestFacts
        <4>2. f[x] \in 1..(Len(cell["total"]) - 1)
          BY <2>1, <3>2
        <4> QED BY <4>1, <4>2
      <3>4. view[u]["total"] \in Nat /\ view'[t]["total"] \in Nat
        BY <1>2, <1>3, <3>1, CellFacts
      <3> QED BY <3>1, <3>2, <3>3, <3>4
    <2> QED BY <1>1, <1>6, <2>1, <2>2 DEF OrderInv
  <1> QED BY <1>5, <1>7, <1>8

----------------------------------------------------------------------------
(***************************************************************************)
(* The theorems.                                                           *)
(***************************************************************************)

(* Nothing is connected and every atomic is 0 when the process starts. *)
LEMMA ScalarsInit ==
  ASSUME Init
  PROVE  ScalarsInv
  <1>1. Live = {} /\ EverEstablished = {}
    BY DEF Init, Live, EverEstablished
  <1>2. Cardinality({}) = 0
    BY FS_EmptySet
  <1>3. \A c \in Cells : cell[c] = <<0>> /\ Len(cell[c]) = 1 /\ cell[c][1] = 0
    BY DEF Init
  <1>4. \A c \in Cells : Newest(c) = 0
    BY <1>3 DEF Newest
  <1>5. 0 % Modulus = 0
    BY CellFacts, WidthFacts, ModSmall
  <1>6. <<0>> \in Seq(0..(Modulus - 1))
    BY CellFacts
  <1>7. TypeOK
    <2>1. cell \in [Cells -> Seq(0..(Modulus - 1))] /\ view \in [Threads -> [Cells -> Nat]]
      BY <1>6 DEF Init
    <2>2. \A t \in Threads, c \in Cells : view[t][c] \in 1..Len(cell[c])
      BY <1>3 DEF Init
    <2>3. /\ conn \in [Connections -> ConnStates] /\ owner \in [Connections -> SUBSET Threads]
          /\ known \in [Threads -> SUBSET Connections] /\ net \in Int /\ added \in Nat
          /\ gone \in [Threads -> SUBSET Connections]
          /\ updates \in 0..MaxUpdates
      BY ScalarsAssumption DEF Init, ConnStates
    <2>4. scraped \in [Threads -> [total : 0..(Modulus - 1), known : SUBSET Connections]]
      BY CellFacts DEF Init
    <2> QED BY <2>1, <2>2, <2>3, <2>4 DEF TypeOK
  <1>8. TotalInv
    <2>1. Len(cell["total"]) = 1 /\ cell["total"][1] = 0
      BY <1>3, CellFacts
    <2>2. \A i \in 1..1 : i = 1
      OBVIOUS
    <2> QED BY <1>1, <1>2, <2>1, <2>2 DEF TotalInv
  <1>9. OrderInv
    <2>1. PICK f : f = [x \in EverEstablished |-> 1]
      OBVIOUS
    <2>2. f \in [EverEstablished -> 1..(Len(cell["total"]) - 1)]
      BY <1>1, <2>1
    <2>3. \A x, y \in EverEstablished : f[x] = f[y] => x = y
      BY <1>1
    <2>4. \A t \in Threads : known[t] = {}
      BY DEF Init
    <2> QED BY <2>2, <2>3, <2>4 DEF OrderInv
  <1>10. SumInv
    BY <1>1, <1>2, <1>4, <1>5, CellFacts DEF SumInv, Init
  <1> QED BY <1>7, <1>8, <1>9, <1>10 DEF ScalarsInv

(* Every step preserves the invariant. *)
LEMMA ScalarsNext ==
  ASSUME ScalarsInv, [Next]_vars
  PROVE  ScalarsInv'
  <1>1. ASSUME NEW t \in Threads, NEW x \in Connections,
               Connect(t, x, "reporting") \/ Connect(t, x, "guarding")
        PROVE  ScalarsInv'
    BY <1>1, ConnectStep
  <1>2. ASSUME NEW t \in Threads, NEW x \in Connections, Establish(t, x)
        PROVE  ScalarsInv'
    BY <1>2, EstablishStep
  <1>3. ASSUME NEW t \in Threads, NEW x \in Connections, Disconnect(t, x)
        PROVE  ScalarsInv'
    BY <1>3, DisconnectStep
  <1>4. ASSUME NEW t \in Threads, NEW n \in Amounts, CounterAdd(t, n)
        PROVE  ScalarsInv'
    BY <1>4, CounterAddStep
  <1>5. ASSUME NEW t \in Threads, NEW v \in Deltas, GaugeAdd(t, v) \/ GaugeSet(t, v)
        PROVE  ScalarsInv'
    BY <1>5, GaugeStep
  <1>6. ASSUME NEW t \in Threads, NEW c \in Cells, Get(t, c)
        PROVE  ScalarsInv'
    BY <1>6, GetStep
  <1>7. ASSUME NEW a \in Threads, NEW b \in Threads, NEW S \in SUBSET Connections,
               Synchronize(a, b, S)
        PROVE  ScalarsInv'
    BY <1>7, SynchronizeStep
  <1>8. ASSUME UNCHANGED vars
        PROVE  ScalarsInv'
    BY <1>8 DEF vars, connVars, updateVars, ScalarsInv, TypeOK, TotalInv, OrderInv, SumInv,
                Newest, Live, EverEstablished
  <1> QED BY <1>1, <1>2, <1>3, <1>4, <1>5, <1>6, <1>7, <1>8 DEF Next

(* The invariant holds in every reachable state. *)
THEOREM ScalarsInvariance == Spec => []ScalarsInv
  <1>1. Init => ScalarsInv
    BY ScalarsInit
  <1>2. ScalarsInv /\ [Next]_vars => ScalarsInv'
    BY ScalarsNext
  <1> QED BY <1>1, <1>2, PTL DEF Spec

(* A count of connections reads back as itself through the i64 cast. *)
LEMMA CurrentReadsBack ==
  ASSUME ScalarsInv
  PROVE  AsI64(Newest("current")) = Cardinality(Live)
  <1>1. Live \in SUBSET Connections
    BY DEF Live
  <1>2. Cardinality(Live) < Modulus \div 2
    BY <1>1, CountFacts
  <1> QED BY <1>2 DEF ScalarsInv, SumInv, AsI64

(* `current` is the number of live connections, whatever drops the guards   *)
(* and in whatever order (scalar.rs:334).                                   *)
THEOREM GuardsBalanced == Spec => []GuardsBalance
  <1>1. ScalarsInv => GuardsBalance
    BY CurrentReadsBack DEF GuardsBalance
  <1> QED BY <1>1, ScalarsInvariance, PTL

(* `total` is the number of establishments and is behind `current` by no    *)
(* more than the calls that are between their two updates (scalar.rs:311).  *)
THEOREM SkewIsBounded == Spec => []SkewBounded
  <1>1. ASSUME ScalarsInv PROVE SkewBounded
    <2> DEFINE E == EverEstablished
               C == Connecting
    <2>1. /\ E \in SUBSET Connections /\ C \in SUBSET Connections /\ Live \in SUBSET Connections
          /\ Live \subseteq E \cup C
      BY DEF EverEstablished, Connecting, Live
    <2>2. /\ Cardinality(E) \in Nat /\ Cardinality(E) < Modulus /\ IsFiniteSet(E)
          /\ Cardinality(C) \in Nat /\ IsFiniteSet(C) /\ Cardinality(Live) \in Nat
      BY <2>1, CountFacts
    <2>3. Newest("total") = Cardinality(E)
      <3>1. /\ Len(cell["total"]) = Cardinality(E) + 1
            /\ \A i \in 1..Len(cell["total"]) : cell["total"][i] = i - 1
        BY <1>1 DEF ScalarsInv, TotalInv
      <3>2. Len(cell["total"]) \in 1..Len(cell["total"])
        BY <2>2, <3>1
      <3> QED BY <2>2, <3>1, <3>2 DEF Newest
    <2>4. Cardinality(E) % Modulus = Cardinality(E)
      <3>1. Cardinality(E) \in 0..(Modulus - 1) /\ Modulus \in Nat \ {0}
        BY <2>2, WidthFacts
      <3> QED BY ONLY <3>1, ModSmall
    <2>5. Cardinality(Live) <= Cardinality(E) + Cardinality(C)
      <3>1. /\ IsFiniteSet(E \cup C)
            /\ Cardinality(E \cup C) = Cardinality(E) + Cardinality(C) - Cardinality(E \cap C)
        BY <2>2, FS_Union
      <3>2. Cardinality(Live) <= Cardinality(E \cup C)
        BY <2>1, <3>1, FS_Subset
      <3>3. Cardinality(E \cap C) \in Nat
        <4>1. E \cap C \in SUBSET Connections
          BY <2>1
        <4> QED BY <4>1, CountFacts
      <3> QED BY <2>2, <3>1, <3>2, <3>3
    <2>6. AsI64(Newest("current")) = Cardinality(Live)
      BY <1>1, CurrentReadsBack
    <2> QED BY <2>3, <2>4, <2>5, <2>6 DEF SkewBounded
  <1> QED BY <1>1, ScalarsInvariance, PTL

(* A thread has seen a value of `total` for each connection it knows. *)
LEMMA KnownPlaces ==
  ASSUME ScalarsInv, NEW t \in Threads
  PROVE  /\ view[t]["total"] \in 1..Len(cell["total"]) /\ Len(cell["total"]) \in Nat
         /\ \A i \in 1..Len(cell["total"]) : cell["total"][i] = i - 1
         /\ Cardinality(known[t]) \in Nat /\ Cardinality(known[t]) <= view[t]["total"] - 1
  <1> DEFINE v == view[t]["total"]
             K == known[t]
  <1>1. v \in 1..Len(cell["total"]) /\ Len(cell["total"]) \in Nat /\ K \in SUBSET Connections
    BY CellFacts, NewestFacts DEF ScalarsInv, TypeOK
  <1>2. v \in Nat \ {0} /\ \A i \in 1..Len(cell["total"]) : cell["total"][i] = i - 1
    BY <1>1 DEF ScalarsInv, TotalInv
  <1>3. PICK f \in [EverEstablished -> 1..(Len(cell["total"]) - 1)] :
          /\ \A x, y \in EverEstablished : f[x] = f[y] => x = y
          /\ \A u \in Threads : \A x \in known[u] :
               x \in EverEstablished /\ f[x] < view[u]["total"]
    BY DEF ScalarsInv, OrderInv
  <1>4. \A x \in K : x \in EverEstablished /\ f[x] < v /\ f[x] \in 1..(Len(cell["total"]) - 1)
    BY <1>3
  <1> HIDE DEF v, K
  <1>5. \A x \in K : f[x] \in 1..(v - 1)
    BY <1>1, <1>2, <1>4
  <1>6. PICK g : g = [x \in K |-> f[x]]
    OBVIOUS
  <1>7. g \in [K -> 1..(v - 1)]
    BY <1>5, <1>6
  <1>8. g \in Injection(K, 1..(v - 1))
    BY <1>3, <1>4, <1>6, <1>7 DEF Injection, IsInjective
  <1>9. IsFiniteSet(1..(v - 1)) /\ Cardinality(1..(v - 1)) = v - 1
    BY <1>2, FS_Interval
  <1>10. Cardinality(K) <= Cardinality(1..(v - 1))
    BY <1>8, <1>9, FS_Injection
  <1>11. Cardinality(K) \in Nat
    BY <1>1, CountFacts
  <1> QED BY <1>1, <1>2, <1>9, <1>10, <1>11 DEF v, K

(* However stale its load, a thread never reads a `total` below the number  *)
(* of connections it knows to be established.                               *)
THEOREM KnownCounted == Spec => []KnownConnectionsCounted
  <1>1. ASSUME ScalarsInv, NEW t \in Threads
        PROVE  cell["total"][view[t]["total"]] >= Cardinality(known[t])
    BY <1>1, KnownPlaces
  <1>2. ScalarsInv => KnownConnectionsCounted
    BY <1>1 DEF KnownConnectionsCounted
  <1> QED BY <1>2, ScalarsInvariance, PTL

(* A gauge is the last value set plus the deltas since, wrapped into i64,   *)
(* and a counter the sum of its amounts: no update is lost.                 *)
THEOREM NoUpdateLost == Spec => []UpdatesNotLost
  <1>1. ASSUME ScalarsInv PROVE UpdatesNotLost
    <2>1. net \in Int /\ Newest("gauge") = net % Modulus /\ Newest("counter") = added % Modulus
      BY <1>1 DEF ScalarsInv, TypeOK, SumInv
    <2>2. AsI64(net % Modulus) = ((net + (Modulus \div 2)) % Modulus) - (Modulus \div 2)
      BY <2>1, SignedWrap
    <2> QED BY <2>1, <2>2 DEF UpdatesNotLost
  <1> QED BY <1>1, ScalarsInvariance, PTL

----------------------------------------------------------------------------
(***************************************************************************)
(* What stale loads of `current` show.                                     *)
(***************************************************************************)

(* The live connections a thread knows, or is making. *)
Held(t) == {x \in Live : x \in known[t] \/ t \in owner[x]}

(* Each value of `current` counts a set of connections, and the values a    *)
(* thread can load count those it holds and none it knows to be closed.     *)
CurrentInv ==
  \E L \in [1..Len(cell["current"]) -> SUBSET Begun] :
    /\ \A i \in 1..Len(cell["current"]) : cell["current"][i] = Cardinality(L[i])
    /\ \A t \in Threads : \A i \in view[t]["current"]..Len(cell["current"]) :
         Held(t) \subseteq L[i] /\ L[i] \cap gone[t] = {}

GoneInv == \A t \in Threads : \A x \in gone[t] : conn[x] = "closed"

(* A load of `total` shows what its thread knew. *)
ScrapedInv == \A t \in Threads : Cardinality(scraped[t].known) <= scraped[t].total

ShownInv == CurrentInv /\ GoneInv /\ ScrapedInv

(* The places of `current`. *)
LEMMA PlaceFacts ==
  ASSUME TypeOK
  PROVE  \A t \in Threads : /\ Len(cell["current"]) \in Nat \ {0} /\ view[t]["current"] \in Nat
                            /\ view[t]["current"] \in 1..Len(cell["current"])
  <1> SUFFICES ASSUME NEW t \in Threads
               PROVE  /\ Len(cell["current"]) \in Nat \ {0} /\ view[t]["current"] \in Nat
                      /\ view[t]["current"] \in 1..Len(cell["current"])
    OBVIOUS
  <1>1. "current" \in Cells /\ Len(cell["current"]) \in Nat \ {0}
    BY CellFacts, NewestFacts
  <1>2. view[t]["current"] \in 1..Len(cell["current"])
    BY <1>1 DEF TypeOK
  <1> QED BY <1>1, <1>2

(* A step that does not touch `current`: whoever holds a connection, or     *)
(* knows it to be closed, has it from a thread whose view is not newer.     *)
LEMMA CurrentFrame ==
  ASSUME TypeOK, TypeOK', CurrentInv, cell'["current"] = cell["current"], Begun \subseteq Begun',
         \A t \in Threads : \A x \in Held(t)' :
           \E u \in Threads : x \in Held(u) /\ view[u]["current"] <= view'[t]["current"],
         \A t \in Threads : \A x \in gone'[t] :
           \E u \in Threads : x \in gone[u] /\ view[u]["current"] <= view'[t]["current"]
  PROVE  CurrentInv'
  <1> DEFINE k == Len(cell["current"])
  <1>1. PICK L \in [1..k -> SUBSET Begun] :
          /\ \A i \in 1..k : cell["current"][i] = Cardinality(L[i])
          /\ \A t \in Threads : \A i \in view[t]["current"]..k :
               Held(t) \subseteq L[i] /\ L[i] \cap gone[t] = {}
    BY DEF CurrentInv
  <1>2. \A t \in Threads : k \in Nat /\ view[t]["current"] \in Nat /\ view'[t]["current"] \in Nat
    <2>1. \A t \in Threads : k \in Nat /\ view[t]["current"] \in Nat
      BY PlaceFacts
    <2>2. \A t \in Threads : view'[t]["current"] \in Nat
      BY CellFacts DEF TypeOK
    <2> QED BY <2>1, <2>2
  <1> HIDE DEF k
  <1>3. ASSUME NEW t \in Threads, NEW i \in view'[t]["current"]..k, NEW u \in Threads,
               view[u]["current"] <= view'[t]["current"]
        PROVE  i \in view[u]["current"]..k
    BY <1>2, <1>3
  <1>4. ASSUME NEW t \in Threads, NEW i \in view'[t]["current"]..k
        PROVE  Held(t)' \subseteq L[i] /\ L[i] \cap gone'[t] = {}
    <2>1. ASSUME NEW x \in Held(t)' PROVE x \in L[i]
      <3>1. PICK u \in Threads : x \in Held(u) /\ view[u]["current"] <= view'[t]["current"]
        OBVIOUS
      <3>2. i \in view[u]["current"]..k
        BY <1>3, <3>1
      <3> QED BY <1>1, <3>1, <3>2
    <2>2. ASSUME NEW x \in gone'[t] PROVE x \notin L[i]
      <3>1. PICK u \in Threads : x \in gone[u] /\ view[u]["current"] <= view'[t]["current"]
        OBVIOUS
      <3>2. i \in view[u]["current"]..k
        BY <1>3, <3>1
      <3> QED BY <1>1, <3>1, <3>2
    <2> QED BY <2>1, <2>2
  <1>5. L \in [1..k -> SUBSET Begun']
    BY <1>1
  <1>6. Len(cell'["current"]) = k
    BY DEF k
  <1> QED BY <1>1, <1>4, <1>5, <1>6 DEF CurrentInv

(* A write to `current` that counts the live connections. *)
LEMMA CurrentWrite ==
  ASSUME TypeOK, CurrentInv, NEW t \in Threads, NEW n \in 0..(Modulus - 1),
         Write(t, "current", n), n = Cardinality(Live'), Begun \subseteq Begun',
         Live' \subseteq Begun',
         \A u \in Threads \ {t} : Held(u)' \subseteq Held(u) /\ gone'[u] = gone[u],
         \A u \in Threads : gone'[u] \cap Live' = {} /\ Held(u)' \subseteq Live'
  PROVE  CurrentInv'
  <1> DEFINE k == Len(cell["current"])
  <1>1. PICK L \in [1..k -> SUBSET Begun] :
          /\ \A i \in 1..k : cell["current"][i] = Cardinality(L[i])
          /\ \A u \in Threads : \A i \in view[u]["current"]..k :
               Held(u) \subseteq L[i] /\ L[i] \cap gone[u] = {}
    BY DEF CurrentInv
  <1>2. /\ k \in Nat \ {0} /\ Len(cell'["current"]) = k + 1
        /\ cell'["current"][k + 1] = n /\ \A i \in 1..k : cell'["current"][i] = cell["current"][i]
        /\ view'[t]["current"] = k + 1
        /\ \A u \in Threads \ {t} : view'[u]["current"] = view[u]["current"]
    <2>1. "current" \in Cells /\ TypeOK
      BY CellFacts
    <2>2. k \in Nat \ {0}
      BY PlaceFacts
    <2> QED BY ONLY <2>1, <2>2, t \in Threads, n \in 0..(Modulus - 1), Write(t, "current", n),
                    WriteFacts
  <1> HIDE DEF k
  <1>3. PICK G : G = [i \in 1..(k + 1) |-> IF i = k + 1 THEN Live' ELSE L[i]]
    OBVIOUS
  <1>4. \A i \in 1..(k + 1) : i = k + 1 \/ (i # k + 1 /\ i \in 1..k)
    BY <1>2
  <1>5. /\ k + 1 \in 1..(k + 1) /\ G[k + 1] = Live'
        /\ \A i \in 1..k : i \in 1..(k + 1) /\ i # k + 1 /\ G[i] = L[i]
    BY <1>2, <1>3
  <1>6. G \in [1..(k + 1) -> SUBSET Begun']
    BY <1>1, <1>3, <1>4, <1>5
  <1>7. \A i \in 1..(k + 1) : cell'["current"][i] = Cardinality(G[i])
    BY <1>1, <1>2, <1>4, <1>5
  <1>8. ASSUME NEW u \in Threads, NEW i \in view'[u]["current"]..(k + 1)
        PROVE  Held(u)' \subseteq G[i] /\ G[i] \cap gone'[u] = {}
    <2>1. CASE i = k + 1
      BY <1>5, <2>1
    <2>2. CASE i # k + 1
      <3>1. u # t
        BY <1>2, <2>2
      <3>2. view[u]["current"] \in 1..k
        BY <3>1, PlaceFacts DEF k
      <3>3. i \in view[u]["current"]..k /\ i \in 1..k
        BY <1>2, <2>2, <3>1, <3>2
      <3> QED BY <1>1, <1>5, <3>1, <3>3
    <2> QED BY <2>1, <2>2
  <1> QED BY <1>2, <1>6, <1>7, <1>8 DEF CurrentInv

(* A step that leaves the connections and `current` alone. *)
LEMMA ShownFrame ==
  ASSUME TypeOK, TypeOK', ShownInv, UNCHANGED <<conn, owner, known, gone, scraped>>,
         cell'["current"] = cell["current"],
         \A u \in Threads : view[u]["current"] <= view'[u]["current"]
  PROVE  ShownInv'
  <1>1. Begun' = Begun /\ \A u \in Threads : Held(u)' = Held(u)
    BY DEF Begun, Held, Live
  <1>2. CurrentInv'
    BY <1>1, CurrentFrame DEF ShownInv
  <1>3. GoneInv' /\ ScrapedInv'
    BY DEF ShownInv, GoneInv, ScrapedInv
  <1> QED BY <1>2, <1>3 DEF ShownInv

(* A new connection is counted. *)
LEMMA ConnectShown ==
  ASSUME ScalarsInv, ScalarsInv', ShownInv, NEW t \in Threads, NEW x \in Connections,
         NEW state \in {"reporting", "guarding"}, Connect(t, x, state)
  PROVE  ShownInv'
  <1>1. /\ conn[x] = "none" /\ conn' = [conn EXCEPT ![x] = state]
        /\ owner' = [owner EXCEPT ![x] = {t}]
        /\ UNCHANGED <<known, gone, scraped>> /\ FetchAdd(t, "current", 1)
    BY WidthFacts DEF Connect
  <1>2. TypeOK /\ GoneInv /\ CurrentInv /\ ScrapedInv
    BY DEF ScalarsInv, ShownInv
  <1>3. /\ Live' = Live \cup {x} /\ Begun' = Begun \cup {x} /\ x \notin Begun
    BY <1>1, <1>2 DEF Live, Begun, TypeOK
  <1>4. \A u \in Threads : x \notin known[u] /\ x \notin gone[u]
    <2>1. \A u \in Threads : \A y \in known[u] : y \in EverEstablished
      BY DEF ScalarsInv, OrderInv
    <2> QED BY <1>1, <1>2, <2>1 DEF EverEstablished, GoneInv
  <1>5. GoneInv'
    BY <1>1, <1>2, <1>4 DEF GoneInv, TypeOK
  <1>6. \A u \in Threads \ {t} : Held(u)' \subseteq Held(u) /\ gone'[u] = gone[u]
    BY <1>1, <1>2, <1>3, <1>4 DEF Held, TypeOK
  <1>7. \A u \in Threads : gone'[u] \cap Live' = {} /\ Held(u)' \subseteq Live'
    BY <1>5 DEF GoneInv, Live, Held
  <1>8. PICK n \in 0..(Modulus - 1) : Write(t, "current", n)
    BY <1>1, <1>2, CellFacts, FetchAddWrites
  <1>9. n = Cardinality(Live')
    <2>1. Newest("current")' = n
      BY <1>2, <1>8, CellFacts, WriteFacts
    <2>2. Newest("current")' = Cardinality(Live')
      BY DEF ScalarsInv, SumInv
    <2> QED BY <2>1, <2>2
  <1>10. Live' \subseteq Begun' /\ Begun \subseteq Begun'
    BY <1>3 DEF Live, Begun
  <1>11. CurrentInv'
    BY <1>2, <1>6, <1>7, <1>8, <1>9, <1>10, CurrentWrite
  <1> QED BY <1>1, <1>2, <1>5, <1>11 DEF ShownInv, ScrapedInv

(* A closed connection is no longer counted, and its thread knows. *)
LEMMA DisconnectShown ==
  ASSUME ScalarsInv, ScalarsInv', ShownInv, NEW t \in Threads, NEW x \in Connections,
         Disconnect(t, x)
  PROVE  ShownInv'
  <1>1. /\ conn[x] \in {"connected", "guarded"} /\ conn' = [conn EXCEPT ![x] = "closed"]
        /\ owner' = [owner EXCEPT ![x] = {}]
        /\ gone' = [gone EXCEPT ![t] = @ \cup {x}]
        /\ UNCHANGED <<known, scraped>> /\ FetchAdd(t, "current", Modulus - 1)
    BY WidthFacts DEF Disconnect, Decrements
  <1>2. TypeOK /\ GoneInv /\ CurrentInv /\ ScrapedInv
    BY DEF ScalarsInv, ShownInv
  <1>3. Live' = Live \ {x} /\ Begun' = Begun
    BY <1>1, <1>2 DEF Live, Begun, TypeOK
  <1>4. GoneInv'
    BY <1>1, <1>2 DEF GoneInv, TypeOK
  <1>5. \A u \in Threads \ {t} : Held(u)' \subseteq Held(u) /\ gone'[u] = gone[u]
    BY <1>1, <1>2, <1>3 DEF Held, TypeOK
  <1>6. \A u \in Threads : gone'[u] \cap Live' = {} /\ Held(u)' \subseteq Live'
    BY <1>4 DEF GoneInv, Live, Held
  <1>7. PICK n \in 0..(Modulus - 1) : Write(t, "current", n)
    <2>1. Modulus - 1 \in Nat
      BY WidthFacts
    <2> QED BY <1>1, <1>2, <2>1, CellFacts, FetchAddWrites
  <1>8. n = Cardinality(Live')
    <2>1. Newest("current")' = n
      BY <1>2, <1>7, CellFacts, WriteFacts
    <2>2. Newest("current")' = Cardinality(Live')
      BY DEF ScalarsInv, SumInv
    <2> QED BY <2>1, <2>2
  <1>9. Live' \subseteq Begun' /\ Begun \subseteq Begun'
    BY <1>3 DEF Live, Begun
  <1>10. CurrentInv'
    BY <1>2, <1>5, <1>6, <1>7, <1>8, <1>9, CurrentWrite
  <1> QED BY <1>1, <1>2, <1>4, <1>10 DEF ShownInv, ScrapedInv

(* The thread that made a connection held it before it was established. *)
LEMMA EstablishShown ==
  ASSUME ScalarsInv, ScalarsInv', ShownInv, NEW t \in Threads, NEW x \in Connections,
         Establish(t, x)
  PROVE  ShownInv'
  <1>1. /\ conn[x] \in {"reporting", "guarding"} /\ owner[x] = {t}
        /\ conn' = [conn EXCEPT ![x] = IF @ = "guarding" THEN "guarded" ELSE "connected"]
        /\ known' = [known EXCEPT ![t] = @ \cup {x}]
        /\ UNCHANGED <<owner, gone, scraped>> /\ FetchAdd(t, "total", 1)
    BY DEF Establish, Established
  <1>2. TypeOK /\ TypeOK' /\ GoneInv /\ CurrentInv /\ ScrapedInv
    BY DEF ScalarsInv, ShownInv
  <1>3. Live' = Live /\ Begun' = Begun /\ x \in Live
    BY <1>1, <1>2 DEF Live, Begun, TypeOK
  <1>4. GoneInv'
    BY <1>1, <1>2 DEF GoneInv, TypeOK
  <1>5. \A u \in Threads : Held(u)' \subseteq Held(u)
    BY <1>1, <1>2, <1>3 DEF Held, TypeOK
  <1>6. PICK n \in 0..(Modulus - 1) : Write(t, "total", n)
    BY <1>1, <1>2, CellFacts, FetchAddWrites
  <1>7. /\ cell'["current"] = cell["current"]
        /\ \A u \in Threads : view'[u]["current"] = view[u]["current"]
    <2>1. "current" \in Cells /\ "total" \in Cells /\ "current" # "total"
      BY CellFacts
    <2> QED BY ONLY <1>2, <1>6, <2>1, t \in Threads, WriteFacts
  <1>8. \A u \in Threads : view[u]["current"] <= view'[u]["current"]
    BY <1>2, <1>7, PlaceFacts
  <1>9. CurrentInv'
    BY <1>1, <1>2, <1>3, <1>5, <1>7, <1>8, CurrentFrame
  <1> QED BY <1>1, <1>2, <1>4, <1>9 DEF ShownInv, ScrapedInv

(* An update of the gauge or the counter. *)
LEMMA UpdateShown ==
  ASSUME ScalarsInv, ScalarsInv', ShownInv, NEW t \in Threads, NEW c \in {"gauge", "counter"},
         NEW n \in 0..(Modulus - 1), Write(t, c, n), UNCHANGED <<connVars, scraped>>
  PROVE  ShownInv'
  <1>1. TypeOK /\ TypeOK' /\ UNCHANGED <<conn, owner, known, gone, scraped>>
    BY DEF ScalarsInv, connVars
  <1>2. /\ cell'["current"] = cell["current"]
        /\ \A u \in Threads : view'[u]["current"] = view[u]["current"]
    <2>1. "current" \in Cells /\ c \in Cells /\ "current" # c
      BY DEF Cells
    <2> QED BY ONLY <1>1, <2>1, t \in Threads, n \in 0..(Modulus - 1), Write(t, c, n), WriteFacts
  <1>3. \A u \in Threads : view[u]["current"] <= view'[u]["current"]
    BY <1>1, <1>2, PlaceFacts
  <1> QED BY <1>1, <1>2, <1>3, ShownFrame

(* A load: what it shows of `total` covers what its thread knows. *)
LEMMA GetShown ==
  ASSUME ScalarsInv, ScalarsInv', ShownInv, NEW t \in Threads, NEW c \in Cells, Get(t, c)
  PROVE  ShownInv'
  <1>1. PICK i \in view[t][c]..Len(cell[c]) :
          /\ view' = [view EXCEPT ![t][c] = i]
          /\ scraped' = IF c = "total"
                        THEN [scraped EXCEPT ![t] = [total |-> cell[c][i], known |-> known[t]]]
                        ELSE scraped
    BY DEF Get
  <1>2. UNCHANGED <<cell, conn, owner, known, gone>>
    BY DEF Get, connVars
  <1>3. TypeOK /\ TypeOK' /\ GoneInv /\ CurrentInv /\ ScrapedInv
    BY DEF ScalarsInv, ShownInv
  <1>4. Begun' = Begun /\ GoneInv' /\ \A u \in Threads : Held(u)' = Held(u)
    BY <1>2, <1>3 DEF Begun, Held, Live, GoneInv
  <1>5. \A u \in Threads : view[u]["current"] <= view'[u]["current"]
    <2> TAKE u \in Threads
    <2>1. view[u]["current"] \in Nat /\ view \in [Threads -> [Cells -> Nat]] /\ "current" \in Cells
      BY <1>3, PlaceFacts, CellFacts DEF TypeOK
    <2>2. CASE u = t /\ c = "current"
      <3>1. view'[u]["current"] = i /\ i \in Int /\ view[u]["current"] <= i
        BY <1>1, <1>3, <2>1, <2>2, PlaceFacts
      <3> QED BY <3>1
    <2>3. CASE ~(u = t /\ c = "current")
      <3>1. view'[u]["current"] = view[u]["current"]
        BY <1>1, <2>1, <2>3
      <3> QED BY <2>1, <3>1
    <2> QED BY <2>2, <2>3
  <1>6. CurrentInv'
    BY <1>2, <1>3, <1>4, <1>5, CurrentFrame
  <1>7. ScrapedInv'
    <2>1. CASE c = "total"
      <3>1. /\ view[t]["total"] \in 1..Len(cell["total"]) /\ Len(cell["total"]) \in Nat
            /\ \A j \in 1..Len(cell["total"]) : cell["total"][j] = j - 1
            /\ Cardinality(known[t]) \in Nat /\ Cardinality(known[t]) <= view[t]["total"] - 1
        BY KnownPlaces
      <3>2. i \in view[t]["total"]..Len(cell["total"]) /\ i \in 1..Len(cell["total"])
        BY <2>1, <3>1
      <3>3. Cardinality(known[t]) <= cell["total"][i]
        BY <3>1, <3>2
      <3>4. /\ scraped'[t].total = cell["total"][i] /\ scraped'[t].known = known[t]
            /\ \A u \in Threads \ {t} : scraped'[u] = scraped[u]
        BY <1>1, <1>3, <2>1 DEF TypeOK
      <3> QED BY <1>3, <3>3, <3>4 DEF ScrapedInv
    <2>2. CASE c # "total"
      BY <1>1, <1>3, <2>2 DEF ScrapedInv
    <2> QED BY <2>1, <2>2
  <1> QED BY <1>4, <1>6, <1>7 DEF ShownInv

(* Whoever is handed connections, or told of closed ones, sees the values   *)
(* of `current` that count them so.                                         *)
LEMMA SynchronizeShown ==
  ASSUME ScalarsInv, ScalarsInv', ShownInv, NEW a \in Threads, NEW b \in Threads,
         NEW S \in SUBSET Connections, Synchronize(a, b, S)
  PROVE  ShownInv'
  <1>1. /\ UNCHANGED <<cell, conn, scraped>>
        /\ known' = [known EXCEPT ![b] = @ \cup known[a]]
        /\ gone' = [gone EXCEPT ![b] = @ \cup gone[a]]
        /\ owner' = [x \in Connections |-> IF x \in S THEN {b} ELSE owner[x]]
        /\ \A x \in S : owner[x] = {a}
    BY DEF Synchronize
  <1>2. TypeOK /\ TypeOK' /\ GoneInv /\ CurrentInv /\ ScrapedInv
    BY DEF ScalarsInv, ShownInv
  <1>3. Live' = Live /\ Begun' = Begun
    BY <1>1 DEF Live, Begun
  <1>4. \A u \in Threads : view[u]["current"] \in Nat
    BY <1>2, PlaceFacts
  <1>5. /\ \A u \in Threads \ {b} : view'[u]["current"] = view[u]["current"]
        /\ view'[b]["current"] = IF view[a]["current"] > view[b]["current"]
                                 THEN view[a]["current"] ELSE view[b]["current"]
    BY <1>2, CellFacts DEF Synchronize, TypeOK
  <1>6. /\ \A u \in Threads : view[u]["current"] <= view'[u]["current"]
        /\ view[a]["current"] <= view'[b]["current"]
    BY <1>4, <1>5
  <1>7. ASSUME NEW t \in Threads, NEW x \in Held(t)'
        PROVE  \E u \in Threads : x \in Held(u) /\ view[u]["current"] <= view'[t]["current"]
    <2>1. x \in Live /\ x \in Connections /\ (x \in known'[t] \/ t \in owner'[x])
      BY <1>3 DEF Held, Live
    <2>2. x \in Held(t) \/ (t = b /\ x \in Held(a))
      BY <1>1, <1>2, <2>1 DEF Held, TypeOK
    <2> QED BY <1>6, <2>2
  <1>8. ASSUME NEW t \in Threads, NEW x \in gone'[t]
        PROVE  \E u \in Threads : x \in gone[u] /\ view[u]["current"] <= view'[t]["current"]
    <2>1. x \in gone[t] \/ (t = b /\ x \in gone[a])
      BY <1>1, <1>2 DEF TypeOK
    <2> QED BY <1>6, <2>1
  <1>9. CurrentInv'
    BY <1>1, <1>2, <1>3, <1>7, <1>8, CurrentFrame
  <1>10. GoneInv'
    BY <1>1, <1>2 DEF GoneInv, TypeOK
  <1> QED BY <1>1, <1>2, <1>9, <1>10 DEF ShownInv, ScrapedInv

(* Nothing is counted when the process starts. *)
LEMMA ShownInit ==
  ASSUME Init
  PROVE  ShownInv
  <1>1. cell["current"] = <<0>> /\ Len(cell["current"]) = 1 /\ cell["current"][1] = 0
    BY CellFacts DEF Init
  <1>2. Live = {} /\ \A t \in Threads : gone[t] = {} /\ Held(t) = {}
    BY DEF Init, Live, Held
  <1>3. Cardinality({}) = 0
    BY FS_EmptySet
  <1>4. PICK L : L = [i \in 1..1 |-> {}]
    OBVIOUS
  <1>5. CurrentInv
    <2>1. L \in [1..1 -> SUBSET Begun]
      BY <1>4
    <2>2. \A i \in 1..1 : i = 1 /\ L[i] = {}
      BY <1>4
    <2>3. \A t \in Threads : \A i \in view[t]["current"]..1 : i \in 1..1
      BY CellFacts DEF Init
    <2> QED BY <1>1, <1>2, <1>3, <2>1, <2>2, <2>3 DEF CurrentInv
  <1>6. GoneInv
    BY <1>2 DEF GoneInv
  <1>7. ScrapedInv
    <2>1. \A t \in Threads : scraped[t].total = 0 /\ scraped[t].known = {}
      BY DEF Init
    <2> QED BY <1>3, <2>1 DEF ScrapedInv
  <1> QED BY <1>5, <1>6, <1>7 DEF ShownInv

(* Every step preserves what loads show. *)
LEMMA ShownNext ==
  ASSUME ScalarsInv, ScalarsInv', ShownInv, [Next]_vars
  PROVE  ShownInv'
  <1>1. ASSUME NEW t \in Threads, NEW x \in Connections,
               Connect(t, x, "reporting") \/ Connect(t, x, "guarding")
        PROVE  ShownInv'
    BY <1>1, ConnectShown
  <1>2. ASSUME NEW t \in Threads, NEW x \in Connections, Establish(t, x)
        PROVE  ShownInv'
    BY <1>2, EstablishShown
  <1>3. ASSUME NEW t \in Threads, NEW x \in Connections, Disconnect(t, x)
        PROVE  ShownInv'
    BY <1>3, DisconnectShown
  <1>4. ASSUME NEW t \in Threads, NEW n \in Amounts, CounterAdd(t, n)
        PROVE  ShownInv'
    <2>1. PICK w \in 0..(Modulus - 1) : Write(t, "counter", w)
      <3>1. FetchAdd(t, "counter", n) /\ n \in Nat /\ TypeOK
        BY <1>4, ScalarsAssumption DEF CounterAdd, ScalarsInv
      <3> QED BY <3>1, CellFacts, FetchAddWrites
    <2>2. UNCHANGED <<connVars, scraped>>
      BY <1>4 DEF CounterAdd
    <2> QED BY <2>1, <2>2, UpdateShown
  <1>5. ASSUME NEW t \in Threads, NEW v \in Deltas, GaugeAdd(t, v) \/ GaugeSet(t, v)
        PROVE  ShownInv'
    <2>1. AsU64(v) \in 0..(Modulus - 1) /\ AsU64(v) \in Nat
      BY ScalarsAssumption, CastType
    <2>2. PICK w \in 0..(Modulus - 1) : Write(t, "gauge", w)
      <3>1. CASE GaugeAdd(t, v)
        <4>1. FetchAdd(t, "gauge", AsU64(v)) /\ TypeOK
          BY <3>1 DEF GaugeAdd, ScalarsInv
        <4> QED BY <2>1, <4>1, CellFacts, FetchAddWrites
      <3>2. CASE GaugeSet(t, v)
        BY <2>1, <3>2 DEF GaugeSet
      <3> QED BY <1>5, <3>1, <3>2
    <2>3. UNCHANGED <<connVars, scraped>>
      BY <1>5 DEF GaugeAdd, GaugeSet
    <2> QED BY <2>2, <2>3, UpdateShown
  <1>6. ASSUME NEW t \in Threads, NEW c \in Cells, Get(t, c)
        PROVE  ShownInv'
    BY <1>6, GetShown
  <1>7. ASSUME NEW a \in Threads, NEW b \in Threads, NEW S \in SUBSET Connections,
               Synchronize(a, b, S)
        PROVE  ShownInv'
    BY <1>7, SynchronizeShown
  <1>8. ASSUME UNCHANGED vars
        PROVE  ShownInv'
    BY <1>8 DEF vars, connVars, ShownInv, CurrentInv, GoneInv, ScrapedInv, Held, Live, Begun
  <1> QED BY <1>1, <1>2, <1>3, <1>4, <1>5, <1>6, <1>7, <1>8 DEF Next

(* What any thread can load counts what the invariant says. *)
LEMMA ShownBounds ==
  ASSUME ScalarsInv, ShownInv, NEW t \in Threads,
         NEW i \in view[t]["current"]..Len(cell["current"])
  PROVE  /\ Cardinality(Live \cap known[t]) <= AsI64(cell["current"][i])
         /\ AsI64(cell["current"][i]) <= Cardinality(Begun \ gone[t])
         /\ AsI64(cell["current"][i]) <=
              scraped[t].total + Cardinality(Begun \ scraped[t].known)
  <1> DEFINE B == Begun
             K == scraped[t].known
             n == scraped[t].total
             shown == AsI64(cell["current"][i])
  <1>1. TypeOK /\ K \in SUBSET Connections /\ n \in Nat /\ Cardinality(K) <= n
    <2>1. TypeOK /\ scraped[t] \in [total : 0..(Modulus - 1), known : SUBSET Connections]
      BY DEF ScalarsInv, TypeOK
    <2> QED BY <2>1, WidthFacts DEF ShownInv, ScrapedInv
  <1>2. PICK L \in [1..Len(cell["current"]) -> SUBSET Begun] :
          /\ \A j \in 1..Len(cell["current"]) : cell["current"][j] = Cardinality(L[j])
          /\ \A u \in Threads : \A j \in view[u]["current"]..Len(cell["current"]) :
               Held(u) \subseteq L[j] /\ L[j] \cap gone[u] = {}
    BY DEF ShownInv, CurrentInv
  <1>3. i \in 1..Len(cell["current"])
    BY <1>1, PlaceFacts
  <1>4. PICK C \in SUBSET B :
          /\ cell["current"][i] = Cardinality(C)
          /\ Held(t) \subseteq C /\ C \cap gone[t] = {}
    BY <1>2, <1>3
  <1>5. B \in SUBSET Connections /\ C \in SUBSET Connections
    BY <1>4 DEF Begun
  <1>6. Cardinality(C) \in Nat /\ shown = Cardinality(C) /\ IsFiniteSet(C)
    <2>1. Cardinality(C) \in Nat /\ Cardinality(C) < Modulus \div 2 /\ IsFiniteSet(C)
      BY <1>5, CountFacts
    <2> QED BY <1>4, <2>1 DEF AsI64
  <1>7. Cardinality(Live \cap known[t]) <= Cardinality(C)
    <2>1. Live \cap known[t] \in SUBSET C
      BY <1>4 DEF Held
    <2> QED BY <1>6, <2>1, FS_Subset
  <1>8. Cardinality(C) <= Cardinality(B \ gone[t])
    <2>1. C \in SUBSET (B \ gone[t]) /\ B \ gone[t] \in SUBSET Connections
      BY <1>4, <1>5
    <2>2. IsFiniteSet(B \ gone[t])
      BY <2>1, CountFacts
    <2> QED BY <2>1, <2>2, FS_Subset
  <1>9. Cardinality(C) <= n + Cardinality(B \ K)
    <2> HIDE DEF B, K, n
    <2>1. /\ C \in SUBSET (K \cup (B \ K)) /\ K \cap (B \ K) = {}
          /\ B \ K \in SUBSET Connections
      BY <1>4, <1>5
    <2>2. /\ IsFiniteSet(K) /\ IsFiniteSet(B \ K)
          /\ Cardinality(K) \in Nat /\ Cardinality(B \ K) \in Nat
      BY <1>1, <2>1, CountFacts
    <2>3. /\ IsFiniteSet(K \cup (B \ K))
          /\ Cardinality(K \cup (B \ K)) = Cardinality(K) + Cardinality(B \ K) - Cardinality({})
      BY <2>1, <2>2, FS_Union
    <2>4. Cardinality(C) <= Cardinality(K \cup (B \ K)) /\ Cardinality({}) = 0
      BY <2>1, <2>3, FS_Subset, FS_EmptySet
    <2> QED BY <1>1, <1>6, <2>2, <2>3, <2>4
  <1> QED BY <1>6, <1>7, <1>8, <1>9

(* Whatever value of `current` a thread loads, however stale, it has the    *)
(* live connections the thread knows and none it knows to be closed, and is *)
(* above the total it has shown only by connections made or told of since   *)
(* (scalar.rs:311, 342).                                                    *)
THEOREM LoadsShowConnections == Spec => []ConnectionsShown
  <1>1. Init => ScalarsInv /\ ShownInv
    BY ScalarsInit, ShownInit
  <1>2. ScalarsInv /\ ShownInv /\ [Next]_vars => (ScalarsInv /\ ShownInv)'
    BY ScalarsNext, ShownNext
  <1>3. ScalarsInv /\ ShownInv => ConnectionsShown
    BY ShownBounds DEF ConnectionsShown
  <1> QED BY <1>1, <1>2, <1>3, PTL DEF Spec

============================================================================
