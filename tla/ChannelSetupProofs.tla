------------------------- MODULE ChannelSetupProofs -------------------------
(***************************************************************************)
(* Proofs about ChannelSetup: whatever the order in which the processes    *)
(* are started and die, a ring in use has been initialised; started in the *)
(* documented order, the two ends map the same segments and a client never *)
(* finds an answer to an earlier one.                                      *)
(***************************************************************************)
EXTENDS ChannelSetup, TLAPS

Segment == [sized : BOOLEAN, magic : BOOLEAN, born : Nat]
Alive == {"creating", "prepared", "connecting", "attaching", "connected"}
Map == [Kinds -> Nat]

Types ==
  /\ linked \in [Instances -> [Kinds -> BOOLEAN]]
  /\ objects \in [Instances -> [Kinds -> Seq(Segment)]]
  /\ \A i \in Instances, k \in Kinds : linked[i][k] => Latest(i, k) > 0
  /\ client \in [Instances -> Gone \cup Alive]
  /\ clientStep \in [Instances -> 1 .. 10]
  /\ clientMap \in [Instances -> Map]
  /\ tries \in [Instances -> Nat] /\ \A i \in Instances : tries[i] <= Tries
  /\ \A i \in Instances : client[i] = "attaching" => tries[i] < Tries
  /\ clientStarts \in [Instances -> Nat]
  /\ svc \in Gone \cup {"registering", "running"}
  /\ arg \in 1 .. NumInstances + 1 /\ joinStep \in 1 .. 6
  /\ serviceMap \in [Instances -> Map]
  /\ serving \subseteq Instances /\ inOrder \in BOOLEAN
  /\ \A i \in Instances, k \in Kinds :
       clientMap[i][k] <= Latest(i, k) /\ serviceMap[i][k] <= Latest(i, k)

\* The client of i is past step n of the creation.
Past(i, n) ==
  \/ client[i] \in {"prepared", "connecting", "attaching", "connected"}
  \/ client[i] = "creating" /\ clientStep[i] > n

\* It maps the segment that the name stands for.
Current(i, k, m) == linked[i][k] /\ m[k] = Latest(i, k)
Whole(i, k, m) == m[k] > 0 /\ Sized(i, k, m) /\ Ready(i, k, m)

\* What the calls of a client have left behind.
ClientSegments ==
  \A i \in Instances :
    /\ Past(i, 2) /\ linked[i]["resp"] =>
         objects[i]["resp"][Latest(i, "resp")].born = clientStarts[i]
    /\ Past(i, 5) => Current(i, "req", clientMap[i])
    /\ Past(i, 6) => Sized(i, "req", clientMap[i])
    /\ Past(i, 7) => Ready(i, "req", clientMap[i])
    /\ Past(i, 9) => Current(i, "data", clientMap[i])
    /\ client[i] \in {"attaching", "connected"} => Current(i, "resp", clientMap[i])
    /\ client[i] = "connected" => Whole(i, "resp", clientMap[i])

\* The daemon is past step n of a join.
Joined(n) == svc = "registering" /\ joinStep > n

\* What the calls of the daemon have left behind.
ServiceSegments ==
  /\ svc \in Gone => serving = {}
  /\ svc = "registering" => \A i \in serving : i < arg
  /\ Joined(1) => arg \in Instances /\ serviceMap[arg]["req"] > 0
  /\ Joined(2) => Whole(arg, "req", serviceMap[arg])
  /\ Joined(3) => serviceMap[arg]["resp"] > 0
  /\ Joined(4) => Sized(arg, "resp", serviceMap[arg])
  /\ Joined(5) => Ready(arg, "resp", serviceMap[arg])
  /\ \A i \in serving :
       Whole(i, "req", serviceMap[i]) /\ Whole(i, "resp", serviceMap[i])

\* In order: nothing is created while the daemon registers, and it serves
\* what is there, until a new client takes the response ring away.
Order ==
  inOrder =>
    /\ \A i \in Instances : client[i] = "creating" =>
         svc # "registering" /\ (clientStep[i] > 2 => ~linked[i]["resp"])
    /\ Joined(1) => serviceMap[arg]["req"] = Latest(arg, "req")
    /\ Joined(3) => serviceMap[arg]["resp"] = Latest(arg, "resp")
    /\ \A i \in serving : linked[i]["resp"] =>
         \A k \in Kinds : serviceMap[i][k] = Latest(i, k)

SetupInv == Types /\ ClientSegments /\ ServiceSegments /\ Order

-----------------------------------------------------------------------------
(* What a call does to the segments.                                       *)

\* Segments are never taken away, and what was done to them stays.
Grown ==
  /\ objects' \in [Instances -> [Kinds -> Seq(Segment)]]
  /\ \A j \in Instances, q \in Kinds :
       /\ Len(objects'[j][q]) >= Len(objects[j][q])
       /\ \A n \in 1 .. Len(objects[j][q]) :
            /\ objects[j][q][n].sized => objects'[j][q][n].sized
            /\ objects[j][q][n].magic => objects'[j][q][n].magic
            /\ objects'[j][q][n].born = objects[j][q][n].born

\* Nothing but the segments of one name is touched.
OnlyAt(i, k) ==
  \A j \in Instances, q \in Kinds : j # i \/ q # k =>
    linked'[j][q] = linked[j][q] /\ objects'[j][q] = objects[j][q]

(* Linking or unlinking one name changes that name only.                   *)
LEMMA LinkedSet ==
  ASSUME linked \in [Instances -> [Kinds -> BOOLEAN]], NEW i \in Instances, NEW k \in Kinds,
         NEW b \in BOOLEAN, linked' = [linked EXCEPT ![i][k] = b]
  PROVE  /\ linked' \in [Instances -> [Kinds -> BOOLEAN]] /\ linked'[i][k] = b
         /\ \A j \in Instances, q \in Kinds : j # i \/ q # k => linked'[j][q] = linked[j][q]
OBVIOUS

\* The segments of one name become s.
LEMMA ObjectsSet ==
  ASSUME objects \in [Instances -> [Kinds -> Seq(Segment)]], NEW i \in Instances,
         NEW k \in Kinds, NEW s \in Seq(Segment), objects' = [objects EXCEPT ![i][k] = s]
  PROVE  /\ objects' \in [Instances -> [Kinds -> Seq(Segment)]] /\ objects'[i][k] = s
         /\ \A j \in Instances, q \in Kinds : j # i \/ q # k => objects'[j][q] = objects[j][q]
OBVIOUS

Unlinked(i, k) ==
  /\ linked' \in [Instances -> [Kinds -> BOOLEAN]] /\ objects' = objects
  /\ ~linked'[i][k] /\ OnlyAt(i, k)
OpenedAt(i, k) ==
  /\ linked' \in [Instances -> [Kinds -> BOOLEAN]] /\ linked'[i][k]
  /\ Grown /\ OnlyAt(i, k) /\ Len(objects'[i][k]) > 0
  /\ \/ linked[i][k] /\ objects' = objects
     \/ /\ ~linked[i][k] /\ Len(objects'[i][k]) = Len(objects[i][k]) + 1
        /\ objects'[i][k][Len(objects'[i][k])].born = clientStarts[i]
Marked(i, k, m) ==
  /\ linked' = linked /\ Grown /\ OnlyAt(i, k)
  /\ Len(objects'[i][k]) = Len(objects[i][k])

(* What shm_unlink does.                                                   *)
LEMMA UnlinkDone ==
  ASSUME Types, NEW i \in Instances, NEW k \in Kinds, NEW m, Perform(i, <<"unlink", k>>, m)
  PROVE  Unlinked(i, k)
<1>1. linked' = [linked EXCEPT ![i][k] = FALSE] /\ objects' = objects
  BY DEF Perform
<1>2. /\ linked' \in [Instances -> [Kinds -> BOOLEAN]] /\ linked'[i][k] = FALSE
      /\ \A j \in Instances, q \in Kinds : j # i \/ q # k => linked'[j][q] = linked[j][q]
  BY <1>1, LinkedSet DEF Types
<1> QED
  BY <1>1, <1>2 DEF Unlinked, OnlyAt

(* What shm_open with O_CREAT does: the name is linked, to the segment it  *)
(* had or to a new one.                                                    *)
LEMMA OpenDone ==
  ASSUME Types, NEW i \in Instances, NEW k \in Kinds, NEW m, Perform(i, <<"open", k>>, m)
  PROVE  OpenedAt(i, k)
<1> DEFINE new == [sized |-> FALSE, magic |-> FALSE, born |-> clientStarts[i]]
<1>1. linked' = [linked EXCEPT ![i][k] = TRUE]
      /\ objects' = IF linked[i][k] THEN objects
                    ELSE [objects EXCEPT ![i][k] = Append(@, new)]
  BY DEF Perform, OpenOrCreate
<1>2. /\ linked' \in [Instances -> [Kinds -> BOOLEAN]] /\ linked'[i][k]
      /\ \A j \in Instances, q \in Kinds : j # i \/ q # k => linked'[j][q] = linked[j][q]
  BY <1>1, LinkedSet DEF Types
<1>3. CASE linked[i][k]
  <2>1. objects' = objects /\ Len(objects[i][k]) > 0
    BY <1>1, <1>3 DEF Types, Latest
  <2>2. Grown
    <3>1. \A j \in Instances, q \in Kinds : Len(objects[j][q]) \in Nat
      BY DEF Types
    <3> QED
      BY <2>1, <3>1 DEF Types, Grown
  <2> QED
    BY <1>2, <1>3, <2>1, <2>2 DEF OpenedAt, OnlyAt
<1>4. CASE ~linked[i][k]
  <2>1. new \in Segment
    BY DEF Segment, Types
  <2>2. PICK s \in Seq(Segment) : s = objects[i][k]
    BY DEF Types
  <2> HIDE DEF new
  <2>3. /\ Append(s, new) \in Seq(Segment) /\ Len(Append(s, new)) = Len(s) + 1
        /\ Append(s, new)[Len(s) + 1] = new /\ Len(s) \in Nat
        /\ \A n \in 1 .. Len(s) : Append(s, new)[n] = s[n]
    BY <2>1
  <2>4. objects' = [objects EXCEPT ![i][k] = Append(s, new)]
    BY <1>1, <1>4, <2>2 DEF Types
  <2>5. /\ objects' \in [Instances -> [Kinds -> Seq(Segment)]]
        /\ objects'[i][k] = Append(s, new)
        /\ \A j \in Instances, q \in Kinds : j # i \/ q # k => objects'[j][q] = objects[j][q]
    BY <2>3, <2>4, ObjectsSet DEF Types
  <2>6. \A j \in Instances, q \in Kinds : Len(objects[j][q]) \in Nat
    BY DEF Types
  <2>7. Grown
    <3>1. ASSUME NEW j \in Instances, NEW q \in Kinds
          PROVE  /\ Len(objects'[j][q]) >= Len(objects[j][q])
                 /\ \A n \in 1 .. Len(objects[j][q]) : objects'[j][q][n] = objects[j][q][n]
      <4>1. CASE j = i /\ q = k
        <5>1. objects[j][q] = s /\ objects'[j][q] = Append(s, new)
          BY <2>2, <2>5, <4>1
        <5>2. Len(Append(s, new)) >= Len(s)
          BY <2>3
        <5> QED
          BY <2>3, <5>1, <5>2
      <4>2. CASE j # i \/ q # k
        BY <2>5, <2>6, <4>2
      <4> QED
        BY <4>1, <4>2
    <3> QED
      BY <2>5, <3>1 DEF Grown
  <2>8. new.born = clientStarts[i]
    BY DEF new
  <2> QED
    BY <1>2, <1>4, <2>2, <2>3, <2>5, <2>7, <2>8 DEF OpenedAt, OnlyAt
<1> QED
  BY <1>3, <1>4

\* A segment that is mapped is given its size, or its magic.
SegmentBecomes(i, k, m, old, new) ==
  /\ 0 < m[k] /\ m[k] <= Latest(i, k) /\ old = objects[i][k][m[k]]
  /\ (old.sized => new.sized) /\ (old.magic => new.magic) /\ new.born = old.born
  /\ objects' = [objects EXCEPT ![i][k] = [objects[i][k] EXCEPT ![m[k]] = new]]
  /\ linked' = linked

(* Changing one segment changes that segment only.                         *)
LEMMA SegmentSet ==
  ASSUME Types, NEW i \in Instances, NEW k \in Kinds, NEW m \in Map,
         NEW old \in Segment, NEW new \in Segment, SegmentBecomes(i, k, m, old, new)
  PROVE  Marked(i, k, m) /\ objects'[i][k][m[k]] = new
<1> USE DEF SegmentBecomes
<1>1. PICK s \in Seq(Segment) : s = objects[i][k]
  BY DEF Types
<1>2. PICK n \in 1 .. Len(s) : n = m[k]
  BY <1>1 DEF Map, Latest
<1>3. PICK r : r = [s EXCEPT ![n] = new]
  OBVIOUS
<1>4. /\ r \in Seq(Segment) /\ Len(r) = Len(s) /\ r[n] = new
      /\ \A p \in 1 .. Len(s) : p # n => r[p] = s[p]
  BY <1>3
<1>5. objects' = [objects EXCEPT ![i][k] = r]
  BY <1>1, <1>2, <1>3 DEF Types
<1>6. /\ objects' \in [Instances -> [Kinds -> Seq(Segment)]] /\ objects'[i][k] = r
      /\ \A j \in Instances, q \in Kinds : j # i \/ q # k => objects'[j][q] = objects[j][q]
  <2>1. objects \in [Instances -> [Kinds -> Seq(Segment)]] /\ r \in Seq(Segment)
    BY <1>4 DEF Types
  <2> QED
    BY <1>5, <2>1, ObjectsSet
<1>7. \A j \in Instances, q \in Kinds : Len(objects[j][q]) \in Nat
  BY DEF Types
<1>8. Grown
  <2>1. ASSUME NEW j \in Instances, NEW q \in Kinds
        PROVE  /\ Len(objects'[j][q]) >= Len(objects[j][q])
               /\ \A p \in 1 .. Len(objects[j][q]) :
                    /\ objects[j][q][p].sized => objects'[j][q][p].sized
                    /\ objects[j][q][p].magic => objects'[j][q][p].magic
                    /\ objects'[j][q][p].born = objects[j][q][p].born
    <3>1. CASE j = i /\ q = k
      <4>1. Len(s) >= Len(s)
        BY <1>1, <1>7
      <4> QED
        BY <1>1, <1>2, <1>4, <1>6, <3>1, <4>1
    <3>2. CASE j # i \/ q # k
      BY <1>6, <1>7, <3>2
    <3> QED
      BY <3>1, <3>2
  <2> QED
    BY <1>6, <2>1 DEF Grown
<1> QED
  BY <1>1, <1>2, <1>4, <1>6, <1>8 DEF Marked, OnlyAt

(* What ftruncate does to the segment the caller has mapped.               *)
LEMMA TruncateDone ==
  ASSUME Types, NEW i \in Instances, NEW k \in Kinds, NEW m \in Map,
         0 < m[k], m[k] <= Latest(i, k), Perform(i, <<"truncate", k>>, m)
  PROVE  Marked(i, k, m) /\ objects'[i][k][m[k]].sized
<1>1. PICK old \in Segment : old = objects[i][k][m[k]]
  <2>1. objects[i][k] \in Seq(Segment) /\ m[k] \in 1 .. Len(objects[i][k])
    BY DEF Types, Map, Latest
  <2> QED
    BY <2>1
<1>2. PICK new \in Segment : new = [old EXCEPT !.sized = TRUE]
  BY DEF Segment
<1>3. new.sized /\ new.magic = old.magic /\ new.born = old.born
  BY <1>2 DEF Segment
<1>4. linked' = linked /\ objects' = [objects EXCEPT ![i][k][m[k]].sized = TRUE]
  BY DEF Perform
<1>5. objects' = [objects EXCEPT ![i][k] = [objects[i][k] EXCEPT ![m[k]] = new]]
  BY <1>1, <1>2, <1>4
<1>6. (old.sized => new.sized) /\ (old.magic => new.magic)
  BY <1>3
<1>7. Marked(i, k, m) /\ objects'[i][k][m[k]] = new
  <2>1. SegmentBecomes(i, k, m, old, new)
    BY <1>1, <1>3, <1>4, <1>5, <1>6 DEF SegmentBecomes
  <2> QED
    BY <2>1, SegmentSet
<1> QED
  BY <1>3, <1>7

(* What writing the header does to the segment the caller has mapped.      *)
LEMMA InitDone ==
  ASSUME Types, NEW i \in Instances, NEW k \in Kinds, NEW m \in Map,
         0 < m[k], m[k] <= Latest(i, k), Perform(i, <<"init", k>>, m)
  PROVE  Marked(i, k, m) /\ objects'[i][k][m[k]].magic
<1>1. PICK old \in Segment : old = objects[i][k][m[k]]
  <2>1. objects[i][k] \in Seq(Segment) /\ m[k] \in 1 .. Len(objects[i][k])
    BY DEF Types, Map, Latest
  <2> QED
    BY <2>1
<1>2. PICK new \in Segment : new = [old EXCEPT !.magic = TRUE]
  BY DEF Segment
<1>3. new.magic /\ new.sized = old.sized /\ new.born = old.born
  BY <1>2 DEF Segment
<1>4. linked' = linked /\ objects' = [objects EXCEPT ![i][k][m[k]].magic = TRUE]
  BY DEF Perform
<1>5. objects' = [objects EXCEPT ![i][k] = [objects[i][k] EXCEPT ![m[k]] = new]]
  BY <1>1, <1>2, <1>4
<1>6. (old.sized => new.sized) /\ (old.magic => new.magic)
  BY <1>3
<1>7. Marked(i, k, m) /\ objects'[i][k][m[k]] = new
  <2>1. SegmentBecomes(i, k, m, old, new)
    BY <1>1, <1>3, <1>4, <1>5, <1>6 DEF SegmentBecomes
  <2> QED
    BY <2>1, SegmentSet
<1> QED
  BY <1>3, <1>7

-----------------------------------------------------------------------------
(* One call of the creation.                                               *)

CreationCall(n) ==
  IF n \in {1, 4} THEN <<"unlink", "req">>
  ELSE IF n = 2 THEN <<"unlink", "resp">>
  ELSE IF n \in {3, 8} THEN <<"unlink", "data">>
  ELSE IF n = 5 THEN <<"open", "req">>
  ELSE IF n = 6 THEN <<"truncate", "req">>
  ELSE IF n = 7 THEN <<"init", "req">>
  ELSE IF n = 9 THEN <<"open", "data">>
  ELSE <<"truncate", "data">>

(* The ten calls a client makes, in their order.                           *)
LEMMA CreationCalls == Len(Creation) = 10 /\ \A n \in 1 .. 10 : Creation[n] = CreationCall(n)
<1>1. Len(Creation) = 10
  BY DEF Creation
<1>2. /\ Creation[1] = <<"unlink", "req">> /\ Creation[2] = <<"unlink", "resp">>
      /\ Creation[3] = <<"unlink", "data">> /\ Creation[4] = <<"unlink", "req">>
      /\ Creation[5] = <<"open", "req">> /\ Creation[6] = <<"truncate", "req">>
      /\ Creation[7] = <<"init", "req">> /\ Creation[8] = <<"unlink", "data">>
      /\ Creation[9] = <<"open", "data">> /\ Creation[10] = <<"truncate", "data">>
  BY DEF Creation
<1> HIDE DEF Creation
<1>3. ASSUME NEW n \in 1 .. 10 PROVE Creation[n] = CreationCall(n)
  <2>1. n \in {1, 2, 3, 4, 5, 6, 7, 8, 9, 10}
    OBVIOUS
  <2> QED
    BY <1>2, <2>1 DEF CreationCall
<1> QED
  BY <1>1, <1>3

\* The client goes on to the next call, or is done.
Advanced(i) ==
  /\ client[i] = "creating" /\ UNCHANGED <<tries, clientStarts, serviceVars>>
  /\ \A j \in Instances : j # i =>
       client'[j] = client[j] /\ clientStep'[j] = clientStep[j] /\ clientMap'[j] = clientMap[j]
  /\ \/ clientStep[i] = 10 /\ client'[i] = "prepared" /\ clientStep'[i] = 10
     \/ clientStep[i] < 10 /\ client'[i] = "creating" /\ clientStep'[i] = clientStep[i] + 1
  /\ client' \in [Instances -> Gone \cup Alive] /\ clientStep' \in [Instances -> 1 .. 10]

\* It maps the segment it has opened.
Remapped(i, k, m, m2) ==
  m2 \in Map /\ m2[k] = Len(objects'[i][k]) /\ \A q \in Kinds : q # k => m2[q] = m[q]

(* A call that opens a name moves the caller's map of it to the latest     *)
(* segment, and no other map.                                              *)
LEMMA RemapDone ==
  ASSUME NEW i \in Instances, NEW k \in Kinds, NEW m \in Map, NEW op \in {"open", "find"},
         objects' \in [Instances -> [Kinds -> Seq(Segment)]]
  PROVE  Remapped(i, k, m, MapAfter(i, <<op, k>>, m))
<1>1. MapAfter(i, <<op, k>>, m) = [m EXCEPT ![k] = Len(objects'[i][k])]
  BY DEF MapAfter
<1>2. Len(objects'[i][k]) \in Nat
  OBVIOUS
<1> QED
  BY <1>1, <1>2 DEF Remapped, Map

(* What each of the client's ten calls does.                               *)
LEMMA CreateCases ==
  ASSUME Types, ClientSegments, NEW i \in Instances, CreateCall(i)
  PROVE  LET n == clientStep[i]
             m == clientMap[i]
         IN
         /\ Advanced(i)
         /\ \/ n \in {1, 4} /\ Unlinked(i, "req") /\ clientMap' = clientMap
            \/ n = 2 /\ Unlinked(i, "resp") /\ clientMap' = clientMap
            \/ n \in {3, 8} /\ Unlinked(i, "data") /\ clientMap' = clientMap
            \/ n = 5 /\ OpenedAt(i, "req") /\ Remapped(i, "req", m, clientMap'[i])
            \/ n = 6 /\ Marked(i, "req", m) /\ objects'[i]["req"][m["req"]].sized
               /\ clientMap' = clientMap
            \/ n = 7 /\ Marked(i, "req", m) /\ objects'[i]["req"][m["req"]].magic
               /\ clientMap' = clientMap
            \/ n = 9 /\ OpenedAt(i, "data") /\ Remapped(i, "data", m, clientMap'[i])
            \/ n = 10 /\ Marked(i, "data", m) /\ clientMap' = clientMap
<1> DEFINE n == clientStep[i]
           m == clientMap[i]
<1>1. n \in 1 .. 10 /\ m \in Map /\ Creation[n] = CreationCall(n) /\ Len(Creation) = 10
  BY CreationCalls DEF Types
<1>2. /\ client[i] = "creating" /\ UNCHANGED <<tries, clientStarts, serviceVars>>
      /\ Perform(i, Creation[n], m)
      /\ clientMap' = [clientMap EXCEPT ![i] = MapAfter(i, Creation[n], @)]
  BY DEF CreateCall
<1>3. Advanced(i)
  <2>1. CASE n = 10
    <3>1. client' = [client EXCEPT ![i] = "prepared"] /\ clientStep' = clientStep
      BY <1>1, <2>1 DEF CreateCall
    <3> QED
      BY <1>2, <2>1, <3>1 DEF Types, Advanced, Alive
  <2>2. CASE n # 10
    <3>1. client' = client /\ clientStep' = [clientStep EXCEPT ![i] = n + 1]
      BY <1>1, <2>2 DEF CreateCall
    <3>2. n < 10 /\ n + 1 \in 1 .. 10
      BY <1>1, <2>2
    <3> QED
      BY <1>2, <3>1, <3>2 DEF Types, Advanced
  <2> QED
    BY <2>1, <2>2
<1>4. /\ n > 5 => 0 < m["req"] /\ m["req"] <= Latest(i, "req")
      /\ n > 9 => 0 < m["data"] /\ m["data"] <= Latest(i, "data")
  <2>1. n > 5 => Current(i, "req", m)
    BY <1>2 DEF ClientSegments, Past
  <2>2. n > 9 => Current(i, "data", m)
    BY <1>2 DEF ClientSegments, Past
  <2> QED
    BY <2>1, <2>2 DEF Current, Types, Kinds
<1>5. "req" \in Kinds /\ "resp" \in Kinds /\ "data" \in Kinds
  BY DEF Kinds
<1>6. ASSUME NEW k \in Kinds, NEW op \in {"unlink", "truncate", "init"},
             Creation[n] = <<op, k>>
      PROVE  clientMap' = clientMap
  <2>1. MapAfter(i, Creation[n], m) = m
    BY <1>6 DEF MapAfter
  <2> QED
    BY <1>2, <2>1 DEF Types
<1>7. ASSUME NEW k \in Kinds, Creation[n] = <<"open", k>>
      PROVE  OpenedAt(i, k) /\ Remapped(i, k, m, clientMap'[i])
  <2>1. OpenedAt(i, k)
    BY <1>2, <1>7, OpenDone
  <2>2. Remapped(i, k, m, MapAfter(i, <<"open", k>>, m))
    BY <1>1, <2>1, RemapDone DEF OpenedAt, Grown
  <2>3. clientMap'[i] = MapAfter(i, <<"open", k>>, m)
    BY <1>2, <1>7 DEF Types
  <2> QED
    BY <2>1, <2>2, <2>3
<1>8. CASE n \in {1, 4}
  <2>1. Creation[n] = <<"unlink", "req">>
    BY <1>1, <1>8 DEF CreationCall
  <2> QED
    BY <1>2, <1>3, <1>5, <1>6, <1>8, <2>1, UnlinkDone
<1>9. CASE n = 2
  <2>1. Creation[n] = <<"unlink", "resp">>
    BY <1>1, <1>9 DEF CreationCall
  <2> QED
    BY <1>2, <1>3, <1>5, <1>6, <1>9, <2>1, UnlinkDone
<1>10. CASE n \in {3, 8}
  <2>1. Creation[n] = <<"unlink", "data">>
    BY <1>1, <1>10 DEF CreationCall
  <2> QED
    BY <1>2, <1>3, <1>5, <1>6, <1>10, <2>1, UnlinkDone
<1>11. CASE n = 5
  <2>1. Creation[n] = <<"open", "req">>
    BY <1>1, <1>11 DEF CreationCall
  <2> QED
    BY <1>3, <1>5, <1>7, <1>11, <2>1
<1>12. CASE n = 6
  <2>1. Creation[n] = <<"truncate", "req">>
    BY <1>1, <1>12 DEF CreationCall
  <2>2. 0 < m["req"] /\ m["req"] <= Latest(i, "req")
    BY <1>4, <1>12
  <2> QED
    BY <1>1, <1>2, <1>3, <1>5, <1>6, <1>12, <2>1, <2>2, TruncateDone
<1>13. CASE n = 7
  <2>1. Creation[n] = <<"init", "req">>
    BY <1>1, <1>13 DEF CreationCall
  <2>2. 0 < m["req"] /\ m["req"] <= Latest(i, "req")
    BY <1>4, <1>13
  <2> QED
    BY <1>1, <1>2, <1>3, <1>5, <1>6, <1>13, <2>1, <2>2, InitDone
<1>14. CASE n = 9
  <2>1. Creation[n] = <<"open", "data">>
    BY <1>1, <1>14 DEF CreationCall
  <2> QED
    BY <1>3, <1>5, <1>7, <1>14, <2>1
<1>15. CASE n = 10
  <2>1. Creation[n] = <<"truncate", "data">>
    BY <1>1, <1>15 DEF CreationCall
  <2>2. 0 < m["data"] /\ m["data"] <= Latest(i, "data")
    BY <1>4, <1>15
  <2> QED
    BY <1>1, <1>2, <1>3, <1>5, <1>6, <1>15, <2>1, <2>2, TruncateDone
<1> QED
  BY <1>1, <1>8, <1>9, <1>10, <1>11, <1>12, <1>13, <1>14, <1>15

-----------------------------------------------------------------------------
(* What a step that calls leaves as it was.                                *)

Extended ==
  /\ Grown /\ linked' \in [Instances -> [Kinds -> BOOLEAN]]
  /\ \A j \in Instances, q \in Kinds : linked'[j][q] => Len(objects'[j][q]) > 0

(* A call on one name only extends the segments: none disappears, is       *)
(* truncated back or loses its magic.                                      *)
LEMMA Extends ==
  ASSUME Types, NEW i \in Instances, NEW k \in Kinds, NEW m,
         Unlinked(i, k) \/ OpenedAt(i, k) \/ Marked(i, k, m)
  PROVE  Extended /\ OnlyAt(i, k)
<1>1. \A j \in Instances, q \in Kinds : Len(objects[j][q]) \in Nat
  BY DEF Types
<1>2. CASE Unlinked(i, k)
  <2>1. Grown
    BY <1>1, <1>2 DEF Unlinked, Grown, Types
  <2>2. ASSUME NEW j \in Instances, NEW q \in Kinds, linked'[j][q]
        PROVE  Len(objects'[j][q]) > 0
    <3>1. linked[j][q] /\ objects' = objects
      BY <1>2, <2>2 DEF Unlinked, OnlyAt
    <3> QED
      BY <3>1 DEF Types, Latest
  <2> QED
    BY <1>2, <2>1, <2>2 DEF Unlinked, Extended
<1>3. CASE OpenedAt(i, k)
  <2>1. ASSUME NEW j \in Instances, NEW q \in Kinds, linked'[j][q]
        PROVE  Len(objects'[j][q]) > 0
    <3>1. CASE j = i /\ q = k
      BY <1>3, <3>1 DEF OpenedAt
    <3>2. CASE j # i \/ q # k
      BY <1>3, <2>1, <3>2 DEF OpenedAt, OnlyAt, Types, Latest
    <3> QED
      BY <3>1, <3>2
  <2> QED
    BY <1>3, <2>1 DEF OpenedAt, Extended
<1>4. CASE Marked(i, k, m)
  <2>1. ASSUME NEW j \in Instances, NEW q \in Kinds, linked'[j][q]
        PROVE  Len(objects'[j][q]) > 0
    <3>1. linked[j][q] /\ Len(objects[j][q]) > 0
      BY <1>4, <2>1 DEF Marked, Types, Latest
    <3>2. CASE j = i /\ q = k
      BY <1>4, <3>1, <3>2 DEF Marked
    <3>3. CASE j # i \/ q # k
      BY <1>4, <3>1, <3>3 DEF Marked, OnlyAt
    <3> QED
      BY <3>2, <3>3
  <2> QED
    BY <1>4, <2>1 DEF Marked, Extended, Types
<1> QED
  BY <1>2, <1>3, <1>4

\* A segment that is mapped stays as it was, or becomes more.
LEMMA MappedKept ==
  ASSUME Types, Extended, NEW j \in Instances, NEW q \in Kinds, NEW m \in Map,
         0 < m[q], m[q] <= Latest(j, q)
  PROVE  /\ Sized(j, q, m) => objects'[j][q][m[q]].sized
         /\ Ready(j, q, m) => objects'[j][q][m[q]].magic
         /\ objects'[j][q][m[q]].born = objects[j][q][m[q]].born
<1>1. m[q] \in 1 .. Len(objects[j][q])
  BY DEF Types, Map, Latest
<1> QED
  BY <1>1 DEF Extended, Grown, Sized, Ready

(* After a call of a client, every client's map is within what exists.     *)
LEMMA CreateMaps ==
  ASSUME Types, ClientSegments, NEW i \in Instances, CreateCall(i)
  PROVE  /\ Extended /\ \E k \in Kinds : OnlyAt(i, k)
         /\ \A j \in Instances : clientMap'[j] \in Map
         /\ \A j \in Instances, q \in Kinds : clientMap'[j][q] <= Len(objects'[j][q])
<1> DEFINE n == clientStep[i]
           m == clientMap[i]
<1>1. \A j \in Instances : clientMap[j] \in Map
      /\ \A q \in Kinds : clientMap[j][q] \in Nat /\ Len(objects[j][q]) \in Nat
           /\ clientMap[j][q] <= Len(objects[j][q])
  BY DEF Types, Map, Latest
<1>2. "req" \in Kinds /\ "resp" \in Kinds /\ "data" \in Kinds
  BY DEF Kinds
<1>3. /\ Advanced(i)
      /\ \/ clientMap' = clientMap /\ \E k \in Kinds : Unlinked(i, k) \/ Marked(i, k, m)
         \/ \E k \in Kinds : OpenedAt(i, k) /\ Remapped(i, k, m, clientMap'[i])
  BY <1>2, CreateCases
<1>4. Extended /\ \E k \in Kinds : OnlyAt(i, k)
  BY <1>3, Extends
<1>5. \A j \in Instances, q \in Kinds : clientMap[j][q] <= Len(objects'[j][q])
  <2> TAKE j \in Instances, q \in Kinds
  <2>1. Len(objects'[j][q]) >= Len(objects[j][q]) /\ Len(objects'[j][q]) \in Nat
    BY <1>4 DEF Extended, Grown
  <2> QED
    BY <1>1, <2>1
<1>6. CASE clientMap' = clientMap
  BY <1>1, <1>4, <1>5, <1>6
<1>7. CASE \E k \in Kinds : OpenedAt(i, k) /\ Remapped(i, k, m, clientMap'[i])
  <2>1. PICK k \in Kinds : OpenedAt(i, k) /\ Remapped(i, k, m, clientMap'[i])
    BY <1>7
  <2>2. ASSUME NEW j \in Instances
        PROVE  /\ clientMap'[j] \in Map
               /\ \A q \in Kinds : clientMap'[j][q] <= Len(objects'[j][q])
    <3>1. CASE j # i
      <4>1. clientMap'[j] = clientMap[j]
        BY <1>3, <3>1 DEF Advanced
      <4> QED
        BY <1>1, <1>5, <4>1
    <3>2. CASE j = i
      <4>1. clientMap'[j] \in Map
        BY <2>1, <3>2 DEF Remapped
      <4>2. ASSUME NEW q \in Kinds PROVE clientMap'[j][q] <= Len(objects'[j][q])
        <5>1. CASE q = k
          <6>1. Len(objects'[j][q]) \in Nat
            BY <1>4 DEF Extended, Grown
          <6> QED
            BY <2>1, <3>2, <5>1, <6>1 DEF Remapped
        <5>2. CASE q # k
          BY <1>5, <2>1, <3>2, <5>2 DEF Remapped
        <5> QED
          BY <5>1, <5>2
      <4> QED
        BY <4>1, <4>2
    <3> QED
      BY <3>1, <3>2
  <2> QED
    BY <1>4, <2>2
<1> QED
  BY <1>3, <1>6, <1>7

(* The client's calls keep the types.                                      *)
LEMMA CreateTypes ==
  ASSUME Types, ClientSegments, NEW i \in Instances, CreateCall(i), inOrder' = inOrder
  PROVE  Types'
<1>1. /\ Extended
      /\ \A j \in Instances : clientMap'[j] \in Map
      /\ \A j \in Instances, q \in Kinds : clientMap'[j][q] <= Len(objects'[j][q])
  BY CreateMaps
<1>2. Advanced(i)
  BY CreateCases
<1>3. clientMap' \in [Instances -> Map]
  <2>1. clientMap' = [clientMap EXCEPT ![i] = clientMap'[i]]
    BY DEF Types, CreateCall
  <2> QED
    BY <1>1, <2>1 DEF Types
<1>4. \A j \in Instances, q \in Kinds : serviceMap[j][q] <= Len(objects'[j][q])
  <2> TAKE j \in Instances, q \in Kinds
  <2>1. Len(objects'[j][q]) >= Len(objects[j][q]) /\ Len(objects'[j][q]) \in Nat
    BY <1>1 DEF Extended, Grown
  <2>2. serviceMap[j][q] \in Nat /\ serviceMap[j][q] <= Len(objects[j][q])
        /\ Len(objects[j][q]) \in Nat
    BY DEF Types, Map, Latest
  <2> QED
    BY <2>1, <2>2
<1>5. \A j \in Instances : client'[j] = "attaching" => tries'[j] < Tries
  BY <1>2 DEF Types, Advanced
<1> QED
  BY <1>1, <1>2, <1>3, <1>4, <1>5 DEF Types, Advanced, Extended, Grown, Latest, serviceVars

\* The daemon maps what it mapped.
LEMMA ServiceKept ==
  ASSUME Types, ServiceSegments, Extended, UNCHANGED serviceVars
  PROVE  ServiceSegments'
<1>1. UNCHANGED <<svc, arg, joinStep, serviceMap, serving>>
  BY DEF serviceVars
<1>2. "req" \in Kinds /\ "resp" \in Kinds
  BY DEF Kinds
<1>3. ASSUME NEW j \in Instances, NEW q \in Kinds, serviceMap[j][q] > 0
      PROVE  /\ Sized(j, q, serviceMap[j]) => objects'[j][q][serviceMap[j][q]].sized
             /\ Ready(j, q, serviceMap[j]) => objects'[j][q][serviceMap[j][q]].magic
  <2>1. serviceMap[j] \in Map /\ serviceMap[j][q] <= Latest(j, q)
    BY DEF Types
  <2>2. 0 < serviceMap[j][q]
    BY <1>3, <2>1 DEF Map
  <2> QED
    BY <2>1, <2>2, MappedKept
<1>4. \A i \in serving :
        Whole(i, "req", serviceMap[i])' /\ Whole(i, "resp", serviceMap[i])'
  <2> SUFFICES ASSUME NEW i \in serving
               PROVE  Whole(i, "req", serviceMap[i])' /\ Whole(i, "resp", serviceMap[i])'
    OBVIOUS
  <2>1. /\ i \in Instances /\ Whole(i, "req", serviceMap[i])
        /\ Whole(i, "resp", serviceMap[i])
    BY DEF ServiceSegments, Types
  <2> QED
    BY <1>1, <1>2, <1>3, <2>1 DEF Whole, Sized, Ready
<1>5. Joined(2) => Whole(arg, "req", serviceMap[arg])'
  <2> SUFFICES ASSUME Joined(2) PROVE Whole(arg, "req", serviceMap[arg])'
    OBVIOUS
  <2>1. Joined(1)
    BY DEF Joined, Types
  <2>2. arg \in Instances /\ Whole(arg, "req", serviceMap[arg])
    BY <2>1 DEF ServiceSegments
  <2> QED
    BY <1>1, <1>2, <1>3, <2>2 DEF Whole, Sized, Ready
<1>6. /\ Joined(4) => Sized(arg, "resp", serviceMap[arg])'
      /\ Joined(5) => Ready(arg, "resp", serviceMap[arg])'
  <2> SUFFICES ASSUME Joined(4)
               PROVE  /\ Sized(arg, "resp", serviceMap[arg])'
                      /\ Joined(5) => Ready(arg, "resp", serviceMap[arg])'
    BY DEF Joined, Types
  <2>1. Joined(1) /\ Joined(3)
    BY DEF Joined, Types
  <2>2. arg \in Instances /\ serviceMap[arg]["resp"] > 0
    BY <2>1 DEF ServiceSegments
  <2>3. /\ Sized(arg, "resp", serviceMap[arg])
        /\ Joined(5) => Ready(arg, "resp", serviceMap[arg])
    BY DEF ServiceSegments
  <2> QED
    BY <1>1, <1>2, <1>3, <2>2, <2>3 DEF Sized, Ready
<1> QED
  BY <1>1, <1>4, <1>5, <1>6 DEF ServiceSegments, Joined

\* Where a client is after the next call of its creation.
LEMMA AdvancedPast ==
  ASSUME Types, NEW i \in Instances, Advanced(i), NEW x \in 2 .. 9
  PROVE  /\ Past(i, x)' <=> clientStep[i] >= x
         /\ Past(i, x) <=> clientStep[i] > x
         /\ client'[i] \in {"creating", "prepared"}
         /\ \A j \in Instances : j # i => (Past(j, x)' <=> Past(j, x))
<1>1. /\ client[i] = "creating" /\ clientStep[i] \in 1 .. 10
      /\ \/ clientStep[i] = 10 /\ client'[i] = "prepared" /\ clientStep'[i] = 10
         \/ clientStep[i] < 10 /\ client'[i] = "creating" /\ clientStep'[i] = clientStep[i] + 1
      /\ \A j \in Instances : j # i => client'[j] = client[j] /\ clientStep'[j] = clientStep[j]
  BY DEF Types, Advanced
<1>2. Past(i, x)' <=> clientStep[i] >= x
  BY <1>1 DEF Past
<1>3. Past(i, x) <=> clientStep[i] > x
  BY <1>1 DEF Past
<1> QED
  BY <1>1, <1>2, <1>3 DEF Past

(* The client's calls keep what each of them has left behind for the next. *)
LEMMA CreateClient ==
  ASSUME Types, ClientSegments, NEW i \in Instances, CreateCall(i)
  PROVE  ClientSegments'
<1> DEFINE n == clientStep[i]
           m == clientMap[i]
<1>1. /\ Advanced(i)
      /\ \/ n \in {1, 4} /\ Unlinked(i, "req") /\ clientMap' = clientMap
         \/ n = 2 /\ Unlinked(i, "resp") /\ clientMap' = clientMap
         \/ n \in {3, 8} /\ Unlinked(i, "data") /\ clientMap' = clientMap
         \/ n = 5 /\ OpenedAt(i, "req") /\ Remapped(i, "req", m, clientMap'[i])
         \/ n = 6 /\ Marked(i, "req", m) /\ objects'[i]["req"][m["req"]].sized
            /\ clientMap' = clientMap
         \/ n = 7 /\ Marked(i, "req", m) /\ objects'[i]["req"][m["req"]].magic
            /\ clientMap' = clientMap
         \/ n = 9 /\ OpenedAt(i, "data") /\ Remapped(i, "data", m, clientMap'[i])
         \/ n = 10 /\ Marked(i, "data", m) /\ clientMap' = clientMap
  BY CreateCases
<1>2. "req" \in Kinds /\ "resp" \in Kinds /\ "data" \in Kinds /\ n \in 1 .. 10 /\ m \in Map
  BY DEF Kinds, Types
<1>3. Extended /\ \E k \in Kinds : OnlyAt(i, k)
  BY CreateMaps
<1>4. ASSUME NEW j \in Instances, j # i
      PROVE  /\ Past(j, 2)' /\ linked'[j]["resp"] =>
                  objects'[j]["resp"][Len(objects'[j]["resp"])].born = clientStarts'[j]
             /\ Past(j, 5)' => Current(j, "req", clientMap[j])'
             /\ Past(j, 6)' => Sized(j, "req", clientMap[j])'
             /\ Past(j, 7)' => Ready(j, "req", clientMap[j])'
             /\ Past(j, 9)' => Current(j, "data", clientMap[j])'
             /\ client'[j] \in {"attaching", "connected"} => Current(j, "resp", clientMap[j])'
             /\ client'[j] = "connected" => Whole(j, "resp", clientMap[j])'
  <2>1. /\ client'[j] = client[j] /\ clientStep'[j] = clientStep[j]
        /\ clientMap'[j] = clientMap[j] /\ clientStarts' = clientStarts
    BY <1>1, <1>4 DEF Advanced
  <2>2. \A q \in Kinds : linked'[j][q] = linked[j][q] /\ objects'[j][q] = objects[j][q]
    BY <1>3, <1>4 DEF OnlyAt
  <2> QED
    BY <1>2, <2>1, <2>2 DEF ClientSegments, Past, Current, Sized, Ready, Whole, Latest
<1>5. client'[i] \in {"creating", "prepared"} /\ clientStarts' = clientStarts
      /\ client[i] = "creating"
  BY <1>1 DEF Advanced
<1>6. ASSUME Past(i, 2)', linked'[i]["resp"]
      PROVE  objects'[i]["resp"][Len(objects'[i]["resp"])].born = clientStarts'[i]
  <2>1. n >= 2
    BY <1>1, <1>6, AdvancedPast
  <2>2. n # 2
    BY <1>1, <1>6 DEF Unlinked
  <2>3. linked'[i]["resp"] = linked[i]["resp"] /\ objects'[i]["resp"] = objects[i]["resp"]
    BY <1>1, <1>2, <2>1, <2>2 DEF Unlinked, OpenedAt, Marked, OnlyAt
  <2>4. Past(i, 2)
    BY <1>2, <1>5, <2>1, <2>2 DEF Past
  <2> QED
    BY <1>5, <1>6, <2>3, <2>4 DEF ClientSegments, Latest
<1>7. ASSUME Past(i, 5)' PROVE Current(i, "req", clientMap[i])'
  <2>1. n >= 5
    BY <1>1, <1>7, AdvancedPast
  <2>2. CASE n = 5
    BY <1>1, <1>2, <2>2 DEF OpenedAt, Remapped, Current, Latest
  <2>3. CASE n > 5
    <3>1. Current(i, "req", m)
      BY <1>5, <2>3 DEF ClientSegments, Past
    <3>2. /\ linked'[i]["req"] = linked[i]["req"]
          /\ Len(objects'[i]["req"]) = Len(objects[i]["req"])
          /\ clientMap'[i]["req"] = m["req"]
      BY <1>1, <1>2, <2>3 DEF Unlinked, OpenedAt, Marked, OnlyAt, Remapped
    <3> QED
      BY <3>1, <3>2 DEF Current, Latest
  <2> QED
    BY <1>2, <2>1, <2>2, <2>3
<1>8. n > 5 => 0 < m["req"] /\ m["req"] <= Latest(i, "req")
  <2>1. n > 5 => Current(i, "req", m)
    BY <1>5 DEF ClientSegments, Past
  <2> QED
    BY <1>2, <2>1 DEF Current, Types, Latest
<1>9. ASSUME Past(i, 6)' PROVE Sized(i, "req", clientMap[i])'
  <2>1. n >= 6
    BY <1>1, <1>9, AdvancedPast
  <2>2. CASE n = 6
    BY <1>1, <2>2 DEF Sized
  <2>3. CASE n > 6
    <3>1. Sized(i, "req", m)
      BY <1>5, <2>3 DEF ClientSegments, Past
    <3>2. clientMap'[i]["req"] = m["req"]
      BY <1>1, <1>2, <2>3 DEF Remapped
    <3>3. objects'[i]["req"][m["req"]].sized
      BY <1>2, <1>3, <1>8, <2>3, <3>1, MappedKept
    <3> QED
      BY <3>2, <3>3 DEF Sized
  <2> QED
    BY <1>2, <2>1, <2>2, <2>3
<1>10. ASSUME Past(i, 7)' PROVE Ready(i, "req", clientMap[i])'
  <2>1. n >= 7
    BY <1>1, <1>10, AdvancedPast
  <2>2. CASE n = 7
    BY <1>1, <2>2 DEF Ready
  <2>3. CASE n > 7
    <3>1. Ready(i, "req", m)
      BY <1>5, <2>3 DEF ClientSegments, Past
    <3>2. clientMap'[i]["req"] = m["req"]
      BY <1>1, <1>2, <2>3 DEF Remapped
    <3>3. objects'[i]["req"][m["req"]].magic
      BY <1>2, <1>3, <1>8, <2>3, <3>1, MappedKept
    <3> QED
      BY <3>2, <3>3 DEF Ready
  <2> QED
    BY <1>2, <2>1, <2>2, <2>3
<1>11. ASSUME Past(i, 9)' PROVE Current(i, "data", clientMap[i])'
  <2>1. n >= 9
    BY <1>1, <1>11, AdvancedPast
  <2>2. CASE n = 9
    BY <1>1, <1>2, <2>2 DEF OpenedAt, Remapped, Current, Latest
  <2>3. CASE n = 10
    <3>1. Current(i, "data", m)
      BY <1>5, <2>3 DEF ClientSegments, Past
    <3> QED
      BY <1>1, <2>3, <3>1 DEF Marked, Current, Latest
  <2> QED
    BY <1>2, <2>1, <2>2, <2>3
<1> QED
  BY <1>4, <1>5, <1>6, <1>7, <1>9, <1>10, <1>11 DEF ClientSegments, Latest

(* The client's calls keep the order of the two programs: none of them     *)
(* happens while the daemon registers.                                     *)
LEMMA CreateOrder ==
  ASSUME Types, ClientSegments, Order, NEW i \in Instances, CreateCall(i), inOrder' = inOrder
  PROVE  Order'
<1> SUFFICES ASSUME inOrder
             PROVE  /\ \A j \in Instances : client'[j] = "creating" =>
                         svc' # "registering" /\ (clientStep'[j] > 2 => ~linked'[j]["resp"])
                    /\ ~Joined(1)' /\ ~Joined(3)'
                    /\ \A j \in serving' : linked'[j]["resp"] =>
                         \A k \in Kinds : serviceMap'[j][k] = Len(objects'[j][k])
  BY DEF Order, Latest
<1> DEFINE n == clientStep[i]
           m == clientMap[i]
<1>1. /\ Advanced(i)
      /\ \/ n = 1 /\ Unlinked(i, "req")
         \/ n = 2 /\ Unlinked(i, "resp")
         \/ n > 2 /\ \E k \in {"req", "data"} :
                       Unlinked(i, k) \/ OpenedAt(i, k) \/ Marked(i, k, m)
  BY CreateCases
<1>2. /\ client[i] = "creating" /\ UNCHANGED <<svc, serving, serviceMap>>
      /\ client'[i] \in {"creating", "prepared"} /\ n \in 1 .. 10
      /\ clientStep'[i] = n + 1 \/ client'[i] = "prepared"
  BY <1>1 DEF Advanced, serviceVars, Types
<1>3. svc # "registering" /\ (n > 2 => ~linked[i]["resp"])
  BY <1>2 DEF Order
<1>4. ~Joined(1)' /\ ~Joined(3)'
  BY <1>2, <1>3 DEF Joined
<1>5. "req" \in Kinds /\ "resp" \in Kinds /\ "data" \in Kinds /\ serving \subseteq Instances
  BY DEF Kinds, Types
<1>6. ASSUME NEW j \in Instances, j # i, NEW q \in Kinds
      PROVE  linked'[j][q] = linked[j][q] /\ objects'[j][q] = objects[j][q]
  BY <1>1, <1>6 DEF Unlinked, OpenedAt, Marked, OnlyAt
<1>7. \A j \in Instances : j # i => client'[j] = client[j] /\ clientStep'[j] = clientStep[j]
  BY <1>1 DEF Advanced
<1>8. n >= 2 => ~linked'[i]["resp"]
  <2>1. CASE n = 2
    BY <1>1, <2>1 DEF Unlinked
  <2>2. CASE n > 2
    <3>1. linked'[i]["resp"] = linked[i]["resp"]
      BY <1>1, <1>5, <2>2 DEF Unlinked, OpenedAt, Marked, OnlyAt
    <3> QED
      BY <1>3, <2>2, <3>1
  <2> QED
    BY <1>2, <2>1, <2>2
<1>9. \A j \in Instances : client'[j] = "creating" =>
        svc' # "registering" /\ (clientStep'[j] > 2 => ~linked'[j]["resp"])
  BY <1>2, <1>3, <1>5, <1>6, <1>7, <1>8 DEF Order
<1>10. ASSUME NEW j \in serving, linked'[j]["resp"]
       PROVE  \A k \in Kinds : serviceMap[j][k] = Len(objects'[j][k])
  <2>1. CASE j # i
    BY <1>5, <1>6, <1>10, <2>1 DEF Order, Latest
  <2>2. CASE j = i
    <3>1. n = 1
      BY <1>2, <1>8, <1>10, <2>2
    <3>2. objects' = objects /\ linked[i]["resp"]
      BY <1>1, <1>5, <1>10, <2>2, <3>1 DEF Unlinked, OnlyAt
    <3> QED
      BY <1>10, <2>2, <3>2 DEF Order, Latest
  <2> QED
    BY <2>1, <2>2
<1> QED
  BY <1>2, <1>4, <1>9, <1>10

-----------------------------------------------------------------------------
(* The other steps of a client leave the segments as they are.             *)

Created(i) == client[i] \in {"prepared", "connecting", "attaching", "connected"}

\* Client i moves: it starts or goes, or it gets on after its creation.
Moves(i) ==
  /\ UNCHANGED <<segments, serviceVars>>
  /\ \A j \in Instances : j # i =>
       /\ client'[j] = client[j] /\ clientStep'[j] = clientStep[j]
       /\ clientMap'[j] = clientMap[j] /\ clientStarts'[j] = clientStarts[j]
  /\ \/ client'[i] \in Gone
     \/ client'[i] = "creating" /\ clientStep'[i] = 1
     \/ /\ Created(i) /\ client'[i] \in {"connecting", "attaching", "connected"}
        /\ clientStarts'[i] = clientStarts[i]
        /\ clientMap'[i]["req"] = clientMap[i]["req"]
        /\ clientMap'[i]["data"] = clientMap[i]["data"]
        /\ client'[i] \in {"attaching", "connected"} => Current(i, "resp", clientMap'[i])
        /\ client'[i] = "connected" => Whole(i, "resp", clientMap'[i])

(* Leaving the segments alone extends them.                                *)
LEMMA SameExtends ==
  ASSUME Types, UNCHANGED segments
  PROVE  Extended
<1>1. \A j \in Instances, q \in Kinds : Len(objects[j][q]) \in Nat
  BY DEF Types
<1> QED
  BY <1>1 DEF Types, segments, Extended, Grown, Latest

(* A client that starts, fails or leaves keeps what the clients' calls     *)
(* have left behind.                                                       *)
LEMMA MoveClient ==
  ASSUME Types, ClientSegments, NEW i \in Instances, Moves(i)
  PROVE  ClientSegments'
<1>1. linked' = linked /\ objects' = objects
  BY DEF Moves, segments
<1>2. ASSUME NEW j \in Instances
      PROVE  /\ Past(j, 2)' /\ linked'[j]["resp"] =>
                  objects'[j]["resp"][Len(objects'[j]["resp"])].born = clientStarts'[j]
             /\ Past(j, 5)' => Current(j, "req", clientMap[j])'
             /\ Past(j, 6)' => Sized(j, "req", clientMap[j])'
             /\ Past(j, 7)' => Ready(j, "req", clientMap[j])'
             /\ Past(j, 9)' => Current(j, "data", clientMap[j])'
             /\ client'[j] \in {"attaching", "connected"} => Current(j, "resp", clientMap[j])'
             /\ client'[j] = "connected" => Whole(j, "resp", clientMap[j])'
  <2>1. CASE j # i
    <3>1. /\ client'[j] = client[j] /\ clientStep'[j] = clientStep[j]
          /\ clientMap'[j] = clientMap[j] /\ clientStarts'[j] = clientStarts[j]
      BY <2>1 DEF Moves
    <3> QED
      BY <1>1, <3>1 DEF ClientSegments, Past, Current, Sized, Ready, Whole, Latest
  <2>2. CASE j = i /\ Created(i) /\ client'[i] \in {"connecting", "attaching", "connected"}
    <3>1. \A x \in Nat : Past(i, x)
      BY <2>2 DEF Created, Past
    <3>2. /\ linked[i]["resp"] =>
               objects[i]["resp"][Latest(i, "resp")].born = clientStarts[i]
          /\ Current(i, "req", clientMap[i]) /\ Current(i, "data", clientMap[i])
          /\ Sized(i, "req", clientMap[i]) /\ Ready(i, "req", clientMap[i])
      BY <3>1 DEF ClientSegments
    <3>3. /\ clientStarts'[i] = clientStarts[i]
          /\ clientMap'[i]["req"] = clientMap[i]["req"]
          /\ clientMap'[i]["data"] = clientMap[i]["data"]
          /\ client'[i] \in {"attaching", "connected"} => Current(i, "resp", clientMap'[i])
          /\ client'[i] = "connected" => Whole(i, "resp", clientMap'[i])
      BY <2>2 DEF Moves, Gone
    <3> QED
      BY <1>1, <2>2, <3>2, <3>3 DEF Current, Sized, Ready, Whole, Latest
  <2>3. CASE j = i /\ (client'[i] \in Gone \/ (client'[i] = "creating" /\ clientStep'[i] = 1))
    BY <2>3 DEF Past, Gone
  <2> QED
    BY <2>1, <2>2, <2>3 DEF Moves
<1> QED
  BY <1>2 DEF ClientSegments, Latest

(* A client that starts, fails or leaves touches nothing the daemon has    *)
(* mapped.                                                                 *)
LEMMA MoveService ==
  ASSUME Types, ServiceSegments, NEW i \in Instances, Moves(i)
  PROVE  ServiceSegments'
BY SameExtends, ServiceKept DEF Moves

(* A client that starts, fails or leaves keeps the order of the two        *)
(* programs, as long as it does not start while the daemon registers.      *)
LEMMA MoveOrder ==
  ASSUME Types, Order, NEW i \in Instances, Moves(i), inOrder' => inOrder,
         inOrder' /\ client'[i] = "creating" => svc # "registering"
  PROVE  Order'
<1>1. UNCHANGED <<linked, objects, svc, arg, joinStep, serviceMap, serving>>
  BY DEF Moves, segments, serviceVars
<1>2. ASSUME inOrder', NEW j \in Instances, client'[j] = "creating"
      PROVE  svc' # "registering" /\ (clientStep'[j] > 2 => ~linked'[j]["resp"])
  <2>1. CASE j # i
    BY <1>1, <1>2, <2>1 DEF Moves, Order
  <2>2. CASE j = i
    BY <1>1, <1>2, <2>2 DEF Moves, Gone
  <2> QED
    BY <2>1, <2>2
<1> QED
  BY <1>1, <1>2 DEF Order, Joined, Latest

\* Every step of a client but CreateCall is such a move.
LEMMA ClientMoves ==
  ASSUME Types, ClientSegments, NEW i \in Instances,
         \/ StartClient(i) \/ CreateFails(i) \/ StartConnect(i) \/ OpenResp(i) \/ Connected(i)
         \/ Retry(i) \/ TimeOut(i) \/ ClientDies(i),
         inOrder' \in BOOLEAN
  PROVE  Moves(i) /\ Types' /\ (client'[i] = "creating" => StartClient(i))
<1> DEFINE Kept == Moves(i) /\ Types' /\ (client'[i] = "creating" => StartClient(i))
<1>0. "req" \in Kinds /\ "resp" \in Kinds /\ "data" \in Kinds
  BY DEF Kinds
<1>1. ASSUME StartClient(i) PROVE Kept
  <2>1. /\ client'[i] = "creating" /\ clientStep'[i] = 1 /\ UNCHANGED <<segments, serviceVars>>
        /\ client' = [client EXCEPT ![i] = "creating"]
        /\ clientStep' = [clientStep EXCEPT ![i] = 1]
        /\ clientMap' = [clientMap EXCEPT ![i] = Unmapped]
        /\ tries' = [tries EXCEPT ![i] = 0]
        /\ clientStarts' = [clientStarts EXCEPT ![i] = @ + 1]
    BY <1>1 DEF StartClient, Types
  <2>2. Unmapped \in Map /\ \A q \in Kinds : Unmapped[q] = 0
    BY DEF Unmapped, Map
  <2>3. Moves(i)
    BY <2>1 DEF Moves, Types
  <2>4. \A j \in Instances, k \in Kinds : Latest(j, k) \in Nat
    BY DEF Types, Latest
  <2>5. \A j \in Instances, k \in Kinds : clientMap'[j][k] <= Latest(j, k)
    BY <2>1, <2>2, <2>4 DEF Types
  <2>6. /\ client' \in [Instances -> Gone \cup Alive] /\ clientStep' \in [Instances -> 1 .. 10]
        /\ clientMap' \in [Instances -> Map] /\ tries' \in [Instances -> Nat]
        /\ clientStarts' \in [Instances -> Nat]
    BY <2>1, <2>2 DEF Types, Alive
  <2>7. \A j \in Instances : tries'[j] <= Tries /\ (client'[j] = "attaching" => tries'[j] < Tries)
    BY <2>1, SetupAssumption DEF Types
  <2> QED
    BY <1>1, <2>1, <2>3, <2>5, <2>6, <2>7 DEF Types, segments, serviceVars, Latest
<1>2. ASSUME UNCHANGED <<segments, clientStep, clientMap, tries, clientStarts, serviceVars>>,
             NEW s \in Gone \cup {"connecting", "attaching", "connected"},
             client' = [client EXCEPT ![i] = s],
             s \notin Gone => Created(i),
             s \in {"attaching", "connected"} => Current(i, "resp", clientMap[i]),
             s = "attaching" => client[i] = "attaching",
             s = "connected" => Whole(i, "resp", clientMap[i])
      PROVE  Kept
  <2>1. Moves(i)
    BY <1>2 DEF Moves, Types, Current, Whole, Sized, Ready
  <2>2. client' \in [Instances -> Gone \cup Alive] /\ client'[i] # "creating"
    BY <1>2 DEF Types, Alive, Gone
  <2>3. \A j \in Instances : client'[j] = "attaching" => tries'[j] < Tries
    BY <1>2 DEF Types
  <2> QED
    BY <1>2, <2>1, <2>2, <2>3 DEF Types, segments, serviceVars, Latest
<1>3. ASSUME CreateFails(i) PROVE Kept
  BY <1>2, <1>3 DEF CreateFails, Gone
<1>4. ASSUME StartConnect(i) PROVE Kept
  BY <1>2, <1>4 DEF StartConnect, Created, Gone
<1>5. ASSUME OpenResp(i) PROVE Kept
  <2>1. /\ client[i] = "connecting" /\ tries[i] < Tries /\ linked[i]["resp"]
        /\ UNCHANGED <<segments, clientStep, tries, clientStarts, serviceVars>>
        /\ clientMap' = [clientMap EXCEPT ![i] = MapAfter(i, <<"find", "resp">>, @)]
        /\ client' = [client EXCEPT ![i] = "attaching"]
    BY <1>5 DEF OpenResp, FindResp, Perform
  <2>2. Remapped(i, "resp", clientMap[i], clientMap'[i])
    <3>1. objects' \in [Instances -> [Kinds -> Seq(Segment)]] /\ clientMap[i] \in Map
      BY <2>1 DEF Types, segments
    <3>2. Remapped(i, "resp", clientMap[i], MapAfter(i, <<"find", "resp">>, clientMap[i]))
      BY <1>0, <3>1, RemapDone
    <3>3. clientMap'[i] = MapAfter(i, <<"find", "resp">>, clientMap[i])
      BY <2>1 DEF Types
    <3> QED
      BY <3>2, <3>3
  <2>3. /\ clientMap'[i] \in Map /\ clientMap'[i]["resp"] = Latest(i, "resp")
        /\ \A q \in Kinds : q # "resp" => clientMap'[i][q] = clientMap[i][q]
    BY <2>1, <2>2 DEF Remapped, Latest, segments
  <2>4. Moves(i)
    BY <1>0, <2>1, <2>3 DEF Moves, Created, Current, Types
  <2>5. clientMap' \in [Instances -> Map] /\ client' \in [Instances -> Gone \cup Alive]
        /\ client'[i] # "creating"
    BY <2>1, <2>3 DEF Types, Alive
  <2>6. \A j \in Instances, k \in Kinds : clientMap'[j][k] <= Latest(j, k)
    <3>1. \A j \in Instances, k \in Kinds : Latest(j, k) \in Nat
      BY DEF Types, Latest
    <3>2. ASSUME NEW j \in Instances, NEW k \in Kinds PROVE clientMap'[j][k] <= Latest(j, k)
      <4>1. CASE j = i /\ k = "resp"
        BY <2>3, <3>1, <4>1
      <4>2. CASE j = i /\ k # "resp"
        BY <2>3, <4>2 DEF Types
      <4>3. CASE j # i
        BY <2>1, <4>3 DEF Types
      <4> QED
        BY <4>1, <4>2, <4>3
    <3> QED
      BY <3>2
  <2>7. \A j \in Instances : client'[j] = "attaching" => tries'[j] < Tries
    BY <2>1 DEF Types
  <2> QED
    BY <2>1, <2>4, <2>5, <2>6, <2>7 DEF Types, segments, serviceVars, Latest
<1>6. ASSUME Connected(i) PROVE Kept
  <2>1. /\ client[i] = "attaching" /\ client' = [client EXCEPT ![i] = "connected"]
        /\ UNCHANGED <<segments, clientStep, clientMap, tries, clientStarts, serviceVars>>
        /\ Sized(i, "resp", clientMap[i]) /\ Ready(i, "resp", clientMap[i])
    BY <1>6 DEF Connected, AttachResp, Perform, CanAttach
  <2>2. Current(i, "resp", clientMap[i])
    BY <2>1 DEF ClientSegments
  <2>3. Whole(i, "resp", clientMap[i])
    BY <1>0, <2>1, <2>2 DEF Whole, Current, Types
  <2> QED
    BY <1>2, <2>1, <2>2, <2>3 DEF Created
<1>7. ASSUME Retry(i) PROVE Kept
  <2>1. /\ client[i] \in {"connecting", "attaching"} /\ tries[i] < Tries
        /\ client' = [client EXCEPT ![i] = "connecting"]
        /\ tries' = [tries EXCEPT ![i] = @ + 1]
        /\ UNCHANGED <<segments, clientStep, clientMap, clientStarts, serviceVars>>
    BY <1>7 DEF Retry, Types
  <2>2. Moves(i)
    BY <2>1 DEF Moves, Created, Types
  <2>3. tries' \in [Instances -> Nat] /\ \A j \in Instances : tries'[j] <= Tries
    BY <2>1, SetupAssumption DEF Types
  <2>4. \A j \in Instances : client'[j] = "attaching" => tries'[j] < Tries
    BY <2>1 DEF Types
  <2>5. client' \in [Instances -> Gone \cup Alive] /\ client'[i] # "creating"
    BY <2>1 DEF Types, Alive
  <2> QED
    BY <2>1, <2>2, <2>3, <2>4, <2>5 DEF Types, segments, serviceVars, Latest
<1>8. ASSUME TimeOut(i) PROVE Kept
  BY <1>2, <1>8 DEF TimeOut, Gone
<1>9. ASSUME ClientDies(i) PROVE Kept
  BY <1>2, <1>9 DEF ClientDies, Gone
<1> HIDE DEF Kept
<1>10. Kept
  BY <1>1, <1>3, <1>4, <1>5, <1>6, <1>7, <1>8, <1>9
<1> QED
  BY <1>10 DEF Kept

-----------------------------------------------------------------------------
(* One call of a join.                                                     *)

JoiningCall(n) ==
  IF n = 1 THEN <<"find", "req">>
  ELSE IF n = 2 THEN <<"attach", "req">>
  ELSE IF n = 3 THEN <<"open", "resp">>
  ELSE IF n = 4 THEN <<"truncate", "resp">>
  ELSE IF n = 5 THEN <<"init", "resp">>
  ELSE <<"find", "data">>

(* The six calls the daemon makes to join one client, in their order.      *)
LEMMA JoiningCalls == Len(Joining) = 6 /\ \A n \in 1 .. 6 : Joining[n] = JoiningCall(n)
<1>1. Len(Joining) = 6
  BY DEF Joining
<1>2. /\ Joining[1] = <<"find", "req">> /\ Joining[2] = <<"attach", "req">>
      /\ Joining[3] = <<"open", "resp">> /\ Joining[4] = <<"truncate", "resp">>
      /\ Joining[5] = <<"init", "resp">> /\ Joining[6] = <<"find", "data">>
  BY DEF Joining
<1> HIDE DEF Joining
<1>3. ASSUME NEW n \in 1 .. 6 PROVE Joining[n] = JoiningCall(n)
  <2>1. n \in {1, 2, 3, 4, 5, 6}
    OBVIOUS
  <2> QED
    BY <1>2, <2>1 DEF JoiningCall
<1> QED
  BY <1>1, <1>3

\* The daemon maps the segment the name stands for.
FoundAt(i, k, m2) ==
  /\ linked[i][k] /\ UNCHANGED segments
  /\ Remapped(i, k, serviceMap[i], m2)

(* What each of the daemon's six calls does, when it succeeds.             *)
LEMMA JoinCases ==
  ASSUME Types, ServiceSegments, JoinCall
  PROVE  LET n == joinStep
             m == serviceMap[arg]
         IN
         /\ svc = "registering" /\ arg \in Instances /\ n \in 1 .. 6
         /\ UNCHANGED <<svc, serviceStarts, clientVars>>
         /\ \/ n < 6 /\ joinStep' = n + 1 /\ UNCHANGED <<serving, arg>>
            \/ n = 6 /\ joinStep' = 1 /\ serving' = serving \cup {arg} /\ arg' = arg + 1
         /\ \A j \in Instances : j # arg => serviceMap'[j] = serviceMap[j]
         /\ serviceMap' \in [Instances -> Map]
         /\ \/ n = 1 /\ FoundAt(arg, "req", serviceMap'[arg])
            \/ /\ n = 2 /\ UNCHANGED <<segments, serviceMap>>
               /\ Sized(arg, "req", m) /\ Ready(arg, "req", m)
            \/ n = 3 /\ OpenedAt(arg, "resp") /\ Remapped(arg, "resp", m, serviceMap'[arg])
            \/ n = 4 /\ Marked(arg, "resp", m) /\ objects'[arg]["resp"][m["resp"]].sized
               /\ serviceMap' = serviceMap
            \/ n = 5 /\ Marked(arg, "resp", m) /\ objects'[arg]["resp"][m["resp"]].magic
               /\ serviceMap' = serviceMap
            \/ n = 6 /\ FoundAt(arg, "data", serviceMap'[arg])
<1> DEFINE n == joinStep
           m == serviceMap[arg]
<1>1. /\ svc = "registering" /\ arg \in Instances /\ n \in 1 .. 6 /\ m \in Map
      /\ Joining[n] = JoiningCall(n) /\ Len(Joining) = 6
      /\ UNCHANGED <<svc, serviceStarts, clientVars>>
      /\ Perform(arg, Joining[n], m)
      /\ serviceMap' = [serviceMap EXCEPT ![arg] = MapAfter(arg, Joining[n], @)]
  BY JoiningCalls DEF JoinCall, Registering, Types
<1>2. \/ n < 6 /\ joinStep' = n + 1 /\ UNCHANGED <<serving, arg>>
      \/ n = 6 /\ joinStep' = 1 /\ serving' = serving \cup {arg} /\ arg' = arg + 1
  BY <1>1 DEF JoinCall
<1>3. \A j \in Instances : j # arg => serviceMap'[j] = serviceMap[j]
  BY <1>1 DEF Types
<1>4. "req" \in Kinds /\ "resp" \in Kinds /\ "data" \in Kinds
  BY DEF Kinds
<1>5. n > 3 => 0 < m["resp"] /\ m["resp"] <= Latest(arg, "resp")
  BY <1>1, <1>4 DEF ServiceSegments, Joined, Types, Map
<1>6. ASSUME NEW k \in Kinds, NEW op \in {"attach", "truncate", "init"}, Joining[n] = <<op, k>>
      PROVE  serviceMap' = serviceMap
  <2>1. MapAfter(arg, Joining[n], m) = m
    BY <1>6 DEF MapAfter
  <2> QED
    BY <1>1, <2>1 DEF Types
<1>7. ASSUME NEW k \in Kinds, NEW op \in {"open", "find"}, Joining[n] = <<op, k>>, Grown
      PROVE  Remapped(arg, k, m, serviceMap'[arg]) /\ serviceMap' \in [Instances -> Map]
  <2>1. Remapped(arg, k, m, MapAfter(arg, <<op, k>>, m))
    BY <1>1, <1>7, RemapDone DEF Grown
  <2>2. serviceMap'[arg] = MapAfter(arg, <<op, k>>, m)
    BY <1>1, <1>7 DEF Types
  <2>3. Remapped(arg, k, m, serviceMap'[arg])
    BY <2>1, <2>2
  <2>4. serviceMap'[arg] \in Map
    BY <2>3 DEF Remapped
  <2> QED
    BY <1>1, <2>3, <2>4 DEF Types
<1>8. ASSUME NEW k \in Kinds, Joining[n] = <<"find", k>>
      PROVE  FoundAt(arg, k, serviceMap'[arg]) /\ serviceMap' \in [Instances -> Map]
  <2>1. linked[arg][k] /\ UNCHANGED segments
    BY <1>1, <1>8 DEF Perform
  <2>2. Grown
    BY <2>1, SameExtends DEF Extended
  <2> QED
    BY <1>7, <1>8, <2>1, <2>2 DEF FoundAt
<1>9. CASE n = 1
  <2>1. Joining[n] = <<"find", "req">>
    BY <1>1, <1>9 DEF JoiningCall
  <2>2. FoundAt(arg, "req", serviceMap'[arg]) /\ serviceMap' \in [Instances -> Map]
    BY <1>4, <1>8, <2>1
  <2> QED
    BY <1>1, <1>2, <1>3, <1>9, <2>2
<1>10. CASE n = 2
  <2>1. Joining[n] = <<"attach", "req">>
    BY <1>1, <1>10 DEF JoiningCall
  <2>2. serviceMap' = serviceMap
    BY <1>4, <1>6, <2>1
  <2>3. CanAttach(arg, "req", m) /\ UNCHANGED segments
    BY <1>1, <2>1 DEF Perform
  <2> QED
    BY <1>1, <1>2, <1>3, <1>10, <2>2, <2>3 DEF CanAttach, Types
<1>11. CASE n = 3
  <2>1. Joining[n] = <<"open", "resp">>
    BY <1>1, <1>11 DEF JoiningCall
  <2>2. OpenedAt(arg, "resp")
    BY <1>1, <1>4, <2>1, OpenDone
  <2>3. Remapped(arg, "resp", m, serviceMap'[arg]) /\ serviceMap' \in [Instances -> Map]
    BY <1>4, <1>7, <2>1, <2>2 DEF OpenedAt
  <2> QED
    BY <1>1, <1>2, <1>3, <1>11, <2>2, <2>3
<1>12. CASE n = 4
  <2>1. Joining[n] = <<"truncate", "resp">>
    BY <1>1, <1>12 DEF JoiningCall
  <2>2. serviceMap' = serviceMap
    BY <1>4, <1>6, <2>1
  <2>3. Marked(arg, "resp", m) /\ objects'[arg]["resp"][m["resp"]].sized
    BY <1>1, <1>4, <1>5, <1>12, <2>1, TruncateDone
  <2> QED
    BY <1>1, <1>2, <1>3, <1>12, <2>2, <2>3 DEF Types
<1>13. CASE n = 5
  <2>1. Joining[n] = <<"init", "resp">>
    BY <1>1, <1>13 DEF JoiningCall
  <2>2. serviceMap' = serviceMap
    BY <1>4, <1>6, <2>1
  <2>3. Marked(arg, "resp", m) /\ objects'[arg]["resp"][m["resp"]].magic
    BY <1>1, <1>4, <1>5, <1>13, <2>1, InitDone
  <2> QED
    BY <1>1, <1>2, <1>3, <1>13, <2>2, <2>3 DEF Types
<1>14. CASE n = 6
  <2>1. Joining[n] = <<"find", "data">>
    BY <1>1, <1>14 DEF JoiningCall
  <2>2. FoundAt(arg, "data", serviceMap'[arg]) /\ serviceMap' \in [Instances -> Map]
    BY <1>4, <1>8, <2>1
  <2> QED
    BY <1>1, <1>2, <1>3, <1>14, <2>2
<1> QED
  BY <1>1, <1>9, <1>10, <1>11, <1>12, <1>13, <1>14

\* The segments it leaves, and what the daemon maps of them.
LEMMA JoinMaps ==
  ASSUME Types, ServiceSegments, JoinCall
  PROVE  /\ Extended /\ OnlyAt(arg, "resp")
         /\ \A j \in Instances, q \in Kinds : serviceMap'[j][q] <= Len(objects'[j][q])
<1> DEFINE m == serviceMap[arg]
<1>1. /\ arg \in Instances /\ \A j \in Instances : j # arg => serviceMap'[j] = serviceMap[j]
      /\ \/ UNCHANGED segments
         \/ OpenedAt(arg, "resp") \/ Marked(arg, "resp", m)
      /\ \/ serviceMap' = serviceMap
         \/ \E k \in Kinds : Remapped(arg, k, m, serviceMap'[arg])
  BY JoinCases DEF FoundAt, Kinds
<1>2. "resp" \in Kinds
  BY DEF Kinds
<1>3. Extended /\ OnlyAt(arg, "resp")
  <2>1. CASE UNCHANGED segments
    BY <2>1, SameExtends DEF segments, OnlyAt
  <2>2. CASE OpenedAt(arg, "resp") \/ Marked(arg, "resp", m)
    BY <1>1, <1>2, <2>2, Extends
  <2> QED
    BY <1>1, <2>1, <2>2
<1>4. \A j \in Instances, q \in Kinds :
        serviceMap[j][q] <= Len(objects'[j][q]) /\ Len(objects'[j][q]) \in Nat
  <2> TAKE j \in Instances, q \in Kinds
  <2>1. Len(objects'[j][q]) >= Len(objects[j][q]) /\ Len(objects'[j][q]) \in Nat
    BY <1>3 DEF Extended, Grown
  <2>2. serviceMap[j][q] \in Nat /\ serviceMap[j][q] <= Len(objects[j][q])
        /\ Len(objects[j][q]) \in Nat
    BY DEF Types, Map, Latest
  <2> QED
    BY <2>1, <2>2
<1>5. ASSUME NEW j \in Instances, NEW q \in Kinds
      PROVE  serviceMap'[j][q] <= Len(objects'[j][q])
  <2>1. CASE serviceMap'[j] = serviceMap[j]
    BY <1>4, <2>1
  <2>2. CASE j = arg /\ \E k \in Kinds : Remapped(arg, k, m, serviceMap'[arg])
    <3>1. PICK k \in Kinds : Remapped(arg, k, m, serviceMap'[arg])
      BY <2>2
    <3>2. CASE q = k
      BY <1>4, <2>2, <3>1, <3>2 DEF Remapped
    <3>3. CASE q # k
      BY <1>4, <2>2, <3>1, <3>3 DEF Remapped
    <3> QED
      BY <3>2, <3>3
  <2> QED
    BY <1>1, <2>1, <2>2
<1> QED
  BY <1>3, <1>5

(* The daemon's calls keep the types.                                      *)
LEMMA JoinTypes ==
  ASSUME Types, ServiceSegments, JoinCall, inOrder' = inOrder
  PROVE  Types'
<1>1. /\ Extended
      /\ \A j \in Instances, q \in Kinds : serviceMap'[j][q] <= Len(objects'[j][q])
  BY JoinMaps
<1>2. /\ arg \in Instances /\ UNCHANGED <<svc, serviceStarts, clientVars>>
      /\ serviceMap' \in [Instances -> Map]
      /\ joinStep' \in 1 .. 6 /\ arg' \in {arg, arg + 1} /\ serving' \subseteq Instances
  BY JoinCases DEF Types
<1>3. arg' \in 1 .. NumInstances + 1
  BY <1>2, SetupAssumption DEF Instances
<1>4. \A j \in Instances, q \in Kinds : clientMap[j][q] <= Len(objects'[j][q])
  <2> TAKE j \in Instances, q \in Kinds
  <2>1. Len(objects'[j][q]) >= Len(objects[j][q]) /\ Len(objects'[j][q]) \in Nat
    BY <1>1 DEF Extended, Grown
  <2>2. clientMap[j][q] \in Nat /\ clientMap[j][q] <= Len(objects[j][q])
        /\ Len(objects[j][q]) \in Nat
    BY DEF Types, Map, Latest
  <2> QED
    BY <2>1, <2>2
<1> QED
  BY <1>1, <1>2, <1>3, <1>4 DEF Types, Extended, Grown, Latest, clientVars

(* The daemon's calls keep what each of them has left behind for the next. *)
LEMMA JoinService ==
  ASSUME Types, ServiceSegments, JoinCall
  PROVE  ServiceSegments'
<1> DEFINE n == joinStep
           m == serviceMap[arg]
           m2 == serviceMap'[arg]
<1>1. /\ svc = "registering" /\ arg \in Instances /\ n \in 1 .. 6 /\ svc' = svc
      /\ \/ n < 6 /\ joinStep' = n + 1 /\ UNCHANGED <<serving, arg>>
         \/ n = 6 /\ joinStep' = 1 /\ serving' = serving \cup {arg} /\ arg' = arg + 1
      /\ \A j \in Instances : j # arg => serviceMap'[j] = serviceMap[j]
  BY JoinCases
<1>2. \/ n = 1 /\ FoundAt(arg, "req", m2)
      \/ n = 2 /\ UNCHANGED <<segments, serviceMap>>
         /\ Sized(arg, "req", m) /\ Ready(arg, "req", m)
      \/ n = 3 /\ OpenedAt(arg, "resp") /\ Remapped(arg, "resp", m, m2)
      \/ n = 4 /\ Marked(arg, "resp", m) /\ objects'[arg]["resp"][m["resp"]].sized
         /\ serviceMap' = serviceMap
      \/ n = 5 /\ Marked(arg, "resp", m) /\ objects'[arg]["resp"][m["resp"]].magic
         /\ serviceMap' = serviceMap
      \/ n = 6 /\ FoundAt(arg, "data", m2)
  BY JoinCases
<1>3. "req" \in Kinds /\ "resp" \in Kinds /\ "data" \in Kinds /\ Extended
  BY JoinMaps DEF Kinds
<1>4. /\ n > 1 => m["req"] > 0
      /\ n > 2 => Whole(arg, "req", m)
      /\ n > 3 => m["resp"] > 0
      /\ n > 4 => Sized(arg, "resp", m)
      /\ n > 5 => Ready(arg, "resp", m)
  BY <1>1 DEF ServiceSegments, Joined
<1>5. ASSUME NEW j \in Instances, NEW q \in Kinds, serviceMap[j][q] > 0
      PROVE  /\ Sized(j, q, serviceMap[j]) => objects'[j][q][serviceMap[j][q]].sized
             /\ Ready(j, q, serviceMap[j]) => objects'[j][q][serviceMap[j][q]].magic
  <2>1. serviceMap[j] \in Map /\ serviceMap[j][q] <= Latest(j, q)
    BY DEF Types
  <2>2. 0 < serviceMap[j][q]
    BY <1>5, <2>1 DEF Map
  <2> QED
    BY <1>3, <2>1, <2>2, MappedKept
\* What the daemon maps of the instance it joins, after the call.
<1>6. m2["req"] > 0
  <2>1. CASE n = 1
    <3>1. Len(objects[arg]["req"]) > 0
      BY <1>1, <1>2, <1>3, <2>1 DEF FoundAt, Types, Latest
    <3> QED
      BY <1>2, <2>1, <3>1 DEF FoundAt, Remapped, segments
  <2>2. CASE n > 1
    <3>1. m2["req"] = m["req"]
      BY <1>2, <1>3, <2>2 DEF FoundAt, Remapped
    <3> QED
      BY <1>4, <2>2, <3>1
  <2> QED
    BY <1>1, <2>1, <2>2
<1>7. n >= 2 => /\ m2["req"] > 0 /\ objects'[arg]["req"][m2["req"]].sized
                /\ objects'[arg]["req"][m2["req"]].magic
  <2> SUFFICES ASSUME n >= 2
               PROVE  /\ m2["req"] > 0 /\ objects'[arg]["req"][m2["req"]].sized
                      /\ objects'[arg]["req"][m2["req"]].magic
    OBVIOUS
  <2>1. m2["req"] = m["req"]
    BY <1>2, <1>3 DEF FoundAt, Remapped
  <2>2. Whole(arg, "req", m)
    BY <1>1, <1>2, <1>4, <1>6, <2>1 DEF Whole
  <2> QED
    BY <1>1, <1>3, <1>5, <1>6, <2>1, <2>2 DEF Whole
<1>8. n >= 3 => m2["resp"] > 0
  <2>1. CASE n = 3
    BY <1>2, <2>1 DEF OpenedAt, Remapped
  <2>2. CASE n > 3
    <3>1. m2["resp"] = m["resp"]
      BY <1>2, <1>3, <2>2 DEF FoundAt, Remapped
    <3> QED
      BY <1>4, <2>2, <3>1
  <2> QED
    BY <1>1, <2>1, <2>2
<1>9. n >= 4 => objects'[arg]["resp"][m2["resp"]].sized
  <2>1. CASE n = 4
    BY <1>2, <2>1
  <2>2. CASE n > 4
    <3>1. m2["resp"] = m["resp"]
      BY <1>2, <1>3, <2>2 DEF FoundAt, Remapped
    <3> QED
      BY <1>1, <1>3, <1>4, <1>5, <2>2, <3>1
  <2> QED
    BY <1>1, <2>1, <2>2
<1>10. n >= 5 => objects'[arg]["resp"][m2["resp"]].magic
  <2>1. CASE n = 5
    BY <1>2, <2>1
  <2>2. CASE n > 5
    <3>1. m2["resp"] = m["resp"]
      BY <1>2, <1>3, <2>2 DEF FoundAt, Remapped
    <3> QED
      BY <1>1, <1>3, <1>4, <1>5, <2>2, <3>1
  <2> QED
    BY <1>1, <2>1, <2>2
\* And of the instances it serves.
<1>11. ASSUME NEW i \in serving
       PROVE  /\ i \in Instances /\ i < arg /\ i # arg
              /\ serviceMap'[i]["req"] > 0 /\ serviceMap'[i]["resp"] > 0
              /\ objects'[i]["req"][serviceMap'[i]["req"]].sized
              /\ objects'[i]["req"][serviceMap'[i]["req"]].magic
              /\ objects'[i]["resp"][serviceMap'[i]["resp"]].sized
              /\ objects'[i]["resp"][serviceMap'[i]["resp"]].magic
  <2>1. /\ i \in Instances /\ i < arg
        /\ Whole(i, "req", serviceMap[i]) /\ Whole(i, "resp", serviceMap[i])
    BY <1>1 DEF ServiceSegments, Types
  <2>2. i # arg
    BY <1>1, <2>1 DEF Instances
  <2>3. serviceMap'[i] = serviceMap[i]
    BY <1>1, <2>1, <2>2
  <2> QED
    BY <1>3, <1>5, <2>1, <2>2, <2>3 DEF Whole
<1> HIDE DEF m2
<1>12. CASE n < 6
  <2>1. joinStep' = n + 1 /\ serving' = serving /\ arg' = arg
    BY <1>1, <1>12
  <2>2. serviceMap'[arg'] = m2
    BY <2>1 DEF m2
  <2>3. /\ Joined(1)' => arg' \in Instances /\ serviceMap'[arg']["req"] > 0
        /\ Joined(3)' => serviceMap'[arg']["resp"] > 0
    BY <1>1, <1>6, <1>8, <2>1, <2>2 DEF Joined
  <2>4. Joined(2)' => Whole(arg, "req", serviceMap[arg])'
    BY <1>1, <1>6, <1>7, <2>1, <2>2 DEF Joined, Whole, Sized, Ready
  <2>5. /\ Joined(4)' => Sized(arg, "resp", serviceMap[arg])'
        /\ Joined(5)' => Ready(arg, "resp", serviceMap[arg])'
    BY <1>1, <1>9, <1>10, <2>1, <2>2 DEF Joined, Sized, Ready
  <2>6. /\ svc' \notin Gone /\ \A i \in serving' : i < arg'
        /\ \A i \in serving' : Whole(i, "req", serviceMap[i])' /\ Whole(i, "resp", serviceMap[i])'
    BY <1>1, <1>11, <2>1 DEF Gone, Whole, Sized, Ready
  <2> QED
    BY <2>3, <2>4, <2>5, <2>6 DEF ServiceSegments
<1>13. CASE n = 6
  <2>1. joinStep' = 1 /\ serving' = serving \cup {arg} /\ arg' = arg + 1
    BY <1>1, <1>13
  <2>2. ~Joined(1)' /\ ~Joined(2)' /\ ~Joined(3)' /\ ~Joined(4)' /\ ~Joined(5)'
    BY <2>1 DEF Joined
  <2>3. svc' \notin Gone /\ \A i \in serving' : i < arg'
    BY <1>1, <1>11, <2>1 DEF Gone, Instances
  <2>4. /\ m2["req"] > 0 /\ objects'[arg]["req"][m2["req"]].sized
        /\ objects'[arg]["req"][m2["req"]].magic
        /\ m2["resp"] > 0
        /\ objects'[arg]["resp"][m2["resp"]].sized /\ objects'[arg]["resp"][m2["resp"]].magic
    BY <1>7, <1>8, <1>9, <1>10, <1>13
  <2>5. ASSUME NEW i \in serving'
        PROVE  Whole(i, "req", serviceMap[i])' /\ Whole(i, "resp", serviceMap[i])'
    <3>1. CASE i \in serving
      BY <1>11, <3>1 DEF Whole, Sized, Ready
    <3>2. CASE i = arg
      BY <2>4, <3>2 DEF Whole, Sized, Ready, m2
    <3> QED
      BY <2>1, <2>5, <3>1, <3>2
  <2> QED
    BY <2>2, <2>3, <2>5 DEF ServiceSegments
<1> QED
  BY <1>1, <1>12, <1>13

\* A client has what it had: the daemon makes a response ring only where there is none.
LEMMA JoinClient ==
  ASSUME Types, ClientSegments, ServiceSegments, JoinCall
  PROVE  ClientSegments'
<1> DEFINE m == serviceMap[arg]
<1>1. /\ arg \in Instances /\ UNCHANGED clientVars
      /\ UNCHANGED segments \/ OpenedAt(arg, "resp") \/ Marked(arg, "resp", m)
  BY JoinCases DEF FoundAt
<1>2. /\ Extended /\ OnlyAt(arg, "resp")
      /\ "req" \in Kinds /\ "resp" \in Kinds /\ "data" \in Kinds
  BY JoinMaps DEF Kinds
<1>3. UNCHANGED <<client, clientStep, clientMap, clientStarts>>
  BY <1>1 DEF clientVars
<1>4. ASSUME NEW j \in Instances, NEW q \in Kinds, Current(j, q, clientMap[j])
      PROVE  Current(j, q, clientMap[j])'
  <2>1. linked'[j][q] = linked[j][q] /\ Len(objects'[j][q]) = Len(objects[j][q])
    <3>1. CASE j # arg \/ q # "resp"
      BY <1>2, <3>1 DEF OnlyAt
    <3>2. CASE j = arg /\ q = "resp"
      BY <1>1, <1>4, <3>2 DEF OpenedAt, Marked, segments, Current
    <3> QED
      BY <3>1, <3>2
  <2> QED
    BY <1>3, <1>4, <2>1 DEF Current, Latest
<1>5. ASSUME NEW j \in Instances, NEW q \in Kinds, clientMap[j][q] > 0
      PROVE  /\ Sized(j, q, clientMap[j]) => Sized(j, q, clientMap[j])'
             /\ Ready(j, q, clientMap[j]) => Ready(j, q, clientMap[j])'
  <2>1. clientMap[j] \in Map /\ clientMap[j][q] <= Latest(j, q)
    BY DEF Types
  <2>2. 0 < clientMap[j][q]
    BY <1>5, <2>1 DEF Map
  <2>3. /\ Sized(j, q, clientMap[j]) => objects'[j][q][clientMap[j][q]].sized
        /\ Ready(j, q, clientMap[j]) => objects'[j][q][clientMap[j][q]].magic
    BY <1>2, <2>1, <2>2, MappedKept
  <2> QED
    BY <1>3, <2>3 DEF Sized, Ready
<1>6. ASSUME NEW j \in Instances, Past(j, 2), linked'[j]["resp"]
      PROVE  objects'[j]["resp"][Len(objects'[j]["resp"])].born = clientStarts'[j]
  <2>1. CASE linked[j]["resp"]
    <3>1. Len(objects'[j]["resp"]) = Len(objects[j]["resp"])
      <4>1. CASE j # arg
        BY <1>2, <4>1 DEF OnlyAt
      <4>2. CASE j = arg
        BY <1>1, <2>1, <4>2 DEF OpenedAt, Marked, segments
      <4> QED
        BY <4>1, <4>2
    <3>2. Len(objects[j]["resp"]) \in 1 .. Len(objects[j]["resp"])
      <4>1. Len(objects[j]["resp"]) \in Nat /\ Len(objects[j]["resp"]) > 0
        BY <1>2, <2>1 DEF Types, Latest
      <4> QED
        BY <4>1
    <3>3. objects'[j]["resp"][Len(objects[j]["resp"])].born
            = objects[j]["resp"][Len(objects[j]["resp"])].born
      BY <1>2, <3>2 DEF Extended, Grown
    <3> QED
      BY <1>3, <1>6, <2>1, <3>1, <3>3 DEF ClientSegments, Latest
  <2>2. CASE ~linked[j]["resp"]
    <3>1. j = arg /\ OpenedAt(arg, "resp")
      BY <1>1, <1>2, <1>6, <2>2 DEF OnlyAt, segments, Marked
    <3> QED
      BY <1>3, <2>2, <3>1 DEF OpenedAt
  <2> QED
    BY <2>1, <2>2
<1>7. ASSUME NEW j \in Instances, NEW q \in Kinds, Current(j, q, clientMap[j])
      PROVE  clientMap[j][q] > 0
  BY <1>7 DEF Types, Current
<1>8. ASSUME NEW j \in Instances
      PROVE  /\ \A x \in Nat : Past(j, x)' <=> Past(j, x)
             /\ (Past(j, 6) => Past(j, 5)) /\ (Past(j, 7) => Past(j, 6))
  <2>1. client'[j] = client[j] /\ clientStep'[j] = clientStep[j] /\ clientStep[j] \in Nat
    <3>1. clientStep[j] \in 1 .. 10
      BY DEF Types
    <3> QED
      BY <1>3, <3>1
  <2>2. \A x \in Nat : Past(j, x)' <=> Past(j, x)
    BY <2>1 DEF Past
  <2> QED
    BY <2>1, <2>2 DEF Past
<1>9. ASSUME NEW j \in Instances
      PROVE  /\ Past(j, 2)' /\ linked'[j]["resp"] =>
                  objects'[j]["resp"][Len(objects'[j]["resp"])].born = clientStarts'[j]
             /\ Past(j, 5)' => Current(j, "req", clientMap[j])'
             /\ Past(j, 6)' => Sized(j, "req", clientMap[j])'
             /\ Past(j, 7)' => Ready(j, "req", clientMap[j])'
             /\ Past(j, 9)' => Current(j, "data", clientMap[j])'
             /\ client'[j] \in {"attaching", "connected"} => Current(j, "resp", clientMap[j])'
             /\ client'[j] = "connected" => Whole(j, "resp", clientMap[j])'
  <2>1. Past(j, 2)' /\ linked'[j]["resp"] =>
          objects'[j]["resp"][Len(objects'[j]["resp"])].born = clientStarts'[j]
    BY <1>6, <1>8
  <2>2. /\ Past(j, 5)' => Current(j, "req", clientMap[j])'
        /\ Past(j, 9)' => Current(j, "data", clientMap[j])'
        /\ client'[j] \in {"attaching", "connected"} => Current(j, "resp", clientMap[j])'
    BY <1>2, <1>3, <1>4, <1>8 DEF ClientSegments
  <2>3. Past(j, 6) => clientMap[j]["req"] > 0
    <3>1. Past(j, 5) => Current(j, "req", clientMap[j])
      BY DEF ClientSegments
    <3>2. Past(j, 6) => Current(j, "req", clientMap[j])
      BY <1>8, <3>1
    <3>3. Current(j, "req", clientMap[j]) => clientMap[j]["req"] > 0
      BY <1>2, <1>7
    <3> QED
      BY <3>2, <3>3
  <2>4. /\ Past(j, 6)' => Sized(j, "req", clientMap[j])'
        /\ Past(j, 7)' => Ready(j, "req", clientMap[j])'
    <3>1. /\ Past(j, 6) => Sized(j, "req", clientMap[j])
          /\ Past(j, 7) => Ready(j, "req", clientMap[j])
      BY DEF ClientSegments
    <3>2. (Past(j, 6)' <=> Past(j, 6)) /\ (Past(j, 7)' <=> Past(j, 7))
      BY <1>8
    <3>3. Past(j, 7) => Past(j, 6)
      BY <1>8
    <3>4. clientMap[j]["req"] > 0 =>
            /\ Sized(j, "req", clientMap[j]) => Sized(j, "req", clientMap[j])'
            /\ Ready(j, "req", clientMap[j]) => Ready(j, "req", clientMap[j])'
      BY <1>2, <1>5
    <3> QED
      BY <2>3, <3>1, <3>2, <3>3, <3>4
  <2>5. client'[j] = "connected" => Whole(j, "resp", clientMap[j])'
    BY <1>2, <1>3, <1>5 DEF ClientSegments, Whole
  <2> QED
    BY <2>1, <2>2, <2>4, <2>5
<1> QED
  BY <1>9 DEF ClientSegments, Latest

(* The daemon's calls keep the order of the two programs: a ring it has    *)
(* checked stays the latest of its name, as nobody creates while it        *)
(* registers.                                                              *)
LEMMA JoinOrder ==
  ASSUME Types, ClientSegments, ServiceSegments, Order, JoinCall, inOrder' = inOrder
  PROVE  Order'
<1> DEFINE n == joinStep
           m == serviceMap[arg]
           m2 == serviceMap'[arg]
<1> SUFFICES ASSUME inOrder PROVE Order'
  BY DEF Order
<1>1. /\ svc = "registering" /\ arg \in Instances /\ n \in 1 .. 6 /\ svc' = svc
      /\ UNCHANGED clientVars
      /\ \/ n < 6 /\ joinStep' = n + 1 /\ UNCHANGED <<serving, arg>>
         \/ n = 6 /\ joinStep' = 1 /\ serving' = serving \cup {arg} /\ arg' = arg + 1
      /\ \A j \in Instances : j # arg => serviceMap'[j] = serviceMap[j]
  BY JoinCases
<1>2. \/ n = 1 /\ FoundAt(arg, "req", m2)
      \/ n = 2 /\ UNCHANGED <<segments, serviceMap>>
      \/ n = 3 /\ OpenedAt(arg, "resp") /\ Remapped(arg, "resp", m, m2)
      \/ n \in {4, 5} /\ Marked(arg, "resp", m) /\ serviceMap' = serviceMap
      \/ n = 6 /\ FoundAt(arg, "data", m2)
  BY JoinCases
<1>3. "req" \in Kinds /\ "resp" \in Kinds /\ "data" \in Kinds /\ OnlyAt(arg, "resp")
  BY JoinMaps DEF Kinds
<1>4. \A j \in Instances : client'[j] # "creating"
  BY <1>1 DEF Order, clientVars
<1>5. (n > 1 => m["req"] = Latest(arg, "req")) /\ (n > 3 => m["resp"] = Latest(arg, "resp"))
  BY <1>1 DEF Order, Joined
<1>6. m2["req"] = Len(objects'[arg]["req"])
  <2>1. CASE n = 1
    BY <1>2, <2>1 DEF FoundAt, Remapped
  <2>2. CASE n > 1
    <3>1. m2["req"] = m["req"]
      BY <1>2, <1>3, <2>2 DEF FoundAt, Remapped
    <3>2. objects'[arg]["req"] = objects[arg]["req"]
      BY <1>1, <1>3 DEF OnlyAt
    <3> QED
      BY <1>5, <2>2, <3>1, <3>2 DEF Latest
  <2> QED
    BY <1>1, <2>1, <2>2
<1>7. n >= 3 => m2["resp"] = Len(objects'[arg]["resp"])
  <2>1. CASE n = 3
    BY <1>2, <2>1 DEF Remapped
  <2>2. CASE n > 3
    <3>1. m2["resp"] = m["resp"]
      BY <1>2, <1>3, <2>2 DEF FoundAt, Remapped
    <3>2. Len(objects'[arg]["resp"]) = Len(objects[arg]["resp"])
      BY <1>2, <2>2 DEF Marked, FoundAt, segments
    <3> QED
      BY <1>5, <2>2, <3>1, <3>2 DEF Latest
  <2> QED
    BY <1>1, <2>1, <2>2
<1>8. n = 6 => m2["data"] = Len(objects'[arg]["data"])
  BY <1>2 DEF FoundAt, Remapped
<1>9. ASSUME NEW i \in serving, linked'[i]["resp"]
      PROVE  \A k \in Kinds : serviceMap'[i][k] = Len(objects'[i][k])
  <2>1. i \in Instances /\ i < arg
    BY <1>1 DEF ServiceSegments, Types
  <2>2. i # arg
    BY <1>1, <2>1 DEF Instances
  <2>3. /\ serviceMap'[i] = serviceMap[i]
        /\ \A k \in Kinds : linked'[i][k] = linked[i][k] /\ objects'[i][k] = objects[i][k]
    BY <1>1, <1>3, <2>1, <2>2 DEF OnlyAt
  <2> QED
    BY <1>3, <1>9, <2>3 DEF Order, Latest
<1>10. CASE n < 6
  <2>1. joinStep' = n + 1 /\ serving' = serving /\ arg' = arg
    BY <1>1, <1>10
  <2>2. Joined(3)' => n >= 3
    BY <1>1, <2>1 DEF Joined
  <2> QED
    BY <1>4, <1>6, <1>7, <1>9, <2>1, <2>2 DEF Order, Latest
<1>11. CASE n = 6
  <2>1. ~Joined(1)' /\ ~Joined(3)' /\ serving' = serving \cup {arg}
    BY <1>1, <1>11 DEF Joined
  <2>2. \A k \in Kinds : m2[k] = Len(objects'[arg][k])
    BY <1>6, <1>7, <1>8, <1>11 DEF Kinds
  <2> QED
    BY <1>4, <1>9, <2>1, <2>2 DEF Order, Latest
<1> QED
  BY <1>1, <1>10, <1>11

-----------------------------------------------------------------------------
(* The other steps of the daemon.                                          *)

LEMMA SameClient ==
  ASSUME ClientSegments, UNCHANGED <<segments, clientVars>>
  PROVE  ClientSegments'
BY DEF ClientSegments, segments, clientVars, Past, Current, Whole, Sized, Ready, Latest

\* The daemon starts, gives up an instance, runs or dies.
ServiceMoves ==
  StartService \/ JoinFails \/ Run \/ ServiceDies

(* The other steps of the daemon (it starts, refuses a client, ends its    *)
(* registration, stops) keep the invariant.                                *)
LEMMA ServiceMoved ==
  ASSUME Types, ServiceSegments, Order, ServiceMoves, inOrder' \in BOOLEAN,
         inOrder' => inOrder,
         StartService => (inOrder' => \A i \in Instances : client[i] # "creating")
  PROVE  Types' /\ ServiceSegments' /\ Order'
<1> DEFINE Kept == Types' /\ ServiceSegments' /\ Order'
<1>1. UNCHANGED <<linked, objects, client, clientStep, clientMap, tries, clientStarts>>
  BY DEF ServiceMoves, StartService, JoinFails, Run, ServiceDies, segments, clientVars
<1>2. \A j \in Instances, k \in Kinds : Latest(j, k) \in Nat /\ Latest(j, k)' = Latest(j, k)
  BY <1>1 DEF Types, Latest
<1>3. Unmapped \in Map /\ \A q \in Kinds : Unmapped[q] = 0
  BY DEF Unmapped, Map
<1>4. 1 \in 1 .. NumInstances + 1
  BY SetupAssumption
<1>5. ASSUME joinStep' = 1, serving' = {}, svc' \in Gone \cup {"registering"},
             serviceMap' \in [Instances -> Map], arg' \in 1 .. NumInstances + 1,
             \A j \in Instances, q \in Kinds : serviceMap'[j][q] <= Latest(j, q),
             svc' = "registering" => (inOrder' => \A i \in Instances : client[i] # "creating")
      PROVE  Kept
  <2>1. Types'
    BY <1>1, <1>2, <1>5 DEF Types
  <2>2. ServiceSegments'
    BY <1>5 DEF ServiceSegments, Joined
  <2>3. Order'
    BY <1>1, <1>5 DEF Order, Joined
  <2> QED
    BY <2>1, <2>2, <2>3
<1>6. ASSUME StartService PROVE Kept
  <2>1. /\ joinStep' = 1 /\ serving' = {} /\ svc' = "registering" /\ arg' = 1
        /\ serviceMap' = [i \in Instances |-> Unmapped]
    BY <1>6 DEF StartService
  <2>2. \A j \in Instances, q \in Kinds : serviceMap'[j][q] <= Latest(j, q)
    BY <1>2, <1>3, <2>1
  <2> QED
    BY <1>3, <1>4, <1>5, <1>6, <2>1, <2>2
<1>7. ASSUME ServiceDies PROVE Kept
  <2>1. /\ svc' = "killed" /\ serving' = {} /\ UNCHANGED <<arg, joinStep, serviceMap>>
    BY <1>7 DEF ServiceDies
  <2>2. Types'
    BY <1>1, <1>2, <2>1 DEF Types, Gone
  <2>3. ServiceSegments'
    BY <2>1 DEF ServiceSegments, Joined, Gone
  <2>4. Order'
    BY <1>1, <2>1 DEF Order, Joined
  <2> QED
    BY <2>2, <2>3, <2>4
<1>8. ASSUME Run PROVE Kept
  <2>1. /\ svc = "registering" /\ svc' = "running"
        /\ UNCHANGED <<arg, joinStep, serviceMap, serving>>
    BY <1>8 DEF Run
  <2>2. Types'
    BY <1>1, <1>2, <2>1 DEF Types, Gone
  <2>3. ServiceSegments'
    BY <1>1, <2>1 DEF ServiceSegments, Joined, Gone, Whole, Sized, Ready
  <2>4. Order'
    BY <1>1, <2>1 DEF Order, Joined, Latest
  <2> QED
    BY <2>2, <2>3, <2>4
<1>9. ASSUME JoinFails PROVE Kept
  <2>1. /\ svc = "registering" /\ arg \in Instances /\ svc' = svc /\ serving' = serving
        /\ serviceMap' = [serviceMap EXCEPT ![arg] = Unmapped]
        /\ arg' = arg + 1 /\ joinStep' = 1
    BY <1>9 DEF JoinFails, Registering
  <2>2. arg' \in 1 .. NumInstances + 1
    BY <2>1, SetupAssumption DEF Instances
  <2>3. serviceMap' \in [Instances -> Map]
    BY <1>3, <2>1 DEF Types
  <2>4. ASSUME NEW j \in Instances, NEW q \in Kinds PROVE serviceMap'[j][q] <= Latest(j, q)
    <3>1. CASE j = arg
      <4>1. serviceMap'[j] = Unmapped
        BY <2>1, <3>1 DEF Types
      <4> QED
        BY <1>2, <1>3, <4>1
    <3>2. CASE j # arg
      BY <2>1, <3>2 DEF Types
    <3> QED
      BY <3>1, <3>2
  <2>5. Types'
    BY <1>1, <1>2, <2>1, <2>2, <2>3, <2>4 DEF Types
  <2>6. \A i \in serving : i \in Instances /\ i < arg /\ serviceMap'[i] = serviceMap[i]
    <3>1. \A i \in serving : i \in Instances /\ i < arg
      BY <2>1 DEF ServiceSegments, Types
    <3> QED
      BY <2>1, <3>1 DEF Types, Instances
  <2>7. ServiceSegments'
    <3>1. \A i \in serving' : i < arg'
      BY <2>1, <2>6 DEF Instances
    <3>2. \A i \in serving' :
            Whole(i, "req", serviceMap[i])' /\ Whole(i, "resp", serviceMap[i])'
      BY <1>1, <2>1, <2>6 DEF ServiceSegments, Whole, Sized, Ready
    <3> QED
      BY <2>1, <3>1, <3>2 DEF ServiceSegments, Joined, Gone
  <2>8. Order'
    BY <1>1, <2>1, <2>6 DEF Order, Joined, Latest
  <2> QED
    BY <2>5, <2>7, <2>8
<1> HIDE DEF Kept
<1>10. Kept
  BY <1>6, <1>7, <1>8, <1>9 DEF ServiceMoves
<1> QED
  BY <1>10 DEF Kept
-----------------------------------------------------------------------------
(* The invariant, and what follows from it.                                *)

LEMMA SetupInit == Init => SetupInv
<1> SUFFICES ASSUME Init PROVE SetupInv
  OBVIOUS
<1>1. Unmapped \in Map /\ \A q \in Kinds : Unmapped[q] = 0
  BY DEF Unmapped, Map
<1>2. \A j \in Instances, k \in Kinds : Latest(j, k) = 0
  BY DEF Init, Latest
<1>3. /\ objects \in [Instances -> [Kinds -> Seq(Segment)]]
      /\ linked \in [Instances -> [Kinds -> BOOLEAN]]
      /\ \A j \in Instances, k \in Kinds : ~linked[j][k]
  BY DEF Init
<1>4. \A j \in Instances, k \in Kinds : clientMap[j][k] = 0 /\ serviceMap[j][k] = 0
  BY <1>1 DEF Init
<1>5. Types
  BY <1>1, <1>2, <1>3, <1>4, SetupAssumption DEF Init, Types, Gone
<1>6. ClientSegments
  BY DEF Init, ClientSegments, Past
<1>7. ServiceSegments
  BY DEF Init, ServiceSegments, Joined
<1>8. Order
  BY DEF Init, Order, Joined
<1> QED
  BY <1>5, <1>6, <1>7, <1>8 DEF SetupInv

(* Every step of the two programs keeps the invariant.                     *)
LEMMA SetupKept == SetupInv /\ [SetupStep]_setupVars => SetupInv'
<1> SUFFICES ASSUME Types, ClientSegments, ServiceSegments, Order, [SetupStep]_setupVars
             PROVE  SetupInv'
  BY DEF SetupInv
<1>1. inOrder \in BOOLEAN
  BY DEF Types
<1>2. ASSUME NEW i \in Instances, StartClient(i), inOrder' = (inOrder /\ svc # "registering")
      PROVE  SetupInv'
  <2>1. Moves(i) /\ Types'
    BY <1>1, <1>2, ClientMoves
  <2>2. inOrder' => inOrder /\ svc # "registering"
    BY <1>1, <1>2
  <2> QED
    BY <2>1, <2>2, MoveClient, MoveService, MoveOrder DEF SetupInv
<1>3. ASSUME StartService,
             inOrder' = (inOrder /\ \A i \in Instances : client[i] \notin {"off", "creating"})
      PROVE  SetupInv'
  <2>1. inOrder' \in BOOLEAN /\ (inOrder' => inOrder)
        /\ (inOrder' => \A i \in Instances : client[i] # "creating")
    BY <1>1, <1>3
  <2>2. Types' /\ ServiceSegments' /\ Order'
    BY <1>3, <2>1, ServiceMoved DEF ServiceMoves
  <2> QED
    BY <1>3, <2>2, SameClient DEF StartService, SetupInv
<1>4. ASSUME NEW i \in Instances, CreateCall(i), UNCHANGED inOrder PROVE SetupInv'
  <2>1. ServiceSegments'
    BY <1>4, CreateMaps, ServiceKept DEF CreateCall
  <2> QED
    BY <1>4, <2>1, CreateTypes, CreateClient, CreateOrder DEF SetupInv
<1>5. ASSUME NEW i \in Instances, UNCHANGED inOrder,
             \/ CreateFails(i) \/ StartConnect(i) \/ OpenResp(i) \/ Connected(i)
             \/ Retry(i) \/ TimeOut(i) \/ ClientDies(i)
      PROVE  SetupInv'
  <2>1. Moves(i) /\ Types'
    BY <1>1, <1>5, ClientMoves
  <2>2. client'[i] # "creating"
    BY <1>5 DEF CreateFails, StartConnect, OpenResp, Connected, Retry, TimeOut, ClientDies, Types
  <2> QED
    BY <1>1, <1>5, <2>1, <2>2, MoveClient, MoveService, MoveOrder DEF SetupInv
<1>6. ASSUME JoinCall, UNCHANGED inOrder PROVE SetupInv'
  BY <1>6, JoinTypes, JoinClient, JoinService, JoinOrder DEF SetupInv
<1>7. ASSUME JoinFails \/ Run \/ ServiceDies, UNCHANGED inOrder PROVE SetupInv'
  <2>1. ~StartService
    BY <1>7 DEF JoinFails, Run, ServiceDies, StartService, Registering, Gone
  <2>2. Types' /\ ServiceSegments' /\ Order'
    BY <1>1, <1>7, <2>1, ServiceMoved DEF ServiceMoves
  <2>3. UNCHANGED <<segments, clientVars>>
    BY <1>7 DEF JoinFails, Run, ServiceDies
  <2> QED
    BY <2>2, <2>3, SameClient DEF SetupInv
<1>8. CASE UNCHANGED setupVars
  BY <1>8 DEF setupVars, segments, clientVars, serviceVars, SetupInv, Types, ClientSegments,
     ServiceSegments, Order, Past, Current, Whole, Sized, Ready, Joined, Latest
<1> QED
  BY <1>2, <1>3, <1>4, <1>5, <1>6, <1>7, <1>8
     DEF SetupStep, Start, ClientStep, ClientBusError, ServiceStep, ServiceBusError

(* Traffic is no step of the two programs.                                 *)
LEMMA NextIsSetup ==
  ASSUME [Next]_vars
  PROVE  \/ [SetupStep]_setupVars /\ UNCHANGED traffic
         \/ TrafficStep /\ UNCHANGED setupVars
BY DEF Next, vars, TrafficStep, Ask, Answer, Receive

(* The invariant holds in every reachable state.                           *)
LEMMA SetupInvariant == Spec => []SetupInv
<1>1. SetupInv /\ [Next]_vars => SetupInv'
  BY NextIsSetup, SetupKept
<1> QED
  BY <1>1, SetupInit, PTL DEF Spec

-----------------------------------------------------------------------------
(* For whom a segment was made.                                            *)

Born(i, k, n) == objects[i][k][n].born

\* The daemon has yet to give this client of i a response ring.
Unmet(i) == client[i] = "creating" \/ (client[i] \notin Gone /\ ~linked[i]["resp"])

\* The request ring of a client is its own.  A response ring of an earlier
\* one bears a smaller number, as does every one while a client is unmet.
BirthsAt(i) ==
  /\ client[i] = "creating" /\ clientStep[i] = 5 => ~linked[i]["req"]
  /\ Past(i, 5) => Born(i, "req", Latest(i, "req")) = clientStarts[i]
  /\ \A n \in 1 .. Latest(i, "resp") : Born(i, "resp", n) <= clientStarts[i]
  /\ inOrder /\ Unmet(i) =>
       \A n \in 1 .. Latest(i, "resp") : Born(i, "resp", n) < clientStarts[i]

Births == \A i \in Instances : BirthsAt(i)

\* Numbers of segments and of their makers are numbers.
LEMMA BornNat ==
  ASSUME Types, NEW i \in Instances, NEW k \in Kinds
  PROVE  /\ Latest(i, k) \in Nat /\ clientStarts[i] \in Nat
         /\ \A n \in 1 .. Latest(i, k) : Born(i, k, n) \in Nat
<1>1. objects[i][k] \in Seq(Segment)
  BY DEF Types
<1>2. ASSUME NEW n \in 1 .. Len(objects[i][k]) PROVE objects[i][k][n] \in Segment
  BY <1>1
<1> QED
  BY <1>1, <1>2 DEF Types, Latest, Born, Segment

(* A step that leaves the segments of an instance and its client alone     *)
(* leaves their ages as they were.                                         *)
LEMMA BirthsSame ==
  ASSUME NEW i \in Instances, BirthsAt(i), objects'[i]["req"] = objects[i]["req"],
         objects'[i]["resp"] = objects[i]["resp"],
         linked'[i]["req"] = linked[i]["req"], linked'[i]["resp"] = linked[i]["resp"],
         client'[i] = client[i], clientStep'[i] = clientStep[i],
         clientStarts'[i] = clientStarts[i], inOrder' => inOrder
  PROVE  BirthsAt(i)'
BY DEF BirthsAt, Unmet, Past, Born, Latest

\* The request ring is made where its name was removed before.
LEMMA CreateBirths ==
  ASSUME Types, ClientSegments, Births, NEW i \in Instances, CreateCall(i), inOrder' = inOrder
  PROVE  Births'
<1> DEFINE n == clientStep[i]
           m == clientMap[i]
<1>1. /\ Advanced(i)
      /\ \/ n \in {1, 4} /\ Unlinked(i, "req")
         \/ n = 2 /\ Unlinked(i, "resp")
         \/ n \in {3, 8} /\ Unlinked(i, "data")
         \/ n = 5 /\ OpenedAt(i, "req")
         \/ n \in {6, 7} /\ Marked(i, "req", m)
         \/ n = 9 /\ OpenedAt(i, "data")
         \/ n = 10 /\ Marked(i, "data", m)
  BY CreateCases
<1>2. "req" \in Kinds /\ "resp" \in Kinds /\ "data" \in Kinds /\ n \in 1 .. 10 /\ n \in Nat
  BY DEF Kinds, Types
<1>3. Extended /\ \E k \in Kinds : OnlyAt(i, k)
  BY CreateMaps
<1>4. ASSUME NEW j \in Instances, j # i PROVE BirthsAt(j)'
  <2>1. client'[j] = client[j] /\ clientStep'[j] = clientStep[j] /\ clientStarts' = clientStarts
    BY <1>1, <1>4 DEF Advanced
  <2>2. \A q \in Kinds : linked'[j][q] = linked[j][q] /\ objects'[j][q] = objects[j][q]
    BY <1>3, <1>4 DEF OnlyAt
  <2> QED
    BY <1>2, <2>1, <2>2, BirthsSame DEF Births
<1>5. clientStarts' = clientStarts /\ client[i] = "creating" /\ BirthsAt(i)
  BY <1>1 DEF Advanced, Births
<1>6. objects'[i]["resp"] = objects[i]["resp"]
  BY <1>1, <1>2 DEF Unlinked, OpenedAt, Marked, OnlyAt
<1>7. client'[i] = "creating" /\ clientStep'[i] = 5 => ~linked'[i]["req"]
  <2> SUFFICES ASSUME client'[i] = "creating", clientStep'[i] = 5 PROVE ~linked'[i]["req"]
    OBVIOUS
  <2>1. n = 4
    BY <1>1, <1>2 DEF Advanced
  <2> QED
    BY <1>1, <2>1 DEF Unlinked
<1>8. ASSUME Past(i, 5)' PROVE Born(i, "req", Latest(i, "req"))' = clientStarts[i]
  <2>1. n >= 5 /\ (Past(i, 5) <=> n > 5)
    BY <1>1, <1>8, AdvancedPast
  <2>2. CASE n = 5
    <3>1. OpenedAt(i, "req") /\ ~linked[i]["req"]
      BY <1>1, <1>5, <2>2 DEF BirthsAt
    <3> QED
      BY <3>1 DEF OpenedAt, Born, Latest
  <2>3. CASE n > 5
    <3>1. /\ Past(i, 5) /\ Born(i, "req", Latest(i, "req")) = clientStarts[i]
          /\ linked[i]["req"]
      BY <1>5, <2>1, <2>3 DEF BirthsAt, ClientSegments, Current
    <3>2. Latest(i, "req") > 0 /\ Latest(i, "req") \in Nat
      BY <1>2, <3>1, BornNat DEF Types
    <3>3. Len(objects'[i]["req"]) = Latest(i, "req")
      BY <1>1, <1>2, <2>3 DEF Unlinked, OpenedAt, Marked, OnlyAt, Latest
    <3>4. objects'[i]["req"][Latest(i, "req")].born = Born(i, "req", Latest(i, "req"))
      <4>1. PICK p \in 1 .. Len(objects[i]["req"]) : p = Latest(i, "req")
        BY <3>2 DEF Latest
      <4>2. objects'[i]["req"][p].born = objects[i]["req"][p].born
        BY <1>2, <1>3, <4>1 DEF Extended, Grown
      <4> QED
        BY <4>1, <4>2 DEF Born
    <3> QED
      BY <3>1, <3>3, <3>4 DEF Born, Latest
  <2> QED
    BY <1>2, <2>1, <2>2, <2>3
<1>9. BirthsAt(i)'
  BY <1>5, <1>6, <1>7, <1>8 DEF BirthsAt, Unmet, Born, Latest
<1> QED
  BY <1>4, <1>9 DEF Births

(* A client that starts, fails, connects or leaves.                        *)
LEMMA MoveBirths ==
  ASSUME Types, Births, NEW i \in Instances, Moves(i), inOrder' => inOrder,
         \/ clientStarts' = [clientStarts EXCEPT ![i] = @ + 1]
            /\ client'[i] = "creating" /\ clientStep'[i] = 1
         \/ clientStarts' = clientStarts /\ client'[i] # "creating"
  PROVE  Births'
<1>1. linked' = linked /\ objects' = objects
  BY DEF Moves, segments
<1>2. ASSUME NEW j \in Instances, j # i PROVE BirthsAt(j)'
  BY <1>1, <1>2, BirthsSame DEF Moves, Births
<1>3. "req" \in Kinds /\ "resp" \in Kinds
  BY DEF Kinds
<1>4. BirthsAt(i) /\ clientStarts[i] \in Nat /\ Latest(i, "resp")' = Latest(i, "resp")
      /\ \A n \in 1 .. Latest(i, "resp") :
           Born(i, "resp", n) \in Nat /\ Born(i, "resp", n)' = Born(i, "resp", n)
  BY <1>1, <1>3, BornNat DEF Births, Born, Latest
<1>5. CASE clientStarts' = [clientStarts EXCEPT ![i] = @ + 1]
           /\ client'[i] = "creating" /\ clientStep'[i] = 1
  <2>1. clientStarts'[i] = clientStarts[i] + 1
    BY <1>5 DEF Types
  <2>2. ~Past(i, 5)'
    BY <1>5 DEF Past
  <2>3. \A n \in 1 .. Latest(i, "resp") : Born(i, "resp", n) <= clientStarts[i]
    BY <1>4 DEF BirthsAt
  <2>4. \A n \in 1 .. Latest(i, "resp")' : Born(i, "resp", n)' < clientStarts'[i]
    BY <1>4, <2>1, <2>3
  <2>5. \A n \in 1 .. Latest(i, "resp")' : Born(i, "resp", n)' <= clientStarts'[i]
    BY <1>4, <2>1, <2>3
  <2>6. BirthsAt(i)'
    BY <1>5, <2>2, <2>4, <2>5 DEF BirthsAt
  <2> QED
    BY <1>2, <2>6 DEF Births
<1>6. CASE clientStarts' = clientStarts /\ client'[i] # "creating"
  <2>1. client'[i] \notin Gone => Created(i) /\ client[i] \notin Gone
    BY <1>6 DEF Moves, Created, Gone
  <2>2. Past(i, 5)' => Past(i, 5)
    BY <1>6, <2>1 DEF Past, Created, Gone
  <2>3. Unmet(i)' => Unmet(i)
    BY <1>1, <1>6, <2>1 DEF Unmet
  <2>4. BirthsAt(i)'
    BY <1>1, <1>4, <1>6, <2>2, <2>3 DEF BirthsAt, Born, Latest
  <2> QED
    BY <1>2, <2>4 DEF Births
<1> QED
  BY <1>5, <1>6

(* A response ring that the daemon makes bears the number of the last      *)
(* client started.                                                         *)
LEMMA JoinBirths ==
  ASSUME Types, ServiceSegments, Order, Births, JoinCall, inOrder' = inOrder,
         NEW a \in Instances, a = arg
  PROVE  Births'
<1> DEFINE m == serviceMap[a]
<1>1. /\ svc = "registering" /\ UNCHANGED clientVars
      /\ \/ UNCHANGED segments
         \/ OpenedAt(a, "resp") \/ Marked(a, "resp", m)
  BY JoinCases DEF FoundAt
<1>2. "req" \in Kinds /\ "resp" \in Kinds /\ Extended /\ OnlyAt(a, "resp")
  BY JoinMaps DEF Kinds
<1>3. client' = client /\ clientStep' = clientStep /\ clientStarts' = clientStarts
  BY <1>1 DEF clientVars
<1>4. ASSUME NEW j \in Instances, j # a PROVE BirthsAt(j)'
  <2>1. \A q \in Kinds : linked'[j][q] = linked[j][q] /\ objects'[j][q] = objects[j][q]
    BY <1>1, <1>2, <1>4 DEF OnlyAt
  <2> QED
    BY <1>2, <1>3, <2>1, BirthsSame DEF Births
<1>5. BirthsAt(a) /\ linked'[a]["req"] = linked[a]["req"]
      /\ objects'[a]["req"] = objects[a]["req"]
  BY <1>1, <1>2 DEF Births, OnlyAt
<1>6. CASE linked' = linked /\ objects' = objects
  BY <1>1, <1>3, <1>4, <1>6, BirthsSame DEF Births
<1>7. Latest(a, "resp") \in Nat /\ clientStarts[a] \in Nat
      /\ \A n \in 1 .. Latest(a, "resp") :
           Born(a, "resp", n) \in Nat /\ Born(a, "resp", n)' = Born(a, "resp", n)
  BY <1>1, <1>2, BornNat DEF Extended, Grown, Born, Latest
<1>8. inOrder => client[a] # "creating"
  BY <1>1 DEF Order
<1>9. CASE Marked(a, "resp", m)
  <2>1. linked' = linked /\ Latest(a, "resp")' = Latest(a, "resp")
    BY <1>9 DEF Marked, Latest
  <2>2. \A n \in 1 .. Latest(a, "resp")' : Born(a, "resp", n)' <= clientStarts'[a]
    BY <1>3, <1>5, <1>7, <2>1 DEF BirthsAt
  <2>3. inOrder' /\ Unmet(a)' =>
          \A n \in 1 .. Latest(a, "resp")' : Born(a, "resp", n)' < clientStarts'[a]
    <3>1. Unmet(a)' => Unmet(a)
      BY <1>3, <2>1 DEF Unmet
    <3> QED
      BY <1>3, <1>5, <1>7, <2>1, <3>1 DEF BirthsAt
  <2>4. BirthsAt(a)'
    BY <1>3, <1>5, <2>2, <2>3 DEF BirthsAt, Past, Born, Latest
  <2> QED
    BY <1>4, <2>4 DEF Births
<1>10. CASE OpenedAt(a, "resp") /\ objects' # objects
  <2> DEFINE last == Latest(a, "resp")'
  <2>1. /\ linked'[a]["resp"] /\ last = Latest(a, "resp") + 1
        /\ objects'[a]["resp"][last].born = clientStarts[a]
    BY <1>10 DEF OpenedAt, Latest
  <2>2. ~(inOrder' /\ Unmet(a)')
    BY <1>3, <1>8, <2>1 DEF Unmet
  <2>3. ASSUME NEW n \in 1 .. last PROVE Born(a, "resp", n)' <= clientStarts'[a]
    <3>1. CASE n = last
      BY <1>3, <1>7, <2>1, <3>1 DEF Born
    <3>2. CASE n \in 1 .. Latest(a, "resp")
      BY <1>3, <1>5, <1>7, <3>2 DEF BirthsAt
    <3> QED
      BY <1>7, <2>1, <3>1, <3>2
  <2>4. BirthsAt(a)'
    BY <1>3, <1>5, <2>2, <2>3 DEF BirthsAt, Past, Born, Latest
  <2> QED
    BY <1>4, <2>4 DEF Births
<1>11. CASE OpenedAt(a, "resp") /\ objects' = objects
  <2>1. linked'[a]["resp"]
    BY <1>11 DEF OpenedAt
  <2>2. ~(inOrder' /\ Unmet(a)')
    BY <1>3, <1>8, <2>1 DEF Unmet
  <2>3. BirthsAt(a)'
    BY <1>3, <1>5, <1>11, <2>2 DEF BirthsAt, Past, Born, Latest
  <2> QED
    BY <1>4, <2>3 DEF Births
<1> QED
  BY <1>1, <1>6, <1>9, <1>10, <1>11 DEF segments

\* What is in the rings is there to stay, and a client that is gone comes
\* back under another number.
Steady ==
  /\ Extended /\ (inOrder' => inOrder)
  /\ \A i \in Instances :
       \/ clientStarts'[i] = clientStarts[i] /\ (client[i] \in Gone => client'[i] \in Gone)
       \/ clientStarts'[i] = clientStarts[i] + 1

(* Every step of the two programs keeps the ages of the segments.          *)
LEMMA BirthsKept ==
  ASSUME SetupInv, Births, [SetupStep]_setupVars
  PROVE  Births' /\ Steady
<1> DEFINE Kept == Births' /\ Steady
<1>0. /\ Types /\ ClientSegments /\ ServiceSegments /\ Order /\ inOrder \in BOOLEAN
      /\ UNCHANGED segments => Extended
  BY SameExtends DEF SetupInv, Types
<1>1. ASSUME NEW i \in Instances, StartClient(i), inOrder' = (inOrder /\ svc # "registering")
      PROVE  Kept
  <2>1. Moves(i) /\ inOrder' \in BOOLEAN
    BY <1>0, <1>1, ClientMoves
  <2>2. /\ clientStarts' = [clientStarts EXCEPT ![i] = @ + 1]
        /\ client' = [client EXCEPT ![i] = "creating"]
        /\ client'[i] = "creating" /\ clientStep'[i] = 1 /\ UNCHANGED segments
    BY <1>0, <1>1 DEF StartClient, Types
  <2>3. Births'
    BY <1>0, <1>1, <2>1, <2>2, MoveBirths
  <2>4. Steady
    BY <1>0, <1>1, <2>2 DEF Steady, Types
  <2> QED
    BY <2>3, <2>4
<1>2. ASSUME NEW i \in Instances, CreateCall(i), UNCHANGED inOrder PROVE Kept
  <2>1. Births'
    BY <1>0, <1>2, CreateBirths
  <2>2. Extended /\ Advanced(i)
    BY <1>0, <1>2, CreateMaps, CreateCases
  <2>3. clientStarts' = clientStarts /\ \A j \in Instances : client[j] \in Gone => client'[j] \in Gone
    BY <2>2 DEF Advanced, Gone
  <2> QED
    BY <1>2, <2>1, <2>2, <2>3 DEF Steady
<1>3. ASSUME NEW i \in Instances, UNCHANGED inOrder,
             \/ CreateFails(i) \/ StartConnect(i) \/ OpenResp(i) \/ Connected(i)
             \/ Retry(i) \/ TimeOut(i) \/ ClientDies(i)
      PROVE  Kept
  <2>1. Moves(i)
    BY <1>0, <1>3, ClientMoves
  <2>2. /\ client'[i] # "creating" /\ client[i] \notin Gone /\ clientStarts' = clientStarts
        /\ \A j \in Instances : j # i => client'[j] = client[j]
    BY <1>0, <1>3 DEF CreateFails, StartConnect, OpenResp, Connected, Retry, TimeOut,
       ClientDies, Types, Gone
  <2>3. Births'
    BY <1>0, <1>3, <2>1, <2>2, MoveBirths
  <2> QED
    BY <1>0, <1>3, <2>1, <2>2, <2>3 DEF Steady, Moves
<1>4. ASSUME JoinCall, UNCHANGED inOrder PROVE Kept
  <2>1. Extended /\ UNCHANGED clientVars /\ arg \in Instances
    BY <1>0, <1>4, JoinMaps, JoinCases
  <2>2. Births'
    BY <1>0, <1>4, <2>1, JoinBirths
  <2> QED
    BY <1>4, <2>1, <2>2 DEF Steady, clientVars
<1>5. ASSUME UNCHANGED <<segments, clientVars>>, inOrder' => inOrder PROVE Kept
  BY <1>0, <1>5, BirthsSame DEF Births, Steady, segments, clientVars
<1>6. ASSUME StartService \/ JoinFails \/ Run \/ ServiceDies, inOrder' => inOrder PROVE Kept
  <2>1. UNCHANGED <<segments, clientVars>>
    BY <1>6 DEF StartService, JoinFails, Run, ServiceDies
  <2> QED
    BY <1>5, <1>6, <2>1
<1>7. ASSUME UNCHANGED setupVars PROVE Kept
  <2>1. UNCHANGED <<segments, clientVars>> /\ inOrder' = inOrder
    BY <1>7 DEF setupVars
  <2> QED
    BY <1>5, <2>1
<1> HIDE DEF Kept
<1>8. ASSUME Start PROVE Kept
  <2>1. ASSUME \E i \in Instances : StartClient(i) /\ inOrder' = (inOrder /\ svc # "registering")
        PROVE  Kept
    BY <1>1, <2>1
  <2>2. ASSUME StartService,
               inOrder' = (inOrder /\ \A i \in Instances : client[i] \notin {"off", "creating"})
        PROVE  Kept
    <3>1. inOrder' => inOrder
      BY <1>0, <2>2
    <3> QED
      BY <1>6, <2>2, <3>1
  <2> QED
    BY <1>8, <2>1, <2>2 DEF Start
<1>9. ASSUME UNCHANGED inOrder,
             \/ \E i \in Instances : ClientStep(i) \/ StartConnect(i) \/ ClientDies(i)
             \/ ServiceStep \/ ServiceDies
      PROVE  Kept
  <2>1. inOrder' => inOrder
    BY <1>9
  <2> QED
    BY <1>2, <1>3, <1>4, <1>6, <1>9, <2>1
       DEF ClientStep, ClientBusError, ServiceStep, ServiceBusError
<1>10. Kept
  BY <1>7, <1>8, <1>9 DEF SetupStep
<1> QED
  BY <1>10 DEF Kept
-----------------------------------------------------------------------------
(* What travels over the rings.                                            *)

Messages == [inst : Instances, ring : Nat, from : Nat]

\* A request is in the ring that its sender made; in the documented order an
\* answer in a ring that was made for a living client is to that client.
Mail ==
  /\ requests \subseteq Messages /\ answers \subseteq Messages
  /\ \A q \in requests : q.ring \in 1 .. Latest(q.inst, "req")
                         /\ q.from = Born(q.inst, "req", q.ring)
  /\ \A a \in answers : a.ring \in 1 .. Latest(a.inst, "resp")
  /\ inOrder =>
       \A a \in answers :
         /\ client[a.inst] \notin Gone
         /\ Born(a.inst, "resp", a.ring) = clientStarts[a.inst]
         => a.from = clientStarts[a.inst]

(* A step of the two programs takes no message out of its ring.            *)
LEMMA SetupMail ==
  ASSUME Types, Births, Mail, Steady, UNCHANGED traffic
  PROVE  Mail'
<1>1. requests' = requests /\ answers' = answers /\ "req" \in Kinds /\ "resp" \in Kinds
  BY DEF traffic, Kinds
<1>2. ASSUME NEW i \in Instances, NEW k \in Kinds, NEW n \in 1 .. Latest(i, k)
      PROVE  n \in 1 .. Latest(i, k)' /\ Born(i, k, n)' = Born(i, k, n)
  <2>1. Len(objects'[i][k]) >= Len(objects[i][k]) /\ Len(objects'[i][k]) \in Nat
        /\ Len(objects[i][k]) \in Nat
    BY DEF Steady, Extended, Grown, Types
  <2>2. n \in 1 .. Len(objects[i][k])
    BY DEF Latest
  <2> QED
    BY <2>1, <2>2 DEF Steady, Extended, Grown, Latest, Born
<1>3. ASSUME NEW q \in requests
      PROVE  q.ring \in 1 .. Latest(q.inst, "req")' /\ q.from = Born(q.inst, "req", q.ring)'
  BY <1>1, <1>2 DEF Mail, Messages
<1>4. ASSUME NEW a \in answers PROVE a.ring \in 1 .. Latest(a.inst, "resp")'
  BY <1>1, <1>2 DEF Mail, Messages
<1>5. ASSUME inOrder', NEW a \in answers, client'[a.inst] \notin Gone,
             Born(a.inst, "resp", a.ring)' = clientStarts'[a.inst]
      PROVE  a.from = clientStarts'[a.inst]
  <2>1. PICK i \in Instances : i = a.inst
    BY DEF Mail, Messages
  <2>2. PICK n \in 1 .. Latest(i, "resp") : n = a.ring
    BY <2>1 DEF Mail
  <2>3. /\ Born(i, "resp", n)' = Born(i, "resp", n) /\ Born(i, "resp", n) \in Nat
        /\ clientStarts[i] \in Nat /\ Born(i, "resp", n) <= clientStarts[i]
    BY <1>1, <1>2, BornNat DEF Births, BirthsAt
  <2>4. clientStarts'[i] = clientStarts[i] /\ client[i] \notin Gone /\ inOrder
    BY <1>5, <2>1, <2>2, <2>3 DEF Steady
  <2> QED
    BY <1>5, <2>1, <2>2, <2>3, <2>4 DEF Mail
<1> QED
  BY <1>1, <1>3, <1>4, <1>5 DEF Mail

(* A client asks through the ring it has made.                             *)
LEMMA AskMail ==
  ASSUME SetupInv, Births, Mail, NEW i \in Instances, Ask(i)
  PROVE  Mail'
<1>1. /\ client[i] = "connected" /\ UNCHANGED <<setupVars, answers>>
      /\ requests' = requests \cup {Message(i, clientMap[i]["req"], clientStarts[i])}
  BY DEF Ask
<1>2. PICK q : q = Message(i, clientMap[i]["req"], clientStarts[i])
  OBVIOUS
<1>3. "req" \in Kinds /\ Types
  BY DEF Kinds, SetupInv
<1>4. Past(i, 5) /\ Current(i, "req", clientMap[i])
  BY <1>1 DEF Past, SetupInv, ClientSegments
<1>5. /\ Latest(i, "req") \in Nat /\ Latest(i, "req") > 0 /\ clientStarts[i] \in Nat
      /\ clientMap[i]["req"] = Latest(i, "req")
      /\ Born(i, "req", Latest(i, "req")) = clientStarts[i]
  BY <1>3, <1>4, BornNat DEF Current, Births, BirthsAt, Types
<1>6. /\ q \in Messages /\ q.inst = i /\ q.ring = Latest(i, "req") /\ q.from = clientStarts[i]
  BY <1>2, <1>5 DEF Message, Messages
<1>7. q.ring \in 1 .. Latest(q.inst, "req") /\ q.from = Born(q.inst, "req", q.ring)
  BY <1>5, <1>6
<1> QED
  BY <1>1, <1>2, <1>6, <1>7 DEF Mail, setupVars, segments, clientVars, Latest, Born

(* In the documented order, the daemon that answers into the ring of a     *)
(* living client reads the requests of that client.                        *)
LEMMA AnswerMail ==
  ASSUME SetupInv, Births, Mail, NEW i \in Instances, Answer(i)
  PROVE  Mail'
<1>1. i \in serving /\ UNCHANGED setupVars /\ "req" \in Kinds /\ "resp" \in Kinds
  BY DEF Answer, Kinds
<1>2. PICK q \in In(requests, i, serviceMap[i]["req"]) :
        /\ requests' = requests \ {q}
        /\ answers' = answers \cup {Message(i, serviceMap[i]["resp"], q.from)}
  BY DEF Answer
<1>3. q \in requests /\ q.inst = i /\ q.ring = serviceMap[i]["req"] /\ q \in Messages
  BY <1>2 DEF In, Mail
<1>4. PICK a : a = Message(i, serviceMap[i]["resp"], q.from)
  OBVIOUS
<1>5. /\ serviceMap[i]["resp"] \in 1 .. Latest(i, "resp")
      /\ Latest(i, "resp") \in Nat
  <2>1. Types /\ serviceMap[i]["resp"] > 0
    BY <1>1 DEF SetupInv, ServiceSegments, Whole
  <2>2. serviceMap[i]["resp"] \in Nat /\ serviceMap[i]["resp"] <= Latest(i, "resp")
    BY <1>1, <2>1 DEF Types, Map
  <2> QED
    BY <1>1, <2>1, <2>2, BornNat
<1>6. /\ a \in Messages /\ a.inst = i /\ a.ring = serviceMap[i]["resp"] /\ a.from = q.from
  BY <1>3, <1>4, <1>5 DEF Message, Messages
<1>7. ASSUME inOrder, client[i] \notin Gone,
             Born(i, "resp", serviceMap[i]["resp"]) = clientStarts[i]
      PROVE  q.from = clientStarts[i]
  <2>1. ~Unmet(i)
    <3> SUFFICES ASSUME Unmet(i) PROVE FALSE
      OBVIOUS
    <3>1. Born(i, "resp", serviceMap[i]["resp"]) < clientStarts[i]
      BY <1>5, <1>7 DEF Births, BirthsAt
    <3>2. clientStarts[i] \in Nat
      BY DEF SetupInv, Types
    <3> QED
      BY <1>7, <3>1, <3>2
  <2>2. linked[i]["resp"] /\ Past(i, 5)
    BY <1>7, <2>1 DEF Unmet, Past, SetupInv, Types, Alive
  <2>3. serviceMap[i]["req"] = Latest(i, "req")
    BY <1>1, <1>7, <2>2 DEF SetupInv, Order
  <2>4. Born(i, "req", Latest(i, "req")) = clientStarts[i]
    BY <2>2 DEF Births, BirthsAt
  <2> QED
    BY <1>3, <2>3, <2>4 DEF Mail
<1>8. /\ requests' \subseteq requests /\ answers' = answers \cup {a}
      /\ UNCHANGED <<linked, objects, client, clientStarts, inOrder>>
  BY <1>1, <1>2, <1>4 DEF setupVars, segments, clientVars
<1>9. inOrder /\ client[a.inst] \notin Gone
      /\ Born(a.inst, "resp", a.ring) = clientStarts[a.inst] => a.from = clientStarts[a.inst]
  BY <1>6, <1>7
<1> QED
  BY <1>5, <1>6, <1>8, <1>9 DEF Mail, Latest, Born

(* All of it, in every reachable state.                                    *)
LEMMA MailInvariant == Spec => [](SetupInv /\ Births /\ Mail)
<1>1. Init => Births /\ Mail
  <2> SUFFICES ASSUME Init PROVE Births /\ Mail
    OBVIOUS
  <2>1. \A j \in Instances : client[j] = "off" /\ Latest(j, "resp") = 0
    BY DEF Init, Latest, Kinds
  <2> QED
    BY <2>1 DEF Init, Births, BirthsAt, Unmet, Past, Gone, Mail
<1>2. ASSUME SetupInv, Births, Mail, [Next]_vars PROVE SetupInv' /\ Births' /\ Mail'
  <2>1. CASE [SetupStep]_setupVars /\ UNCHANGED traffic
    <3>1. SetupInv' /\ Births' /\ Steady
      BY <1>2, <2>1, SetupKept, BirthsKept
    <3> QED
      BY <1>2, <2>1, <3>1, SetupMail DEF SetupInv
  <2>2. CASE TrafficStep /\ UNCHANGED setupVars
    <3>1. SetupInv' /\ Births'
      BY <1>2, <2>2, SetupKept, BirthsKept
    <3>2. ASSUME NEW i \in Instances, Receive(i) PROVE Mail'
      <4>1. requests' = requests /\ answers' \subseteq answers
            /\ UNCHANGED <<objects, client, clientStarts, inOrder>>
        BY <3>2 DEF Receive, setupVars, segments, clientVars
      <4> QED
        BY <1>2, <4>1 DEF Mail, Latest, Born
    <3>3. Mail'
      BY <1>2, <2>2, <3>2, AskMail, AnswerMail DEF TrafficStep
    <3> QED
      BY <3>1, <3>3
  <2> QED
    BY <1>2, <2>1, <2>2, NextIsSetup
<1> QED
  BY <1>1, <1>2, SetupInit, PTL DEF Spec

(* TypeOK.                                                                 *)
THEOREM SetupTypes == Spec => []TypeOK
<1>1. SetupInv => TypeOK
  <2> SUFFICES ASSUME Types PROVE TypeOK
    BY DEF SetupInv
  <2>1. DOMAIN Joining = 1 .. 6
    BY DEF Joining
  <2>2. tries \in [Instances -> 0 .. Tries]
    BY SetupAssumption DEF Types
  <2>3. ASSUME NEW i \in Instances, NEW k \in Kinds
        PROVE  {clientMap[i][k], serviceMap[i][k]} \subseteq 0 .. Latest(i, k)
    <3>1. clientMap[i][k] \in Nat /\ serviceMap[i][k] \in Nat /\ Latest(i, k) \in Nat
      BY DEF Types, Map, Latest
    <3>2. clientMap[i][k] <= Latest(i, k) /\ serviceMap[i][k] <= Latest(i, k)
      BY DEF Types
    <3> QED
      BY <3>1, <3>2
  <2> QED
    BY <2>1, <2>2, <2>3 DEF Types, TypeOK, Alive
<1> QED
  BY <1>1, SetupInvariant, PTL

(* RingsReady: in any order of starts and deaths, a ring that the daemon   *)
(* serves or a client is connected through has its size and its magic.     *)
THEOREM SetupReady == Spec => []RingsReady
<1>1. SetupInv => RingsReady
  <2> SUFFICES ASSUME SetupInv, NEW i \in Instances, NEW k \in {"req", "resp"}
               PROVE  /\ i \in serving => Sized(i, k, serviceMap[i]) /\ Ready(i, k, serviceMap[i])
                      /\ client[i] = "connected" =>
                           Sized(i, k, clientMap[i]) /\ Ready(i, k, clientMap[i])
    BY DEF RingsReady
  <2>1. i \in serving => Sized(i, k, serviceMap[i]) /\ Ready(i, k, serviceMap[i])
    BY DEF SetupInv, ServiceSegments, Whole
  <2>2. client[i] = "connected" => Sized(i, k, clientMap[i]) /\ Ready(i, k, clientMap[i])
    BY DEF SetupInv, ClientSegments, Past, Whole
  <2> QED
    BY <2>1, <2>2
<1> QED
  BY <1>1, SetupInvariant, PTL

(* FreshResponses: in the documented order, whatever a connected client    *)
(* finds in its response ring answers a request of its own process: no     *)
(* restart of either side, and no request left behind, brings it another's.*)
THEOREM SetupFresh == Spec => []FreshResponses
<1>1. SetupInv /\ Births /\ Mail => FreshResponses
  <2> SUFFICES ASSUME SetupInv, Mail, inOrder, NEW i \in Instances, client[i] = "connected",
                      NEW a \in In(answers, i, clientMap[i]["resp"])
               PROVE  a.from = clientStarts[i]
    BY DEF FreshResponses
  <2>1. a \in answers /\ a.inst = i /\ a.ring = clientMap[i]["resp"]
    BY DEF In
  <2>2. Born(i, "resp", clientMap[i]["resp"]) = clientStarts[i]
    BY DEF SetupInv, ClientSegments, Past, Current, Born
  <2> QED
    BY <2>1, <2>2 DEF Mail, Gone
<1> QED
  BY <1>1, MailInvariant, PTL

(* Paired: in the documented order, a connected client and the daemon that *)
(* serves it map the same three segments, whichever of them was restarted. *)
THEOREM SetupPaired == Spec => []Paired
<1>1. SetupInv => Paired
  <2> SUFFICES ASSUME SetupInv, inOrder, NEW i \in serving, client[i] = "connected"
               PROVE  clientMap[i] = serviceMap[i]
    BY DEF Paired
  <2>1. i \in Instances /\ clientMap[i] \in Map /\ serviceMap[i] \in Map
    BY DEF SetupInv, Types
  <2>2. /\ Current(i, "req", clientMap[i]) /\ Current(i, "resp", clientMap[i])
        /\ Current(i, "data", clientMap[i])
    BY <2>1 DEF SetupInv, ClientSegments, Past
  <2>3. \A k \in Kinds : serviceMap[i][k] = Latest(i, k)
    BY <2>2 DEF SetupInv, Order, Current
  <2>4. \A k \in Kinds : clientMap[i][k] = serviceMap[i][k]
    BY <2>2, <2>3 DEF Current, Kinds
  <2> QED
    BY <2>1, <2>4 DEF Map
<1> QED
  BY <1>1, SetupInvariant, PTL
=============================================================================
