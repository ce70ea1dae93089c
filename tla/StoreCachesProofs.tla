------------------------- MODULE StoreCachesProofs -------------------------
(* Proofs about StoreCaches, for any threads, names, documents, copies in   *)
(* the root and rewrites.                                                   *)
EXTENDS StoreCaches, SequenceTheorems, TLAPS

Ops == Tables \cup Uncached
Keys(table) == IF table = "inventory" THEN {Whole} ELSE Names

(* What a read answers: a failure, a document, or the inventory's listing.  *)
Codes == {"none", "io_error", "not_found", "invalid_metadata", "invalid_argument"}
Good == [code : Codes, doc : {NoDoc}] \cup [code : {"ok"}, doc : Docs]
Entries == [name : Nodes, kind : {"group", "unrecognised", "array"}, array : Nat]
Listings == [code : {"ok"}, doc : {"listing"}, entries : SUBSET Entries]
Answers(table) == IF table = "inventory" THEN Good \cup Listings ELSE Good

Frames == [op : Ops, name : Names \cup {Whole},
           at : {"lock", "compute", "have", "each", "node", "array"},
           todo : SUBSET Nodes, entries : SUBSET Entries]
Waiting == {"have", "node", "array"}
NextOf(f) == CHOOSE m \in f.todo : TRUE

(* What a read inside another asks: which table, and for which name.        *)
AsksTable(f) ==
    CASE f.at = "have" -> Consults(f.op)
      [] f.at = "node" -> "node_metadata"
      [] OTHER -> "array_metadata"
AsksName(f) == IF f.at = "have" THEN f.name ELSE NextOf(f)

(* Where a read can be.                                                     *)
FrameOK(f) ==
    /\ f \in Frames
    /\ f.op = "inventory" <=> f.name = Whole
    /\ f.at = "lock" => f.op \in Tables
    /\ f.at \in {"lock", "compute"} => f.entries = {}
    /\ f.at = "compute" =>
         \/ f.op \in {"node_metadata", "inventory"}
         \/ f.op = "array_metadata" /\ Canon[f.name] = Refused
    /\ f.at = "have" =>
         /\ f.op \notin {"node_metadata", "inventory"}
         /\ f.op = "array_metadata" => Canon[f.name] # Refused
    /\ f.at \in {"each", "node", "array"} => f.op = "inventory"
    /\ f.at \in {"node", "array"} => f.todo # {}

(* A read is inside the one below it, which waits for it, and its table is  *)
(* below all of theirs.                                                     *)
Nested(s) ==
    /\ \A i \in 1 .. Len(s) : FrameOK(s[i])
    /\ \A i \in 1 .. Len(s) - 1 :
         /\ s[i].at \in Waiting
         /\ s[i + 1].op = AsksTable(s[i]) /\ s[i + 1].name = AsksName(s[i])
    /\ \A i, j \in 1 .. Len(s) : i < j => Rank(s[i].op) > Rank(s[j].op)

Types ==
    /\ own \in [Nodes -> Docs \cup {"garbage", "absent"}]
    /\ was \in [Nodes -> SUBSET (Docs \cup {"garbage", "absent"})]
    /\ failing \in BOOLEAN /\ has_consolidated_metadata \in BOOLEAN
    /\ copies \in SUBSET (Nodes \X Docs)
    /\ DOMAIN answers = Tables
    /\ \A table \in Tables :
         /\ DOMAIN answers[table] = Keys(table)
         /\ \A key \in Keys(table) : answers[table][key] \in Seq(Answers(table))
    /\ lock \in [Tables -> Threads \cup {None}]
    /\ stack \in [Threads -> Seq(Frames)]
    /\ ret \in [Threads -> Good \cup Listings]
    /\ recovered \in [Threads -> BOOLEAN]
    /\ made \in [Reading -> [Names -> Nat]]

(* An answer has been found and is not to be asked for again.               *)
Settled(table, key) == ~ MustCompute(table, key)
Found(table, key) == Settled(table, key) /\ Last(answers[table][key]).code = "ok"

(* A computation under way has its table to itself, and an entry it may     *)
(* write; and a lock is held for a computation.                             *)
Computes(t) ==
    \A i \in 1 .. Len(stack[t]) :
        LET f == stack[t][i] IN
        f.op \in Tables /\ f.at # "lock" =>
            lock[f.op] = t /\ MustCompute(f.op, Key(f.op, f.name))
Holds(t) ==
    \A table \in Tables : lock[table] = t =>
        \E i \in 1 .. Len(stack[t]) : stack[t][i].op = table /\ stack[t][i].at # "lock"

(* What a read has been told by the one it asked is what the table says,    *)
(* unless it was that the read could not be made.                           *)
Told(t) ==
    stack[t] # <<>> /\ Top(t).at \in Waiting =>
        LET table == AsksTable(Top(t))
            key == Key(table, AsksName(Top(t)))
        IN  /\ ret[t] \in Good
            /\ ret[t].code # "io_error" =>
                 Settled(table, key) /\ Last(answers[table][key]) = ret[t]

(* Storage that has recovered stays so, and nothing below a call made since *)
(* has failed for it.                                                       *)
Forgets(t) ==
    recovered[t] =>
        /\ ~ failing
        /\ stack[t] = <<>> \/ Top(t).at \in Waiting => ret[t].code # "io_error"

(* An entry of the inventory says of its node what the tables settled on.   *)
EntryStands(e) ==
    LET node == Last(answers["node_metadata"][e.name]) IN
    /\ Settled("node_metadata", e.name) /\ node.code \in {"ok", "invalid_metadata"}
    /\ e.kind = "array" <=> node.doc \in ArrayDocs
    /\ e.kind = "array" =>
         Settled("array_metadata", e.name) /\ e.array = Len(answers["array_metadata"][e.name])

(* The inventory a thread is taking.  Having found a node to be an array it *)
(* asks for that array, and what it is told is no failure of storage.       *)
Listed(f) ==
    /\ \A e \in f.entries : EntryStands(e)
    /\ f.at \in {"each", "node", "array"} /\ has_consolidated_metadata =>
         {e.name : e \in f.entries} \cup f.todo = Consolidated
    /\ f.at = "array" =>
         /\ Settled("node_metadata", NextOf(f))
         /\ Last(answers["node_metadata"][NextOf(f)]).doc \in ArrayDocs
Takes(t) ==
    stack[t] # <<>> /\ stack[t][1].op = "inventory" =>
        /\ Listed(stack[t][1])
        /\ stack[t][1].at = "array" /\ Len(stack[t]) < 3 /\ Top(t).at \in Waiting =>
             ret[t].code # "io_error"

ThreadOK(t) == Nested(stack[t]) /\ Computes(t) /\ Holds(t) /\ Told(t) /\ Forgets(t) /\ Takes(t)

(* Reading for an answer is done only where there is none.                  *)
NodesOnce ==
    \A n \in Nodes :
        /\ MustCompute("node_metadata", n) => made["node_metadata"][n] = 0 /\ n \notin Consolidated
        /\ n \in Consolidated => made["node_metadata"][n] = 0
        /\ made["node_metadata"][n] <= 1
VerifiedOnce ==
    \A n \in Names :
        /\ MustCompute("verified_arrays", n) => made["verified_arrays"][n] = 0
        /\ Canon[n] \notin Consolidated => made["verified_arrays"][n] = 0
        /\ made["verified_arrays"][n] <= 1
ReadOnce == NodesOnce /\ VerifiedOnce

(* What a document of a table was made from.                                *)
Had ==
    \A n \in Nodes :
        /\ own[n] \in was[n]
        /\ Found("node_metadata", n) /\ n \notin Consolidated =>
             Last(answers["node_metadata"][n]).doc \in was[n]
Parses ==
    \A n \in Names : Found("array_metadata", n) =>
        /\ n \in Nodes /\ Found("node_metadata", n)
        /\ Last(answers["array_metadata"][n]) = Last(answers["node_metadata"][n])
        /\ Last(answers["array_metadata"][n]).doc \in ArrayDocs
Verified ==
    \A name \in Names : Found("verified_arrays", name) =>
        LET doc == Last(answers["verified_arrays"][name]).doc IN
        /\ Canon[name] # Refused /\ Found("array_metadata", Canon[name])
        /\ doc \in ArrayDocs /\ doc \in was[Canon[name]]
        /\ Described[doc] = Described[Last(answers["array_metadata"][Canon[name]]).doc]
ReadsArrays ==
    \A table \in {"double_arrays", "string_arrays"}, name \in Names :
        Found(table, name) => Last(answers[table][name]).doc \in ArrayDocs

Taken ==
    Found("inventory", Whole) =>
        LET listing == Last(answers["inventory"][Whole]) IN
        /\ listing \in Listings
        /\ has_consolidated_metadata => {e.name : e \in listing.entries} = Consolidated
        /\ \A e \in listing.entries : EntryStands(e)

TablesOK == ReadOnce /\ Had /\ Parses /\ Verified /\ ReadsArrays /\ Taken
IInv == Types /\ TablesOK /\ \A t \in Threads : ThreadOK(t)

-----------------------------------------------------------------------------
(* Stacks: what is left when the top goes, and when one or two frames take  *)
(* its place.                                                               *)
LEMMA Popped ==
    ASSUME NEW S, NEW s \in Seq(S), s # <<>>
    PROVE  /\ Len(s) \in Nat \ {0} /\ Last(s) \in S /\ Last(s) = s[Len(s)]
           /\ Front(s) \in Seq(S) /\ Len(Front(s)) = Len(s) - 1
           /\ \A i \in 1 .. Len(s) - 1 : Front(s)[i] = s[i]
<1>1. Len(s) \in Nat \ {0} /\ \A i \in 1 .. Len(s) : s[i] \in S
  BY EmptySeq, ElementOfSeq
<1>2. \A i \in 1 .. Len(s) - 1 : s[i] \in S
  BY <1>1
<1>3. /\ SubSeq(s, 1, Len(s) - 1) \in Seq(S)
      /\ Len(SubSeq(s, 1, Len(s) - 1)) = Len(s) - 1
      /\ \A i \in 1 .. Len(s) - 1 : SubSeq(s, 1, Len(s) - 1)[i] = s[i]
  <2> DEFINE n == Len(s) - 1
  <2>1. n \in Nat
    BY <1>1
  <2> HIDE DEF n
  <2>2. /\ SubSeq(s, 1, n) \in Seq(S)
        /\ Len(SubSeq(s, 1, n)) = IF 1 <= n THEN n - 1 + 1 ELSE 0
        /\ \A i \in 1 .. n - 1 + 1 : SubSeq(s, 1, n)[i] = s[1 + i - 1]
    BY <1>2, <2>1, SubSeqProperties DEF n
  <2>3. /\ Len(SubSeq(s, 1, n)) = n
        /\ \A i \in 1 .. n : SubSeq(s, 1, n)[i] = s[i]
    BY <2>1, <2>2
  <2> QED
    BY <2>2, <2>3 DEF n
<1> QED
  BY <1>1, <1>3 DEF Front, Last

LEMMA Swapped ==
    ASSUME NEW S, NEW s \in Seq(S), s # <<>>, NEW f \in S
    PROVE  LET r == Front(s) \o <<f>> IN
           /\ r \in Seq(S) /\ Len(r) = Len(s) /\ r # <<>>
           /\ \A i \in 1 .. Len(s) - 1 : r[i] = s[i]
           /\ r[Len(s)] = f /\ Last(r) = f
<1> DEFINE r == Front(s) \o <<f>>
<1>1. <<f>> \in Seq(S) /\ Len(<<f>>) = 1 /\ <<f>>[1] = f
  OBVIOUS
<1>2. /\ r \in Seq(S) /\ Len(r) = Len(Front(s)) + 1
      /\ \A i \in 1 .. Len(Front(s)) + 1 :
           r[i] = IF i <= Len(Front(s)) THEN Front(s)[i] ELSE <<f>>[i - Len(Front(s))]
  BY <1>1, Popped, ConcatProperties, SMTT(40)
<1> HIDE DEF r
<1>3. /\ r \in Seq(S) /\ Len(r) = Len(s)
      /\ \A i \in 1 .. Len(s) - 1 : r[i] = s[i]
      /\ r[Len(s)] = f
  <2>1. /\ Len(s) \in Nat \ {0} /\ Len(Front(s)) = Len(s) - 1
        /\ \A i \in 1 .. Len(s) - 1 : Front(s)[i] = s[i]
    BY Popped
  <2>2. \A i \in 1 .. Len(s) : r[i] = IF i <= Len(s) - 1 THEN Front(s)[i] ELSE <<f>>[i - (Len(s) - 1)]
    BY <1>2, <2>1
  <2>3. r[Len(s)] = <<f>>[1]
    BY <2>1, <2>2
  <2> QED
    BY <1>1, <1>2, <2>1, <2>2, <2>3
<1>4. r # <<>> /\ Last(r) = f
  BY <1>3, Popped DEF Last
<1> QED
  BY <1>3, <1>4 DEF r

LEMMA Pushed ==
    ASSUME NEW S, NEW s \in Seq(S), s # <<>>, NEW f \in S, NEW g \in S
    PROVE  LET r == Front(s) \o <<f, g>> IN
           /\ r \in Seq(S) /\ Len(r) = Len(s) + 1 /\ r # <<>>
           /\ \A i \in 1 .. Len(s) - 1 : r[i] = s[i]
           /\ r[Len(s)] = f /\ r[Len(s) + 1] = g /\ Last(r) = g
<1> DEFINE r == Front(s) \o <<f, g>>
<1>1. <<f, g>> \in Seq(S) /\ Len(<<f, g>>) = 2 /\ <<f, g>>[1] = f /\ <<f, g>>[2] = g
  OBVIOUS
<1>2. /\ r \in Seq(S) /\ Len(r) = Len(Front(s)) + 2
      /\ \A i \in 1 .. Len(Front(s)) + 2 :
           r[i] = IF i <= Len(Front(s)) THEN Front(s)[i] ELSE <<f, g>>[i - Len(Front(s))]
  BY <1>1, Popped, ConcatProperties
<1> HIDE DEF r
<1>3. /\ r \in Seq(S) /\ Len(r) = Len(s) + 1
      /\ \A i \in 1 .. Len(s) - 1 : r[i] = s[i]
      /\ r[Len(s)] = f /\ r[Len(s) + 1] = g
  <2>1. /\ Len(s) \in Nat \ {0} /\ Len(Front(s)) = Len(s) - 1
        /\ \A i \in 1 .. Len(s) - 1 : Front(s)[i] = s[i]
    BY Popped
  <2>2. \A i \in 1 .. Len(s) + 1 :
           r[i] = IF i <= Len(s) - 1 THEN Front(s)[i] ELSE <<f, g>>[i - (Len(s) - 1)]
    BY <1>2, <2>1
  <2>3. r[Len(s)] = <<f, g>>[1] /\ r[Len(s) + 1] = <<f, g>>[2]
    BY <2>1, <2>2
  <2> QED
    BY <1>1, <1>2, <2>1, <2>2, <2>3
<1>4. r # <<>> /\ Last(r) = g
  BY <1>3, Popped DEF Last
<1> QED
  BY <1>3, <1>4 DEF r

LEMMA Appended ==
    ASSUME NEW S, NEW s \in Seq(S), NEW e \in S
    PROVE  /\ Append(s, e) \in Seq(S) /\ Append(s, e) # <<>> /\ Last(Append(s, e)) = e
           /\ Len(Append(s, e)) = Len(s) + 1
           /\ IsPrefix(s, Append(s, e))
<1>1. /\ Append(s, e) \in Seq(S) /\ Len(Append(s, e)) = Len(s) + 1 /\ Len(s) \in Nat
      /\ Append(s, e)[Len(s) + 1] = e
      /\ \A i \in 1 .. Len(s) : Append(s, e)[i] = s[i]
  OBVIOUS
<1>2. \A i \in 1 .. Len(s) : s[i] \in S
  BY ElementOfSeq
<1>3. /\ SubSeq(s, 1, Len(s)) \in Seq(S) /\ SubSeq(Append(s, e), 1, Len(s)) \in Seq(S)
      /\ Len(SubSeq(s, 1, Len(s))) = Len(s) /\ Len(SubSeq(Append(s, e), 1, Len(s))) = Len(s)
      /\ \A i \in 1 .. Len(s) : SubSeq(s, 1, Len(s))[i] = SubSeq(Append(s, e), 1, Len(s))[i]
  BY <1>1, <1>2, SubSeqProperties
<1>4. SubSeq(s, 1, Len(s)) = SubSeq(Append(s, e), 1, Len(s))
  BY <1>3, SeqEqual
<1>5. Append(s, e) # <<>>
  BY <1>1
<1> QED
  BY <1>1, <1>4, <1>5 DEF Last, IsPrefix

-----------------------------------------------------------------------------
(* What a read asks of the one inside it, and under which key.              *)
LEMMA AsksLower ==
    ASSUME NEW f, FrameOK(f), f.at \in Waiting
    PROVE  /\ AsksTable(f) \in {"node_metadata", "array_metadata", "verified_arrays"}
           /\ Rank(f.op) > Rank(AsksTable(f))
           /\ AsksName(f) \in Names
<1>1. CASE f.at = "have"
  <2>1. f.op \in {"array_metadata", "verified_arrays", "double_arrays", "string_arrays", "pixels"}
        /\ f.name \in Names
    BY <1>1 DEF FrameOK, Frames, Ops, Tables, Uncached
  <2> QED
    BY <1>1, <2>1 DEF AsksTable, AsksName, Consults, Rank, ValueReads
<1>2. CASE f.at \in {"node", "array"}
  <2>1. f.op = "inventory" /\ NextOf(f) \in f.todo /\ f.todo \subseteq Nodes
    BY <1>2 DEF FrameOK, Frames, NextOf
  <2> QED
    BY <1>2, <2>1 DEF AsksTable, AsksName, Rank, Nodes
<1> QED
  BY <1>1, <1>2 DEF Waiting

LEMMA KeyFacts ==
    /\ \A table \in Tables \ {"inventory"}, name \in Names : Key(table, name) \in Names
    /\ Key("inventory", Whole) = Whole
    /\ \A table \in {"node_metadata", "array_metadata"}, name \in Names :
         Key(table, name) = IF Canon[name] = Refused THEN name ELSE Canon[name]
    /\ \A name \in Names : Key("verified_arrays", name) = name
    /\ \A n \in Nodes : n \in Names /\ Canon[n] = n /\ Canon[n] # Refused
    /\ \A name \in Names : Canon[name] # Refused => Canon[name] \in Nodes
BY StoreAssumption DEF Key, Nodes

LEMMA FrameKey ==
    ASSUME NEW f, FrameOK(f), f.op \in Tables
    PROVE  Key(f.op, f.name) \in Keys(f.op)
<1>1. CASE f.op = "inventory"
  BY <1>1, KeyFacts DEF FrameOK, Keys
<1>2. CASE f.op # "inventory"
  <2>1. f.name \in Names
    BY <1>2 DEF FrameOK, Frames
  <2> QED
    BY <1>2, <2>1, KeyFacts DEF Keys
<1> QED
  BY <1>1, <1>2

-----------------------------------------------------------------------------
(* Nesting is kept by a return, a step within a read and a question.        *)
LEMMA NestedPop ==
    ASSUME NEW s \in Seq(Frames), s # <<>>, Nested(s)
    PROVE  Nested(Front(s))
<1> DEFINE r == Front(s)
<1>1. Len(s) \in Nat \ {0} /\ Len(r) = Len(s) - 1 /\ \A i \in 1 .. Len(s) - 1 : r[i] = s[i]
  BY Popped
<1> HIDE DEF r
<1>2. \A i \in 1 .. Len(r) : i \in 1 .. Len(s) /\ r[i] = s[i]
  BY <1>1
<1>3. \A i \in 1 .. Len(r) : FrameOK(r[i])
  BY <1>2 DEF Nested
<1>4. \A i \in 1 .. Len(r) - 1 : i \in 1 .. Len(s) - 1 /\ r[i] = s[i] /\ r[i + 1] = s[i + 1]
  BY <1>1
<1>5. \A i \in 1 .. Len(r) - 1 :
         r[i].at \in Waiting /\ r[i + 1].op = AsksTable(r[i]) /\ r[i + 1].name = AsksName(r[i])
  BY <1>4 DEF Nested
<1>6. \A i, j \in 1 .. Len(r) : i < j => Rank(r[i].op) > Rank(r[j].op)
  BY <1>2 DEF Nested
<1> QED
  BY <1>3, <1>5, <1>6 DEF Nested, r

LEMMA NestedSwap ==
    ASSUME NEW s \in Seq(Frames), s # <<>>, Nested(s),
           NEW f, FrameOK(f), f.op = Last(s).op, f.name = Last(s).name
    PROVE  Nested(Front(s) \o <<f>>)
<1> DEFINE r == Front(s) \o <<f>>
<1>1. /\ Len(s) \in Nat \ {0} /\ Len(r) = Len(s) /\ Last(s) = s[Len(s)]
      /\ \A i \in 1 .. Len(s) - 1 : r[i] = s[i]
      /\ r[Len(s)] = f
  <2>1. f \in Frames
    BY DEF FrameOK
  <2> QED
    BY <2>1, Popped, Swapped
<1> HIDE DEF r
<1>2. \A i \in 1 .. Len(r) : /\ i \in 1 .. Len(s)
                             /\ r[i].op = s[i].op /\ r[i].name = s[i].name
                             /\ i # Len(s) => r[i] = s[i]
  BY <1>1
<1>3. \A i \in 1 .. Len(r) : FrameOK(r[i])
  BY <1>1, <1>2 DEF Nested
<1>4. \A i \in 1 .. Len(r) - 1 :
         r[i].at \in Waiting /\ r[i + 1].op = AsksTable(r[i]) /\ r[i + 1].name = AsksName(r[i])
  <2> SUFFICES ASSUME NEW i \in 1 .. Len(r) - 1
               PROVE  /\ r[i].at \in Waiting
                      /\ r[i + 1].op = AsksTable(r[i]) /\ r[i + 1].name = AsksName(r[i])
    OBVIOUS
  <2>1. i \in 1 .. Len(s) - 1 /\ r[i] = s[i] /\ i + 1 \in 1 .. Len(r)
    BY <1>1
  <2>2. r[i + 1].op = s[i + 1].op /\ r[i + 1].name = s[i + 1].name
    BY <1>2, <2>1
  <2> QED
    BY <2>1, <2>2 DEF Nested
<1>5. \A i, j \in 1 .. Len(r) : i < j => Rank(r[i].op) > Rank(r[j].op)
  BY <1>2 DEF Nested
<1> QED
  BY <1>3, <1>4, <1>5 DEF Nested, r

LEMMA NestedPush ==
    ASSUME NEW s \in Seq(Frames), s # <<>>, Nested(s),
           NEW f, FrameOK(f), f.op = Last(s).op, f.name = Last(s).name, f.at \in Waiting,
           NEW g, FrameOK(g), g.op = AsksTable(f), g.name = AsksName(f)
    PROVE  Nested(Front(s) \o <<f, g>>)
<1> DEFINE q == Front(s) \o <<f>>
           r == Front(s) \o <<f, g>>
<1>1. /\ Len(s) \in Nat \ {0} /\ Len(q) = Len(s) /\ Len(r) = Len(s) + 1
      /\ \A i \in 1 .. Len(s) - 1 : r[i] = s[i] /\ q[i] = s[i]
      /\ q[Len(s)] = f /\ r[Len(s)] = f /\ r[Len(s) + 1] = g
  BY Popped, Swapped, Pushed DEF FrameOK
<1>2. Nested(q)
  BY NestedSwap
<1> HIDE DEF q, r
<1>3. \A i \in 1 .. Len(s) : i \in 1 .. Len(q) /\ r[i] = q[i]
  BY <1>1
<1>4. \A i \in 1 .. Len(r) : FrameOK(r[i])
  BY <1>1, <1>2, <1>3 DEF Nested
<1>5. \A i \in 1 .. Len(r) - 1 :
         r[i].at \in Waiting /\ r[i + 1].op = AsksTable(r[i]) /\ r[i + 1].name = AsksName(r[i])
  <2> SUFFICES ASSUME NEW i \in 1 .. Len(r) - 1
               PROVE  /\ r[i].at \in Waiting
                      /\ r[i + 1].op = AsksTable(r[i]) /\ r[i + 1].name = AsksName(r[i])
    OBVIOUS
  <2>1. CASE i = Len(s)
    BY <1>1, <2>1
  <2>2. CASE i # Len(s)
    <3>1. i \in 1 .. Len(q) - 1 /\ r[i] = q[i] /\ r[i + 1] = q[i + 1]
      BY <1>1, <1>3, <2>2
    <3> QED
      BY <1>2, <3>1 DEF Nested
  <2> QED
    BY <2>1, <2>2
<1>6. \A i \in 1 .. Len(s) : Rank(r[i].op) >= Rank(f.op) /\ Rank(r[i].op) \in Int
  <2>1. \A i \in 1 .. Len(s) : i < Len(s) => Rank(q[i].op) > Rank(q[Len(s)].op)
    BY <1>1, <1>2 DEF Nested
  <2>2. \A op : Rank(op) \in Int
    BY DEF Rank
  <2> QED
    BY <1>1, <1>3, <2>1, <2>2
<1>7. Rank(f.op) > Rank(g.op) /\ Rank(f.op) \in Int /\ Rank(g.op) \in Int
  BY AsksLower DEF Rank
<1>8. \A i, j \in 1 .. Len(r) : i < j => Rank(r[i].op) > Rank(r[j].op)
  <2> SUFFICES ASSUME NEW i \in 1 .. Len(r), NEW j \in 1 .. Len(r), i < j
               PROVE  Rank(r[i].op) > Rank(r[j].op)
    OBVIOUS
  <2>1. CASE j = Len(s) + 1
    BY <1>1, <1>6, <1>7, <2>1
  <2>2. CASE j # Len(s) + 1
    <3>1. i \in 1 .. Len(s) /\ j \in 1 .. Len(s)
      BY <1>1, <2>2
    <3> QED
      BY <1>2, <1>3, <3>1 DEF Nested
  <2> QED
    BY <2>1, <2>2
<1> QED
  BY <1>4, <1>5, <1>8 DEF Nested, r

-----------------------------------------------------------------------------
(* A step that leaves what is settled alone, and what then stays settled.   *)
Keeps ==
    \A table \in Tables : \A k \in Keys(table) :
        Settled(table, k) => answers'[table][k] = answers[table][k]

LEMMA SettledKept ==
    ASSUME Keeps, NEW table \in Tables, NEW k \in Keys(table), Settled(table, k)
    PROVE  /\ Settled(table, k)' /\ answers'[table][k] = answers[table][k]
           /\ Last(answers'[table][k]) = Last(answers[table][k])
BY DEF Keeps, Settled, MustCompute

LEMMA FoundKept ==
    ASSUME Keeps, NEW table \in Tables, NEW k \in Keys(table), Found(table, k)
    PROVE  Found(table, k)' /\ Last(answers'[table][k]) = Last(answers[table][k])
BY SettledKept DEF Found

LEMMA EntryKept == ASSUME Keeps, NEW e \in Entries, EntryStands(e) PROVE EntryStands(e)'
<1>1. e.name \in Keys("node_metadata") /\ e.name \in Keys("array_metadata")
      /\ "node_metadata" \in Tables /\ "array_metadata" \in Tables
  BY DEF Entries, Keys, Nodes, Tables
<1> QED
  BY <1>1, SettledKept DEF EntryStands

LEMMA ListedKept ==
    ASSUME Keeps, NEW f, FrameOK(f), Listed(f), UNCHANGED opened
    PROVE  Listed(f)'
<1>1. f.entries \subseteq Entries /\ (f.at = "array" => NextOf(f) \in Nodes)
  <2>1. f.at = "array" => f.todo # {} /\ f.todo \subseteq Nodes
    BY DEF FrameOK, Frames
  <2> QED
    BY <2>1 DEF FrameOK, Frames, NextOf
<1>2. \A e \in f.entries : EntryStands(e)'
  BY <1>1, EntryKept DEF Listed
<1>3. f.at = "array" =>
         /\ Settled("node_metadata", NextOf(f))'
         /\ Last(answers'["node_metadata"][NextOf(f)]).doc \in ArrayDocs
  BY <1>1, SettledKept DEF Listed, Keys, Nodes, Tables
<1> QED
  BY <1>2, <1>3 DEF Listed, opened, Consolidated

(* Frames of one stack are of different tables, and an inventory is the     *)
(* lowest of its own.                                                       *)
LEMMA StackFacts ==
    ASSUME NEW s \in Seq(Frames), s # <<>>, Nested(s)
    PROVE  /\ FrameOK(Last(s)) /\ FrameOK(s[1]) /\ Last(s) = s[Len(s)] /\ Len(s) \in Nat \ {0}
           /\ \A i \in 1 .. Len(s) - 1 : s[i].op # Last(s).op /\ s[i].at \in Waiting
           /\ Len(s) > 1 => Last(s).op \in {"node_metadata", "array_metadata", "verified_arrays"}
           /\ Last(s).op = "inventory" => Len(s) = 1
           /\ Len(s) > 1 => /\ Last(s).op = AsksTable(s[Len(s) - 1])
                            /\ Last(s).name = AsksName(s[Len(s) - 1])
<1>1. Len(s) \in Nat \ {0} /\ Last(s) = s[Len(s)]
  BY Popped
<1>2. FrameOK(Last(s)) /\ FrameOK(s[1])
  BY <1>1 DEF Nested
<1>3. \A i \in 1 .. Len(s) - 1 : s[i].op # Last(s).op /\ s[i].at \in Waiting
  <2> SUFFICES ASSUME NEW i \in 1 .. Len(s) - 1 PROVE s[i].op # Last(s).op /\ s[i].at \in Waiting
    OBVIOUS
  <2>1. Rank(s[i].op) > Rank(Last(s).op) /\ s[i].at \in Waiting
    BY <1>1 DEF Nested
  <2> QED
    BY <2>1 DEF Rank
<1>4. ASSUME Len(s) > 1
      PROVE  /\ Last(s).op \in {"node_metadata", "array_metadata", "verified_arrays"}
             /\ Last(s).op = AsksTable(s[Len(s) - 1])
             /\ Last(s).name = AsksName(s[Len(s) - 1])
  <2> DEFINE j == Len(s) - 1
  <2>1. j \in 1 .. Len(s) - 1 /\ j \in 1 .. Len(s) /\ j + 1 = Len(s)
    BY <1>1, <1>4
  <2> HIDE DEF j
  <2>2. FrameOK(s[j]) /\ s[j].at \in Waiting /\ s[j + 1].op = AsksTable(s[j]) /\ s[j + 1].name = AsksName(s[j])
    BY <2>1 DEF Nested
  <2> QED
    BY <1>1, <2>1, <2>2, AsksLower DEF j
<1>5. ~ (Last(s).op = "inventory" /\ Len(s) > 1)
  BY <1>4
<1>6. Len(s) = 1 \/ Len(s) > 1
  <2>1. \A n \in Nat \ {0} : n = 1 \/ n > 1
    OBVIOUS
  <2> QED
    BY <1>1, <2>1, Zenon
<1>7. Last(s).op = "inventory" => Len(s) = 1
  BY <1>5, <1>6, Zenon
<1> QED
  BY <1>1, <1>2, <1>3, <1>4, <1>7

(* What a step of one thread leaves another.                                *)
LEMMA OtherThread ==
    ASSUME IInv, NEW q \in Threads, Keeps, UNCHANGED opened,
           stack'[q] = stack[q], ret'[q] = ret[q], recovered'[q] = recovered[q],
           failing' => failing,
           \A table \in Tables : lock'[table] = q <=> lock[table] = q,
           \A table \in Tables : lock[table] = q => answers'[table] = answers[table]
    PROVE  ThreadOK(q)'
<1>1. ThreadOK(q) /\ stack[q] \in Seq(Frames)
  BY DEF IInv, Types
<1>2. Nested(stack'[q]) /\ Holds(q)'
  BY <1>1 DEF ThreadOK, Holds
<1>3. Computes(q)'
  BY <1>1 DEF ThreadOK, Computes, MustCompute
<1>4. Told(q)'
  <2> SUFFICES ASSUME stack[q] # <<>>, Top(q).at \in Waiting
               PROVE  LET table == AsksTable(Top(q))
                          key == Key(table, AsksName(Top(q)))
                      IN  /\ ret[q] \in Good
                          /\ ret[q].code # "io_error" =>
                               Settled(table, key)' /\ Last(answers'[table][key]) = ret[q]
    BY DEF Told, Top
  <2> DEFINE table == AsksTable(Top(q))
             key == Key(table, AsksName(Top(q)))
  <2>1. FrameOK(Top(q))
    BY <1>1, StackFacts DEF ThreadOK, Top
  <2>2. table \in Tables /\ key \in Keys(table)
    BY <2>1, AsksLower, KeyFacts DEF Tables, Keys
  <2>3. ret[q] \in Good /\ (ret[q].code # "io_error" => Settled(table, key) /\ Last(answers[table][key]) = ret[q])
    BY <1>1 DEF ThreadOK, Told
  <2>4. ASSUME NEW T \in Tables, NEW k \in Keys(T), Settled(T, k)
        PROVE  Settled(T, k)' /\ Last(answers'[T][k]) = Last(answers[T][k])
    BY <2>4, SettledKept
  <2>5. ret[q].code # "io_error" => Settled(table, key)' /\ Last(answers'[table][key]) = ret[q]
    BY <2>2, <2>3, <2>4 DEF Top
  <2> QED
    BY <2>3, <2>5 DEF Top
<1>5. Forgets(q)'
  BY <1>1 DEF ThreadOK, Forgets, Top
<1>6. Takes(q)'
  <2> SUFFICES ASSUME stack[q] # <<>>, stack[q][1].op = "inventory"
               PROVE  /\ Listed(stack[q][1])'
                      /\ stack[q][1].at = "array" /\ Len(stack[q]) < 3 /\ Top(q).at \in Waiting =>
                           ret[q].code # "io_error"
    BY DEF Takes, Top, Listed
  <2>1. FrameOK(stack[q][1])
    BY <1>1, Popped DEF ThreadOK, Nested
  <2>2. Listed(stack[q][1])'
    BY <1>1, <2>1, ListedKept DEF ThreadOK, Takes
  <2> QED
    BY <1>1, <2>2 DEF ThreadOK, Takes
<1> QED
  BY <1>2, <1>3, <1>4, <1>5, <1>6 DEF ThreadOK


(* The thread whose read returned, from its table or having filled it.      *)
LEMMA Returns ==
    ASSUME IInv, NEW t \in Threads, stack[t] # <<>>, NEW op, NEW key, NEW answer,
           op = Top(t).op, key = Key(op, Top(t).name),
           stack' = [stack EXCEPT ![t] = Front(@)], ret' = [ret EXCEPT ![t] = answer],
           UNCHANGED <<recovered, failing, opened>>, Keeps,
           \A table \in Tables \ {op} : answers'[table] = answers[table] /\ lock'[table] = lock[table],
           op \in Tables => /\ lock'[op] # t
                            /\ answers'[op][key] # <<>> /\ Last(answers'[op][key]) = answer,
           op # "inventory" => answer \in Good,
           recovered[t] => answer.code # "io_error",
           stack[t][1].at = "array" /\ Len(stack[t]) \in {2, 3} => answer.code # "io_error"
    PROVE  ThreadOK(t)'
<1>0. PICK s, r, n : s = stack[t] /\ r = Front(s) /\ n = Len(s)
  OBVIOUS
<1>1. /\ ThreadOK(t) /\ Nested(s) /\ s \in Seq(Frames) /\ s # <<>>
      /\ stack'[t] = r /\ ret'[t] = answer
  BY <1>0 DEF IInv, Types, ThreadOK
<1>2. /\ n \in Nat \ {0} /\ Len(r) = n - 1 /\ r \in Seq(Frames)
      /\ \A i \in 1 .. n - 1 : r[i] = s[i]
      /\ Last(s) = s[n] /\ Last(s) = Top(t)
  BY <1>0, <1>1, Popped DEF Top
<1>3. \A i \in 1 .. n - 1 : i \in 1 .. n /\ s[i].op # op /\ s[i].at \in Waiting
  BY <1>0, <1>1, <1>2, StackFacts
<1>4. Nested(r) /\ FrameOK(s[1])
  BY <1>0, <1>1, NestedPop, StackFacts
<1>5. n > 1 => /\ op \in {"node_metadata", "array_metadata", "verified_arrays"}
               /\ op = AsksTable(s[n - 1]) /\ Top(t).name = AsksName(s[n - 1])
  BY <1>0, <1>1, <1>2, StackFacts
<1>6. r # <<>> => n - 1 \in Nat \ {0} /\ Last(r) = s[n - 1] /\ n > 1 /\ r[1] = s[1]
  <2> SUFFICES ASSUME r # <<>> PROVE n - 1 \in Nat \ {0} /\ Last(r) = s[n - 1] /\ n > 1 /\ r[1] = s[1]
    OBVIOUS
  <2>1. Len(r) \in Nat \ {0} /\ Last(r) = r[Len(r)]
    BY <1>2, Popped
  <2> QED
    BY <1>2, <2>1
<1>7. Computes(t)'
  <2> SUFFICES ASSUME NEW i \in 1 .. Len(r), r[i].op \in Tables, r[i].at # "lock"
               PROVE  lock'[r[i].op] = t /\ MustCompute(r[i].op, Key(r[i].op, r[i].name))'
    BY <1>1 DEF Computes
  <2>1. i \in 1 .. n - 1 /\ i \in 1 .. n /\ r[i] = s[i]
    BY <1>2
  <2>2. lock[s[i].op] = t /\ MustCompute(s[i].op, Key(s[i].op, s[i].name))
    BY <1>0, <1>1, <2>1 DEF ThreadOK, Computes
  <2>3. answers'[s[i].op] = answers[s[i].op] /\ lock'[s[i].op] = lock[s[i].op]
    BY <1>3, <2>1
  <2> QED
    BY <2>1, <2>2, <2>3 DEF MustCompute
<1>8. Holds(t)'
  <2> SUFFICES ASSUME NEW table \in Tables, lock'[table] = t
               PROVE  \E i \in 1 .. Len(r) : r[i].op = table /\ r[i].at # "lock"
    BY <1>1 DEF Holds
  <2>1. table # op /\ lock[table] = t
    OBVIOUS
  <2>2. PICK i \in 1 .. n : s[i].op = table /\ s[i].at # "lock"
    BY <1>0, <1>1, <2>1 DEF ThreadOK, Holds
  <2>3. i # n
    BY <1>2, <2>1, <2>2
  <2>4. i \in 1 .. n - 1
    BY <1>2, <2>3
  <2> QED
    BY <1>2, <2>2, <2>4
<1>9. Told(t)'
  <2> SUFFICES ASSUME r # <<>>
               PROVE  LET table == AsksTable(Last(r))
                          k == Key(table, AsksName(Last(r)))
                      IN  /\ answer \in Good
                          /\ answer.code # "io_error" =>
                               Settled(table, k)' /\ Last(answers'[table][k]) = answer
    BY <1>1 DEF Told, Top
  <2>1. AsksTable(Last(r)) = op /\ Key(op, AsksName(Last(r))) = key /\ op \in Tables /\ op # "inventory"
    BY <1>5, <1>6 DEF Tables
  <2>2. answer \in Good /\ (answer.code # "io_error" => ~ AskAgain(answer))
    BY <2>1 DEF Good, Codes, AskAgain
  <2>3. answer.code # "io_error" => Settled(op, key)' /\ Last(answers'[op][key]) = answer
    BY <2>1, <2>2 DEF Settled, MustCompute
  <2> QED
    BY <2>1, <2>2, <2>3
<1>10. Forgets(t)'
  BY <1>1 DEF ThreadOK, Forgets
<1>11. Takes(t)'
  <2> SUFFICES ASSUME r # <<>>, r[1].op = "inventory"
               PROVE  /\ Listed(r[1])'
                      /\ r[1].at = "array" /\ Len(r) < 3 => answer.code # "io_error"
    BY <1>1 DEF Takes
  <2>1. Listed(s[1])
    BY <1>0, <1>1, <1>6 DEF ThreadOK, Takes
  <2>2. Listed(r[1])'
    BY <1>4, <1>6, <2>1, ListedKept
  <2>3. Len(r) < 3 => n \in {2, 3}
    BY <1>2, <1>6
  <2> QED
    BY <1>0, <1>6, <2>2, <2>3
<1> QED
  BY <1>1, <1>4, <1>7, <1>8, <1>9, <1>10, <1>11 DEF ThreadOK

(* The thread whose read goes on at another point, or asks a lower table:   *)
(* f takes the top's place, new is the stack above what was below it.       *)
LEMMA Moves ==
    ASSUME IInv, NEW t \in Threads, stack[t] # <<>>, NEW f, NEW new,
           FrameOK(f), f.op = Top(t).op, f.name = Top(t).name, f.at # "lock",
           \/ new = Front(stack[t]) \o <<f>> /\ f.at \notin Waiting
           \/ \E g : /\ new = Front(stack[t]) \o <<f, g>> /\ f.at \in Waiting
                     /\ FrameOK(g) /\ g.at = "lock"
                     /\ g.op = AsksTable(f) /\ g.name = AsksName(f),
           stack' = [stack EXCEPT ![t] = new], UNCHANGED <<answers, ret, recovered, failing, opened>>,
           \A table \in Tables \ {f.op} : lock'[table] = lock[table],
           f.op \in Tables => lock'[f.op] = t /\ MustCompute(f.op, Key(f.op, f.name)),
           f.op = "inventory" => Listed(f)
    PROVE  ThreadOK(t)'
<1>0. PICK s, n : s = stack[t] /\ n = Len(s)
  OBVIOUS
<1>1. ThreadOK(t) /\ Nested(s) /\ s \in Seq(Frames) /\ s # <<>> /\ stack'[t] = new
  BY <1>0 DEF IInv, Types, ThreadOK
<1>2. n \in Nat \ {0} /\ Last(s) = s[n] /\ Last(s) = Top(t) /\ f \in Frames
  BY <1>0, <1>1, Popped DEF Top, FrameOK
<1>3. /\ Nested(new) /\ new # <<>> /\ Last(new).at \notin Waiting /\ Len(new) \in {n, n + 1}
      /\ \A i \in 1 .. n - 1 : new[i] = s[i]
      /\ new[n] = f /\ (Len(new) = n + 1 => new[n + 1].at = "lock")
  <2>1. CASE new = Front(s) \o <<f>> /\ f.at \notin Waiting
    <3>1. Nested(new)
      BY <1>1, <1>2, <2>1, NestedSwap
    <3>2. /\ Len(new) = Len(s) /\ new # <<>>
          /\ \A i \in 1 .. Len(s) - 1 : new[i] = s[i]
          /\ new[Len(s)] = f /\ Last(new) = f
      BY <1>1, <1>2, <2>1, Swapped
    <3>3. n # n + 1
      BY <1>2
    <3>4. \A i \in 1 .. n - 1 : new[i] = s[i]
      BY <1>0, <3>2
    <3> QED
      BY <1>0, <2>1, <3>1, <3>2, <3>3, <3>4, Zenon
  <2>2. ASSUME NEW g, new = Front(s) \o <<f, g>>, f.at \in Waiting, FrameOK(g), g.at = "lock",
               g.op = AsksTable(f), g.name = AsksName(f)
        PROVE  <1>3!:
    <3>1. Nested(new)
      BY <1>1, <1>2, <2>2, NestedPush
    <3>2. g \in Frames
      BY <2>2 DEF FrameOK
    <3>3. /\ Len(new) = Len(s) + 1 /\ new # <<>>
          /\ \A i \in 1 .. Len(s) - 1 : new[i] = s[i]
          /\ new[Len(s)] = f /\ new[Len(s) + 1] = g /\ Last(new) = g
      BY <1>1, <1>2, <2>2, <3>2, Pushed
    <3> QED
      BY <1>0, <1>2, <2>2, <3>1, <3>3 DEF Waiting
  <2> QED
    BY <1>0, <2>1, <2>2
<1>4. Keeps
  BY DEF Keeps
<1>5. \A i \in 1 .. n - 1 : i \in 1 .. n /\ s[i].op # f.op
  BY <1>0, <1>1, <1>2, StackFacts
<1>6. Computes(t)'
  <2> SUFFICES ASSUME NEW i \in 1 .. Len(new), new[i].op \in Tables, new[i].at # "lock"
               PROVE  lock'[new[i].op] = t /\ MustCompute(new[i].op, Key(new[i].op, new[i].name))
    BY <1>1 DEF Computes, MustCompute
  <2>1. CASE i = n
    BY <1>3, <2>1
  <2>2. CASE i \in 1 .. n - 1
    BY <1>0, <1>1, <1>3, <1>5, <2>2 DEF ThreadOK, Computes
  <2>3. i = n \/ i \in 1 .. n - 1 \/ (i = n + 1 /\ Len(new) = n + 1)
    BY <1>2, <1>3
  <2> QED
    BY <1>3, <2>1, <2>2, <2>3
<1>7. Holds(t)'
  <2> SUFFICES ASSUME NEW table \in Tables, lock'[table] = t
               PROVE  \E i \in 1 .. Len(new) : new[i].op = table /\ new[i].at # "lock"
    BY <1>1 DEF Holds
  <2>1. n \in 1 .. Len(new) /\ \A i \in 1 .. n - 1 : i \in 1 .. Len(new)
    BY <1>2, <1>3
  <2>2. CASE table = f.op
    BY <1>3, <2>1, <2>2
  <2>3. CASE table # f.op
    <3>1. PICK i \in 1 .. n : s[i].op = table /\ s[i].at # "lock"
      BY <1>0, <1>1, <2>3 DEF ThreadOK, Holds
    <3>2. i # n
      BY <1>2, <2>3, <3>1
    <3>3. i \in 1 .. n - 1
      BY <1>2, <3>2
    <3> QED
      BY <1>3, <2>1, <3>1, <3>3
  <2> QED
    BY <2>2, <2>3
<1>8. Told(t)' /\ Forgets(t)'
  BY <1>1, <1>3 DEF Told, Forgets, Top, ThreadOK
<1>9. Takes(t)'
  <2> SUFFICES ASSUME new[1].op = "inventory" PROVE Listed(new[1])'
    BY <1>1, <1>3 DEF Takes, Top
  <2>1. CASE n = 1
    BY <1>3, <1>4, <2>1, ListedKept
  <2>2. CASE n > 1
    <3>1. new[1] = s[1] /\ FrameOK(s[1])
      BY <1>0, <1>1, <1>2, <1>3, <2>2, StackFacts
    <3>2. Listed(s[1])
      BY <1>0, <1>1, <3>1 DEF ThreadOK, Takes
    <3> QED
      BY <1>4, <3>1, <3>2, ListedKept
  <2>3. n = 1 \/ n > 1
    BY <1>2
  <2> QED
    BY <2>1, <2>2, <2>3
<1> QED
  BY <1>1, <1>3, <1>6, <1>7, <1>8, <1>9 DEF ThreadOK

(* What the tables say is untouched by a step that writes no answer.        *)
LEMMA TablesSame ==
    ASSUME IInv, UNCHANGED <<storage, opened, answers, made>> PROVE TablesOK'
<1>1. \A table, key : Settled(table, key)' = Settled(table, key) /\ Found(table, key)' = Found(table, key)
                       /\ MustCompute(table, key)' = MustCompute(table, key)
  BY DEF Settled, Found, MustCompute
<1>2. \A e : EntryStands(e)' = EntryStands(e)
  BY <1>1 DEF EntryStands
<1>3. ReadOnce' /\ Had' /\ Parses'
  BY <1>1 DEF IInv, TablesOK, ReadOnce, NodesOnce, VerifiedOnce, Had, Parses, storage, opened, Consolidated
<1>4. Verified' /\ ReadsArrays'
  BY <1>1 DEF IInv, TablesOK, Verified, ReadsArrays, storage
<1>5. Taken'
  BY <1>1, <1>2 DEF IInv, TablesOK, Taken, opened, Consolidated
<1> QED
  BY <1>3, <1>4, <1>5 DEF TablesOK

-----------------------------------------------------------------------------
LEMMA CachesInit == Init => IInv
<1> SUFFICES ASSUME Init PROVE IInv
  OBVIOUS
<1>1. /\ own \in [Nodes -> Docs \cup {"garbage", "absent"}]
      /\ was = [n \in Nodes |-> {own[n]}]
      /\ copies \in SUBSET (Nodes \X Docs)
  <2>1. own \in [Nodes -> UNION Range(OwnDocs)] /\ \A n \in Nodes : own[n] \in OwnDocs[n]
    BY DEF Init
  <2>2. \A n \in Nodes : own[n] \in Docs \cup {"garbage", "absent"}
    BY <2>1, StoreAssumption
  <2> QED
    BY <2>1, <2>2, StoreAssumption DEF Init
<1>2. ASSUME NEW n \in Names
      PROVE  /\ answers["node_metadata"][n] \in Seq(Good)
             /\ n \notin Consolidated => answers["node_metadata"][n] = <<>>
             /\ n \in Consolidated => /\ answers["node_metadata"][n] # <<>>
                                      /\ Last(answers["node_metadata"][n]).code = "ok"
  <2>1. answers["node_metadata"][n] = Insert(copies)[n]
    BY DEF Init, Tables
  <2>2. CASE n \in Consolidated
    <3>1. PICK c \in copies : c[1] = n
      BY <2>2 DEF Consolidated
    <3>2. (CHOOSE d \in copies : d[1] = n) \in copies
      BY <3>1
    <3>3. PICK a : a = Answered((CHOOSE d \in copies : d[1] = n)[2])
      OBVIOUS
    <3>4. a \in Good /\ a.code = "ok"
      BY <1>1, <3>2, <3>3 DEF Answered, Good
    <3>5. answers["node_metadata"][n] = <<a>>
      BY <2>1, <3>1, <3>3 DEF Insert
    <3>6. <<a>> \in Seq(Good) /\ <<a>> # <<>> /\ Last(<<a>>) = a
      BY <3>4 DEF Last
    <3> QED
      BY <2>2, <3>4, <3>5, <3>6
  <2>3. CASE n \notin Consolidated
    <3>1. answers["node_metadata"][n] = <<>>
      BY <2>1, <2>3 DEF Insert, Consolidated
    <3> QED
      BY <2>3, <3>1
  <2> QED
    BY <2>2, <2>3
<1>3. \A table \in Tables \ {"node_metadata"} : \A k \in Keys(table) : answers[table][k] = <<>>
  BY DEF Init, Keys, Tables
<1>4. Types
  <2>1. \A table \in Tables :
          /\ DOMAIN answers[table] = Keys(table)
          /\ \A key \in Keys(table) : answers[table][key] \in Seq(Answers(table))
    <3> SUFFICES ASSUME NEW table \in Tables
                 PROVE  /\ DOMAIN answers[table] = Keys(table)
                        /\ \A key \in Keys(table) : answers[table][key] \in Seq(Answers(table))
      OBVIOUS
    <3>1. DOMAIN answers[table] = Keys(table)
      BY DEF Init, Keys, Tables, Insert
    <3>2. CASE table = "node_metadata"
      BY <1>2, <3>1, <3>2 DEF Keys, Answers
    <3>3. CASE table # "node_metadata"
      BY <1>3, <3>1, <3>3, EmptySeq
    <3> QED
      BY <3>2, <3>3
  <2>2. /\ failing \in BOOLEAN /\ has_consolidated_metadata \in BOOLEAN
        /\ recovered \in [Threads -> BOOLEAN] /\ made \in [Reading -> [Names -> Nat]]
        /\ lock \in [Tables -> Threads \cup {None}]
    BY DEF Init
  <2>3. ret \in [Threads -> Good \cup Listings]
    BY DEF Init, Failed, Good, Codes
  <2>4. stack \in [Threads -> Seq(Frames)] /\ DOMAIN answers = Tables
    BY DEF Init
  <2>5. was \in [Nodes -> SUBSET (Docs \cup {"garbage", "absent"})]
    BY <1>1
  <2> QED
    BY <1>1, <2>1, <2>2, <2>3, <2>4, <2>5 DEF Types
<1>5. \A table \in Tables \ {"node_metadata"} : \A k \in Keys(table) :
         ~ Settled(table, k) /\ ~ Found(table, k)
  BY <1>3 DEF Settled, Found, MustCompute
<1>6. TablesOK
  <2>1. Taken /\ Verified /\ Parses /\ ReadsArrays
    BY <1>5 DEF Taken, Verified, Parses, ReadsArrays, Tables, Keys
  <2>2. ReadOnce
    <3>1. \A n \in Names : made["node_metadata"][n] = 0 /\ made["verified_arrays"][n] = 0
      BY DEF Init, Reading
    <3>2. ASSUME NEW n \in Nodes, n \in Consolidated PROVE ~ MustCompute("node_metadata", n)
      <4>1. n \in Names
        BY DEF Nodes
      <4> QED
        BY <1>2, <3>2, <4>1 DEF MustCompute, AskAgain
    <3>3. NodesOnce
      BY <3>1, <3>2 DEF NodesOnce, Nodes
    <3> QED
      BY <3>1, <3>3 DEF ReadOnce, VerifiedOnce
  <2>3. Had
    BY <1>1, <1>2 DEF Had, Found, Settled, MustCompute, Nodes
  <2> QED
    BY <2>1, <2>2, <2>3 DEF TablesOK
<1>7. ASSUME NEW t \in Threads PROVE ThreadOK(t)
  <2>1. stack[t] = <<>> /\ Len(stack[t]) = 0 /\ recovered[t] = FALSE
    BY <1>7 DEF Init
  <2>2. \A table \in Tables : lock[table] # t
    BY <1>7, StoreAssumption DEF Init
  <2> QED
    BY <2>1, <2>2 DEF ThreadOK, Nested, Computes, Holds, Told, Forgets, Takes
<1> QED
  BY <1>4, <1>6, <1>7 DEF IInv

(* Storage coming back or being rewritten.                                  *)
LEMMA StorageKeeps ==
    ASSUME IInv, Recover \/ \E n \in Nodes : \E d \in OwnDocs[n] : Rewrite(n, d)
    PROVE  IInv'
<1>1. /\ UNCHANGED <<opened, answers, lock, stack, ret, recovered, made>>
      /\ failing' => failing
      /\ failing' \in BOOLEAN
  <2>1. UNCHANGED <<opened, answers, lock, stack, ret, recovered, made>>
    BY DEF Recover, Rewrite
  <2>2. failing \in BOOLEAN
    BY DEF IInv, Types
  <2>3. CASE Recover
    <3>1. failing' = FALSE
      BY <2>3 DEF Recover
    <3> QED
      BY <2>1, <3>1
  <2>4. CASE \E n \in Nodes : \E d \in OwnDocs[n] : Rewrite(n, d)
    <3>1. failing' = failing
      BY <2>4 DEF Rewrite
    <3> QED
      BY <2>1, <2>2, <3>1, Zenon
  <2> QED
    BY <2>3, <2>4
<1>2. /\ own' \in [Nodes -> Docs \cup {"garbage", "absent"}]
      /\ was' \in [Nodes -> SUBSET (Docs \cup {"garbage", "absent"})]
      /\ \A n \in Nodes : was[n] \subseteq was'[n] /\ own'[n] \in was'[n]
  <2>1. CASE Recover
    BY <2>1 DEF Recover, IInv, Types, TablesOK, Had
  <2>2. ASSUME NEW n \in Nodes, NEW d \in OwnDocs[n], Rewrite(n, d) PROVE <1>2!:
    <3>1. d \in Docs \cup {"garbage", "absent"}
      BY <2>2, StoreAssumption
    <3> QED
      BY <2>2, <3>1 DEF Rewrite, IInv, Types, TablesOK, Had
  <2> QED
    BY <2>1, <2>2
<1>3. Types'
  BY <1>1, <1>2 DEF IInv, Types, opened
<1>4. Keeps
  BY <1>1 DEF Keeps
<1>5. ASSUME NEW q \in Threads PROVE ThreadOK(q)'
  BY <1>1, <1>4, <1>5, OtherThread
<1>6. TablesOK'
  <2>1. \A table, key : /\ Settled(table, key)' = Settled(table, key)
                        /\ Found(table, key)' = Found(table, key)
                        /\ MustCompute(table, key)' = MustCompute(table, key)
    BY <1>1 DEF Settled, Found, MustCompute
  <2>2. \A e : EntryStands(e)' = EntryStands(e)
    BY <1>1, <2>1 DEF EntryStands
  <2>3. ReadOnce' /\ Parses' /\ ReadsArrays' /\ Taken'
    BY <1>1, <2>1, <2>2 DEF IInv, TablesOK, ReadOnce, NodesOnce, VerifiedOnce, Parses, ReadsArrays, Taken, opened, Consolidated
  <2>4. Had'
    BY <1>1, <1>2, <2>1 DEF IInv, TablesOK, Had, opened, Consolidated
  <2>5. Verified'
    BY <1>1, <1>2, <2>1, StoreAssumption DEF IInv, TablesOK, Verified
  <2> QED
    BY <2>3, <2>4, <2>5 DEF TablesOK
<1> QED
  BY <1>3, <1>5, <1>6 DEF IInv

(* What a read to be made begins with.                                      *)
LEMMA NewFrame ==
    ASSUME NEW op \in Tables, NEW name, op = "inventory" <=> name = Whole, name \in Names \cup {Whole}
    PROVE  /\ FrameOK(Frame(op, name)) /\ Frame(op, name).at = "lock"
           /\ Frame(op, name).op = op /\ Frame(op, name).name = name
BY DEF FrameOK, Frames, Frame, Ops

LEMMA BegunFacts ==
    ASSUME NEW op \in Ops, NEW name \in Names \cup {Whole}, op = "inventory" <=> name = Whole
    PROVE  \E f : /\ FrameOK(f) /\ f.op = op /\ f.name = name /\ f.entries = {}
                  /\ \/ Begun(op, name) = <<f>> /\ f.at = "compute"
                     \/ \E g : /\ Begun(op, name) = <<f, g>> /\ f.at = "have"
                               /\ FrameOK(g) /\ g.at = "lock"
                               /\ g.op = AsksTable(f) /\ g.name = AsksName(f)
<1> DEFINE base == Frame(op, name)
<1>1. CASE op \in {"node_metadata", "inventory"} \/ (op = "array_metadata" /\ Canon[name] = Refused)
  <2>1. PICK f : f = [base EXCEPT !.at = "compute"]
    OBVIOUS
  <2>2. f = [op |-> op, name |-> name, at |-> "compute", todo |-> {}, entries |-> {}]
    BY <2>1 DEF Frame
  <2>3. f \in Frames /\ f.op = op /\ f.name = name /\ f.at = "compute" /\ f.entries = {}
    BY <2>2 DEF Frames
  <2>4. FrameOK(f)
    BY <1>1, <2>3 DEF FrameOK
  <2>5. Begun(op, name) = <<f>>
    BY <1>1, <2>1 DEF Begun
  <2> QED
    BY <2>3, <2>4, <2>5
<1>2. CASE ~ (op \in {"node_metadata", "inventory"} \/ (op = "array_metadata" /\ Canon[name] = Refused))
  <2>1. PICK f, g : f = [base EXCEPT !.at = "have"] /\ g = Frame(Consults(op), name)
    OBVIOUS
  <2>2. f = [op |-> op, name |-> name, at |-> "have", todo |-> {}, entries |-> {}]
    BY <2>1 DEF Frame
  <2>3. f \in Frames /\ f.op = op /\ f.name = name /\ f.at = "have" /\ f.entries = {}
    BY <2>2 DEF Frames
  <2>4. FrameOK(f)
    BY <1>2, <2>3 DEF FrameOK
  <2>5. AsksTable(f) = Consults(op) /\ AsksName(f) = name
    BY <2>3 DEF AsksTable, AsksName
  <2>6. Consults(op) \in {"node_metadata", "array_metadata", "verified_arrays"} /\ name \in Names
    BY <2>3, <2>4, <2>5, AsksLower DEF Waiting
  <2>7. name # Whole
    BY <2>6, StoreAssumption
  <2>8. FrameOK(g) /\ g.at = "lock" /\ g.op = Consults(op) /\ g.name = name
    BY <2>1, <2>6, <2>7, NewFrame DEF Tables
  <2>9. Begun(op, name) = <<f, g>>
    BY <1>2, <2>1 DEF Begun
  <2> QED
    BY <2>3, <2>4, <2>5, <2>8, <2>9
<1> QED
  BY <1>1, <1>2

(* A thread inside a read is where its invariants say.                      *)
LEMMA TopFacts ==
    ASSUME IInv, NEW t \in Threads, stack[t] # <<>>
    PROVE  /\ stack[t] \in Seq(Frames) /\ Nested(stack[t]) /\ FrameOK(Top(t)) /\ Top(t) \in Frames
           /\ Top(t).at # "lock" /\ Top(t).op \in Tables =>
                lock[Top(t).op] = t /\ MustCompute(Top(t).op, Key(Top(t).op, Top(t).name))
<1>1. stack[t] \in Seq(Frames) /\ Nested(stack[t]) /\ Computes(t)
  BY DEF IInv, Types, ThreadOK
<1>2. FrameOK(Top(t)) /\ Top(t) = stack[t][Len(stack[t])] /\ Len(stack[t]) \in 1 .. Len(stack[t])
  BY <1>1, StackFacts DEF Top
<1> QED
  BY <1>1, <1>2 DEF Computes, FrameOK

LEMMA HitKeeps == ASSUME IInv, NEW t \in Threads, Hit(t) PROVE IInv'
<1>1. PICK op, key, answer : op = Top(t).op /\ key = Key(op, Top(t).name) /\ answer = Last(answers[op][key])
  OBVIOUS
<1>2. /\ stack[t] # <<>> /\ Top(t).at = "lock" /\ lock[op] = None /\ ~ MustCompute(op, key)
      /\ ret' = [ret EXCEPT ![t] = answer] /\ stack' = [stack EXCEPT ![t] = Front(@)]
      /\ UNCHANGED <<storage, opened, answers, lock, calls, recovered, made>>
  BY <1>1 DEF Hit
<1>3. FrameOK(Top(t)) /\ stack[t] \in Seq(Frames) /\ op \in Tables /\ key \in Keys(op)
  BY <1>1, <1>2, TopFacts, FrameKey DEF FrameOK
<1>4. answers[op][key] \in Seq(Answers(op)) /\ answers[op][key] # <<>> /\ ~ AskAgain(answer)
  BY <1>1, <1>2, <1>3 DEF IInv, Types, MustCompute
<1>5. answer \in Answers(op) /\ answer.code # "io_error"
  BY <1>1, <1>4, Popped DEF AskAgain
<1>6. Keeps
  BY <1>2 DEF Keeps
<1>7. Types'
  <2>1. Front(stack[t]) \in Seq(Frames)
    BY <1>2, <1>3, Popped
  <2>2. stack' \in [Threads -> Seq(Frames)]
    BY <1>2, <2>1 DEF IInv, Types
  <2>3. ret' \in [Threads -> Good \cup Listings]
    BY <1>2, <1>5 DEF IInv, Types, Answers
  <2> QED
    BY <1>2, <2>2, <2>3 DEF IInv, Types, storage, opened
<1>8. TablesOK'
  BY <1>2, TablesSame
<1>9. ASSUME NEW q \in Threads PROVE ThreadOK(q)'
  <2>1. CASE q = t
    <3>1. lock[op] # t
      BY <1>2, StoreAssumption
    <3>2. answer \in Good \/ op = "inventory"
      BY <1>5 DEF Answers
    <3> QED
      BY <1>1, <1>2, <1>4, <1>5, <1>6, <2>1, <3>1, <3>2, Returns DEF storage
  <2>2. CASE q # t
    <3>1. stack'[q] = stack[q] /\ ret'[q] = ret[q]
      BY <1>2, <2>2 DEF IInv, Types
    <3> QED
      BY <1>2, <1>6, <3>1, OtherThread DEF storage
  <2> QED
    BY <2>1, <2>2
<1> QED
  BY <1>7, <1>8, <1>9 DEF IInv

(* A read that goes on, or asks, and writes no answer.                      *)
LEMMA MovesOn ==
    ASSUME IInv, NEW t \in Threads, stack[t] # <<>>, NEW f, NEW new,
           FrameOK(f), f.op = Top(t).op, f.name = Top(t).name, f.at # "lock",
           \/ new = Front(stack[t]) \o <<f>> /\ f.at \notin Waiting
           \/ \E g : /\ new = Front(stack[t]) \o <<f, g>> /\ f.at \in Waiting
                     /\ FrameOK(g) /\ g.at = "lock"
                     /\ g.op = AsksTable(f) /\ g.name = AsksName(f),
           stack' = [stack EXCEPT ![t] = new],
           UNCHANGED <<storage, opened, answers, ret, calls, recovered, made>>,
           \/ UNCHANGED lock /\ Top(t).at # "lock"
           \/ /\ f.op \in Tables /\ lock[f.op] = None /\ lock' = [lock EXCEPT ![f.op] = t]
              /\ MustCompute(f.op, Key(f.op, f.name)),
           f.op = "inventory" => Listed(f)
    PROVE  IInv'
<1>1. FrameOK(Top(t)) /\ stack[t] \in Seq(Frames) /\ f \in Frames
  BY TopFacts DEF FrameOK
<1>2. new \in Seq(Frames)
  <2>1. CASE new = Front(stack[t]) \o <<f>>
    BY <1>1, <2>1, Swapped
  <2>2. ASSUME NEW g, new = Front(stack[t]) \o <<f, g>>, FrameOK(g) PROVE new \in Seq(Frames)
    <3>1. g \in Frames
      BY <2>2 DEF FrameOK
    <3> QED
      BY <1>1, <2>2, <3>1, Pushed
  <2> QED
    BY <2>1, <2>2
<1>3. /\ lock' \in [Tables -> Threads \cup {None}]
      /\ \A table \in Tables \ {f.op} : lock'[table] = lock[table]
      /\ f.op \in Tables => lock'[f.op] = t /\ MustCompute(f.op, Key(f.op, f.name))
      /\ \A q \in Threads \ {t} : \A table \in Tables : lock'[table] = q <=> lock[table] = q
  <2>1. lock \in [Tables -> Threads \cup {None}] /\ None \notin Threads
    BY StoreAssumption DEF IInv, Types
  <2>2. CASE UNCHANGED lock /\ Top(t).at # "lock"
    <3>1. f.op \in Tables => lock[f.op] = t /\ MustCompute(f.op, Key(f.op, f.name))
      BY <2>2, TopFacts
    <3> QED
      BY <2>1, <2>2, <3>1
  <2>3. CASE /\ f.op \in Tables /\ lock[f.op] = None /\ lock' = [lock EXCEPT ![f.op] = t]
             /\ MustCompute(f.op, Key(f.op, f.name))
    BY <2>1, <2>3
  <2> QED
    BY <2>2, <2>3
<1>4. Types'
  <2>1. stack' \in [Threads -> Seq(Frames)]
    BY <1>2 DEF IInv, Types
  <2> QED
    BY <1>3, <2>1 DEF IInv, Types, storage, opened
<1>5. TablesOK'
  BY TablesSame
<1>6. Keeps
  BY DEF Keeps
<1>7. ASSUME NEW q \in Threads PROVE ThreadOK(q)'
  <2>0. UNCHANGED <<answers, ret, recovered, failing, opened>>
    BY DEF storage
  <2>1. CASE q = t
    <3>1. ThreadOK(t)'
      BY <1>3, <2>0, Moves
    <3> QED
      BY <2>1, <3>1
  <2>2. CASE q # t
    <3>1. stack'[q] = stack[q] /\ ret'[q] = ret[q] /\ recovered'[q] = recovered[q]
      BY <2>0, <2>2 DEF IInv, Types
    <3>2. failing' => failing
      BY <2>0
    <3>3. \A table \in Tables : lock'[table] = q <=> lock[table] = q
      BY <1>3, <2>2
    <3>4. \A table \in Tables : lock[table] = q => answers'[table] = answers[table]
      BY <2>0
    <3> QED
      BY <1>6, <2>0, <3>1, <3>2, <3>3, <3>4, OtherThread
  <2> QED
    BY <2>1, <2>2
<1> QED
  BY <1>4, <1>5, <1>7 DEF IInv

LEMMA MissKeeps == ASSUME IInv, NEW t \in Threads, Miss(t) PROVE IInv'
<1>1. PICK op, name : op = Top(t).op /\ name = Top(t).name
  OBVIOUS
<1>2. /\ stack[t] # <<>> /\ Top(t).at = "lock" /\ lock[op] = None /\ MustCompute(op, Key(op, name))
      /\ lock' = [lock EXCEPT ![op] = t]
      /\ stack' = [stack EXCEPT ![t] = Front(stack[t]) \o Begun(op, name)]
      /\ UNCHANGED <<storage, opened, answers, ret, calls, recovered, made>>
  BY <1>1 DEF Miss
<1>3. FrameOK(Top(t)) /\ op \in Tables /\ op \in Ops /\ name \in Names \cup {Whole}
      /\ (op = "inventory" <=> name = Whole)
  BY <1>1, <1>2, TopFacts DEF FrameOK, Frames
<1>4. PICK f : /\ FrameOK(f) /\ f.op = op /\ f.name = name /\ f.entries = {}
               /\ \/ Begun(op, name) = <<f>> /\ f.at = "compute"
                  \/ \E g : /\ Begun(op, name) = <<f, g>> /\ f.at = "have"
                            /\ FrameOK(g) /\ g.at = "lock"
                            /\ g.op = AsksTable(f) /\ g.name = AsksName(f)
  BY <1>3, BegunFacts
<1>5. f.op = "inventory" => Listed(f)
  BY <1>4 DEF Listed, FrameOK
<1>6. PICK new : new = Front(stack[t]) \o Begun(op, name)
  OBVIOUS
<1>7. \/ new = Front(stack[t]) \o <<f>> /\ f.at \notin Waiting
      \/ \E g : /\ new = Front(stack[t]) \o <<f, g>> /\ f.at \in Waiting
                /\ FrameOK(g) /\ g.at = "lock"
                /\ g.op = AsksTable(f) /\ g.name = AsksName(f)
  BY <1>4, <1>6 DEF Waiting
<1>8. f.at # "lock" /\ stack' = [stack EXCEPT ![t] = new]
  BY <1>2, <1>4, <1>6
<1> QED
  BY <1>1, <1>2, <1>3, <1>4, <1>5, <1>7, <1>8, MovesOn, ZenonT(40)

(* A call finds its thread in no read, and puts it in one or, of an array   *)
(* of pixels, in one and the one it asks.                                   *)
LEMMA CallStack ==
    ASSUME NEW op \in Ops, NEW name \in Names \cup {Whole}, op = "inventory" <=> name = Whole,
           NEW r, r = IF op \in Uncached THEN Begun(op, name) ELSE <<Frame(op, name)>>
    PROVE  /\ r \in Seq(Frames) /\ Nested(r) /\ r # <<>> /\ Last(r).at = "lock"
           /\ \A i \in 1 .. Len(r) : r[i].op \in Tables => r[i].at = "lock"
           /\ r[1].op = "inventory" => r[1].at = "lock" /\ r[1].entries = {}
<1>1. CASE op \in Uncached
  <2>1. PICK f, g : /\ r = <<f, g>> /\ FrameOK(f) /\ f.op = op /\ f.name = name /\ f.at = "have"
                    /\ FrameOK(g) /\ g.at = "lock" /\ g.op = AsksTable(f) /\ g.name = AsksName(f)
    <3>1. PICK f : /\ FrameOK(f) /\ f.op = op /\ f.name = name
                   /\ \/ Begun(op, name) = <<f>> /\ f.at = "compute"
                      \/ \E g : /\ Begun(op, name) = <<f, g>> /\ f.at = "have"
                                /\ FrameOK(g) /\ g.at = "lock"
                                /\ g.op = AsksTable(f) /\ g.name = AsksName(f)
      BY BegunFacts
    <3>2. f.at # "compute"
      BY <1>1, <3>1 DEF FrameOK, Uncached
    <3> QED
      BY <1>1, <3>1, <3>2
  <2>2. Rank(f.op) > Rank(g.op) /\ f.at \in Waiting /\ f \in Frames /\ g \in Frames
    BY <2>1, AsksLower DEF Waiting, FrameOK
  <2>3. Len(r) = 2 /\ r[1] = f /\ r[2] = g /\ r \in Seq(Frames)
    <3>1. ASSUME NEW S, NEW x \in S, NEW y \in S
          PROVE  Len(<<x, y>>) = 2 /\ <<x, y>>[1] = x /\ <<x, y>>[2] = y /\ <<x, y>> \in Seq(S)
      BY <3>1
    <3>2. Len(<<f, g>>) = 2 /\ <<f, g>>[1] = f /\ <<f, g>>[2] = g
      OBVIOUS
    <3>3. <<f, g>> \in Seq(Frames)
      BY <2>2, <3>1
    <3> QED
      BY <2>1, <3>2, <3>3
  <2>4. \A i \in 1 .. 2 : i = 1 \/ i = 2
    OBVIOUS
  <2>5. Nested(r)
    <3>1. \A i \in 1 .. Len(r) - 1 : i = 1
      BY <2>3
    <3>2. \A i, j \in 1 .. Len(r) : i < j => i = 1 /\ j = 2
      <4>1. \A i, j \in 1 .. 2 : i < j => i = 1 /\ j = 2
        OBVIOUS
      <4> QED
        BY <2>3, <4>1, Zenon
    <3> QED
      BY <2>1, <2>2, <2>3, <2>4, <3>1, <3>2 DEF Nested
  <2>6. op \notin Tables /\ op # "inventory"
    BY <1>1 DEF Uncached, Tables
  <2> QED
    BY <2>1, <2>3, <2>4, <2>5, <2>6 DEF Last
<1>2. CASE op \notin Uncached
  <2>1. PICK f : f = Frame(op, name)
    OBVIOUS
  <2>2. FrameOK(f) /\ f.at = "lock" /\ f.entries = {} /\ f \in Frames
    BY <1>2, <2>1, NewFrame DEF Ops, FrameOK, Frame
  <2>3. r = <<f>> /\ Len(r) = 1 /\ r[1] = f /\ r \in Seq(Frames)
    BY <1>2, <2>1, <2>2
  <2>4. Nested(r)
    BY <2>2, <2>3 DEF Nested
  <2> QED
    BY <2>2, <2>3, <2>4 DEF Last
<1> QED
  BY <1>1, <1>2

LEMMA CallKeeps == ASSUME IInv, NEW t \in Threads, Asks(t) PROVE IInv'
<1>1. PICK op \in Ops, name \in Names \cup {Whole} :
        Call(t, op, name) /\ (op = "inventory" <=> name = Whole)
  <2>1. PICK op \in Asked : \/ op # "inventory" /\ \E n \in Names : Call(t, op, n)
                            \/ op = "inventory" /\ Call(t, op, Whole)
    BY DEF Asks
  <2>2. op \in Ops /\ Whole \notin Names
    BY StoreAssumption DEF Ops
  <2> QED
    BY <2>1, <2>2
<1>2. /\ stack[t] = <<>> /\ recovered' = [recovered EXCEPT ![t] = ~ failing]
      /\ UNCHANGED <<own, failing, rewrites, was, opened, answers, lock, made>>
  BY <1>1 DEF Call, storage
<1>3. Len(stack[t]) = 0 /\ \A table \in Tables : lock[table] # t
  <2>1. Len(stack[t]) = 0 /\ Holds(t)
    BY <1>2 DEF IInv, ThreadOK
  <2> QED
    BY <2>1 DEF Holds
<1>4. PICK r, a : /\ stack' = [stack EXCEPT ![t] = r] /\ ret' = [ret EXCEPT ![t] = a]
                  /\ \/ r = stack[t] /\ a = Failed("invalid_argument")
                     \/ r = IF op \in Uncached THEN Begun(op, name) ELSE <<Frame(op, name)>>
                  /\ a \in Good \cup Listings
  <2>1. /\ stack \in [Threads -> Seq(Frames)] /\ ret \in [Threads -> Good \cup Listings]
        /\ Failed("invalid_argument") \in Good
    BY DEF IInv, Types, Failed, Good, Codes
  <2>2. CASE op = "string_arrays" /\ Canon[name] = Refused
    <3>1. ret' = [ret EXCEPT ![t] = Failed("invalid_argument")] /\ stack' = stack
      BY <1>1, <2>2 DEF Call
    <3>2. stack' = [stack EXCEPT ![t] = stack[t]]
      BY <2>1, <3>1
    <3> QED
      BY <2>1, <3>1, <3>2
  <2>3. CASE ~ (op = "string_arrays" /\ Canon[name] = Refused)
    <3>1. stack' = [stack EXCEPT ![t] = IF op \in Uncached THEN Begun(op, name) ELSE <<Frame(op, name)>>]
          /\ ret' = ret
      BY <1>1, <2>3 DEF Call
    <3>2. ret' = [ret EXCEPT ![t] = ret[t]] /\ ret[t] \in Good \cup Listings
      BY <2>1, <3>1
    <3> QED
      BY <3>1, <3>2
  <2> QED
    BY <2>2, <2>3
<1>5. /\ r \in Seq(Frames) /\ Nested(r)
      /\ \A i \in 1 .. Len(r) : r[i].op \in Tables => r[i].at = "lock"
      /\ r # <<>> => /\ Last(r).at = "lock"
                     /\ r[1].op = "inventory" => r[1].at = "lock" /\ r[1].entries = {}
      /\ r = <<>> => a.code # "io_error"
  <2>1. CASE r = stack[t] /\ a = Failed("invalid_argument")
    BY <1>2, <1>3, <2>1 DEF Nested, Failed
  <2>2. CASE r = IF op \in Uncached THEN Begun(op, name) ELSE <<Frame(op, name)>>
    BY <1>1, <2>2, CallStack
  <2> QED
    BY <1>4, <2>1, <2>2
<1>6. Keeps
  BY <1>2 DEF Keeps
<1>7. Types'
  <2>1. stack' \in [Threads -> Seq(Frames)] /\ ret' \in [Threads -> Good \cup Listings]
    BY <1>4, <1>5 DEF IInv, Types
  <2>2. recovered' \in [Threads -> BOOLEAN]
    BY <1>2 DEF IInv, Types
  <2> QED
    BY <1>2, <2>1, <2>2 DEF IInv, Types, opened
<1>8. TablesOK'
  BY <1>2, TablesSame DEF storage
<1>9. ASSUME NEW q \in Threads PROVE ThreadOK(q)'
  <2>1. CASE q = t
    <3>1. stack'[t] = r /\ ret'[t] = a /\ (recovered'[t] <=> ~ failing)
      BY <1>2, <1>4 DEF IInv, Types
    <3>2. Computes(t)' /\ Holds(t)'
      BY <1>2, <1>3, <1>5, <3>1 DEF Computes, Holds
    <3>3. Told(t)' /\ Forgets(t)'
      BY <1>2, <1>5, <3>1 DEF Told, Forgets, Top, Waiting
    <3>4. Takes(t)'
      BY <1>5, <3>1 DEF Takes, Listed, Top, Waiting
    <3> QED
      BY <1>5, <2>1, <3>1, <3>2, <3>3, <3>4 DEF ThreadOK
  <2>2. CASE q # t
    <3>1. stack'[q] = stack[q] /\ ret'[q] = ret[q] /\ recovered'[q] = recovered[q]
      BY <1>2, <1>4, <2>2 DEF IInv, Types
    <3> QED
      BY <1>2, <1>6, <3>1, OtherThread
  <2> QED
    BY <2>1, <2>2
<1> QED
  BY <1>7, <1>8, <1>9 DEF IInv

-----------------------------------------------------------------------------
(* A computation that ends.  What its answer must be for the tables to say  *)
(* what they should, when a node's reading is counted, and where a failure  *)
(* of storage comes from: storage, or the read below.                       *)
Fits(op, name, answer) ==
    /\ answer \in Answers(op)
    /\ op = "node_metadata" /\ answer.code = "ok" =>
         Canon[name] # Refused /\ answer.doc \in was[Canon[name]]
    /\ op = "array_metadata" /\ answer.code = "ok" =>
         /\ Canon[name] # Refused /\ Found("node_metadata", Canon[name])
         /\ answer = Last(answers["node_metadata"][Canon[name]]) /\ answer.doc \in ArrayDocs
    /\ op = "verified_arrays" /\ answer.code = "ok" =>
         /\ Canon[name] # Refused /\ Found("array_metadata", Canon[name])
         /\ answer.doc \in ArrayDocs /\ answer.doc \in was[Canon[name]]
         /\ Described[answer.doc] = Described[Last(answers["array_metadata"][Canon[name]]).doc]
    /\ op \in {"double_arrays", "string_arrays"} /\ answer.code = "ok" => answer.doc \in ArrayDocs
    /\ op = "inventory" /\ answer.code = "ok" =>
         /\ answer \in Listings
         /\ has_consolidated_metadata => {e.name : e \in answer.entries} = Consolidated
         /\ \A e \in answer.entries : EntryStands(e)
Counts(op, name, answer) ==
    \/ made' = made
    \/ /\ op \in Reading /\ Canon[name] # Refused /\ ~ AskAgain(answer)
       /\ op = "verified_arrays" => Canon[name] \in Consolidated
       /\ made' = [made EXCEPT ![op][Key(op, name)] = @ + 1]
Blames(t, answer) ==
    answer.code = "io_error" =>
        \/ failing /\ Top(t).op # "array_metadata"
        \/ Top(t).at \in Waiting /\ answer = ret[t]

(* What is written, and that it was to be.                                  *)
Writes(op, key, answer) == answers' = [answers EXCEPT ![op][key] = Append(@, answer)]

LEMMA Written ==
    ASSUME IInv, NEW t \in Threads, stack[t] # <<>>, Top(t).at # "lock", NEW op \in Tables, NEW key,
           op = Top(t).op, key = Key(op, Top(t).name), NEW answer \in Answers(op),
           Writes(op, key, answer)
    PROVE  /\ key \in Keys(op) /\ MustCompute(op, key) /\ lock[op] = t /\ Keeps
           /\ DOMAIN answers' = Tables
           /\ \A table \in Tables :
                /\ DOMAIN answers'[table] = Keys(table)
                /\ \A k \in Keys(table) : answers'[table][k] \in Seq(Answers(table))
           /\ answers'[op][key] = Append(answers[op][key], answer)
           /\ answers'[op][key] # <<>> /\ Last(answers'[op][key]) = answer
<1>1. key \in Keys(op) /\ MustCompute(op, key) /\ lock[op] = t
  BY TopFacts, FrameKey
<1>2. /\ DOMAIN answers = Tables /\ DOMAIN answers[op] = Keys(op)
      /\ answers[op][key] \in Seq(Answers(op))
      /\ \A table \in Tables :
           /\ DOMAIN answers[table] = Keys(table)
           /\ \A k \in Keys(table) : answers[table][k] \in Seq(Answers(table))
  BY <1>1 DEF IInv, Types
<1>3. /\ Append(answers[op][key], answer) \in Seq(Answers(op))
      /\ Append(answers[op][key], answer) # <<>> /\ Last(Append(answers[op][key], answer)) = answer
  BY <1>2, Appended
<1>4. /\ DOMAIN answers' = Tables /\ DOMAIN answers'[op] = Keys(op)
      /\ answers'[op][key] = Append(answers[op][key], answer)
      /\ \A table \in Tables : table # op => answers'[table] = answers[table]
      /\ \A k \in Keys(op) \ {key} : answers'[op][k] = answers[op][k]
  BY <1>1, <1>2 DEF Writes
<1>5. \A k \in Keys(op) : answers'[op][k] \in Seq(Answers(op))
  BY <1>2, <1>3, <1>4
<1>6. Keeps
  <2> SUFFICES ASSUME NEW table \in Tables, NEW k \in Keys(table), Settled(table, k)
               PROVE  answers'[table][k] = answers[table][k]
    BY DEF Keeps
  <2>1. table # op \/ k # key
    BY <1>1 DEF Settled
  <2> QED
    BY <1>4, <2>1
<1>7. \A table \in Tables :
        /\ DOMAIN answers'[table] = Keys(table)
        /\ \A k \in Keys(table) : answers'[table][k] \in Seq(Answers(table))
  <2> SUFFICES ASSUME NEW table \in Tables
               PROVE  /\ DOMAIN answers'[table] = Keys(table)
                      /\ \A k \in Keys(table) : answers'[table][k] \in Seq(Answers(table))
    OBVIOUS
  <2>1. CASE table = op
    BY <1>4, <1>5, <2>1
  <2>2. CASE table # op
    BY <1>2, <1>4, <2>2
  <2> QED
    BY <2>1, <2>2
<1> QED
  BY <1>1, <1>3, <1>4, <1>6, <1>7

(* The tables once it is.                                                   *)
LEMMA TablesFilled ==
    ASSUME IInv, Keeps, NEW op \in Tables, NEW name, NEW key \in Keys(op), NEW answer,
           op = "inventory" <=> name = Whole, name \in Names \cup {Whole},
           key = Key(op, name), MustCompute(op, key), Fits(op, name, answer), Counts(op, name, answer),
           answers'[op][key] # <<>>, Last(answers'[op][key]) = answer,
           \A table \in Tables : table # op => answers'[table] = answers[table],
           \A k \in Keys(op) \ {key} : answers'[op][k] = answers[op][k],
           UNCHANGED <<storage, opened>>
    PROVE  TablesOK'
<1>1. ASSUME NEW table \in Tables, NEW k \in Keys(table), Found(table, k)'
      PROVE  \/ Found(table, k) /\ Last(answers'[table][k]) = Last(answers[table][k])
             \/ table = op /\ k = key /\ Last(answers'[table][k]) = answer /\ answer.code = "ok"
  <2>1. CASE table = op /\ k = key
    BY <1>1, <2>1 DEF Found
  <2>2. CASE ~ (table = op /\ k = key)
    <3>1. answers'[table][k] = answers[table][k]
      BY <2>2
    <3> QED
      BY <1>1, <3>1 DEF Found, Settled, MustCompute
  <2> QED
    BY <2>1, <2>2
<1>2. ASSUME NEW table \in Tables, NEW k \in Keys(table), Found(table, k)
      PROVE  Found(table, k)' /\ Last(answers'[table][k]) = Last(answers[table][k])
  BY <1>2, FoundKept
<1>3. /\ Consolidated' = Consolidated /\ was' = was /\ own' = own
      /\ has_consolidated_metadata' = has_consolidated_metadata
  BY DEF storage, opened, Consolidated
<1>4. {"node_metadata", "array_metadata", "verified_arrays", "double_arrays", "string_arrays",
       "inventory"} = Tables
      /\ Nodes \subseteq Names /\ Whole \in Keys("inventory")
      /\ \A table \in Tables \ {"inventory"} : Keys(table) = Names
  BY DEF Tables, Nodes, Keys
<1>5. name \in Names /\ Canon[name] # Refused /\ op \in {"node_metadata", "array_metadata"} =>
         key = Canon[name] /\ Canon[name] \in Nodes
  BY KeyFacts
<1>6. ReadOnce'
  <2>1. /\ \A n \in Nodes : MustCompute("node_metadata", n)' => MustCompute("node_metadata", n)
        /\ \A n \in Names : MustCompute("verified_arrays", n)' => MustCompute("verified_arrays", n)
    BY <1>4, SettledKept DEF Settled
  <2>2. NodesOnce /\ VerifiedOnce /\ made \in [Reading -> [Names -> Nat]]
    BY DEF IInv, TablesOK, ReadOnce, Types
  <2>3. CASE made' = made
    BY <1>3, <2>1, <2>2, <2>3 DEF ReadOnce, NodesOnce, VerifiedOnce
  <2>4. CASE /\ op \in Reading /\ Canon[name] # Refused /\ ~ AskAgain(answer)
             /\ op = "verified_arrays" => Canon[name] \in Consolidated
             /\ made' = [made EXCEPT ![op][key] = @ + 1]
    <3>1. op # "inventory" /\ name \in Names /\ key \in Names /\ ~ MustCompute(op, key)'
      BY <1>4, <2>4 DEF Reading, MustCompute
    <3>2. /\ made'[op][key] = made[op][key] + 1
          /\ \A table \in Reading, n \in Names : table # op \/ n # key => made'[table][n] = made[table][n]
      BY <2>2, <2>4, <3>1
    <3>3. NodesOnce'
      <4> SUFFICES ASSUME NEW n \in Nodes
                   PROVE  /\ MustCompute("node_metadata", n)' => made'["node_metadata"][n] = 0 /\ n \notin Consolidated
                          /\ n \in Consolidated => made'["node_metadata"][n] = 0
                          /\ made'["node_metadata"][n] <= 1
        BY <1>3 DEF NodesOnce
      <4>1. CASE op = "node_metadata" /\ n = key
        <5>1. made[op][n] = 0 /\ n \notin Consolidated
          BY <2>2, <4>1 DEF NodesOnce
        <5> QED
          BY <3>1, <3>2, <4>1, <5>1
      <4>2. CASE ~ (op = "node_metadata" /\ n = key)
        <5>1. made'["node_metadata"][n] = made["node_metadata"][n]
          BY <1>4, <3>2, <4>2 DEF Reading
        <5> QED
          BY <2>1, <2>2, <5>1 DEF NodesOnce
      <4> QED
        BY <4>1, <4>2
    <3>4. VerifiedOnce'
      <4> SUFFICES ASSUME NEW n \in Names
                   PROVE  /\ MustCompute("verified_arrays", n)' => made'["verified_arrays"][n] = 0
                          /\ Canon[n] \notin Consolidated => made'["verified_arrays"][n] = 0
                          /\ made'["verified_arrays"][n] <= 1
        BY <1>3 DEF VerifiedOnce
      <4>1. CASE op = "verified_arrays" /\ n = key
        <5>1. made[op][n] = 0
          BY <2>2, <4>1 DEF VerifiedOnce
        <5>2. name = n
          BY <3>1, <4>1, KeyFacts
        <5> QED
          BY <2>4, <3>1, <3>2, <4>1, <5>1, <5>2
      <4>2. CASE ~ (op = "verified_arrays" /\ n = key)
        <5>1. made'["verified_arrays"][n] = made["verified_arrays"][n]
          BY <3>2, <4>2 DEF Reading
        <5> QED
          BY <2>1, <2>2, <5>1 DEF VerifiedOnce
      <4> QED
        BY <4>1, <4>2
    <3> QED
      BY <3>3, <3>4 DEF ReadOnce
  <2> QED
    BY <2>3, <2>4 DEF Counts
<1>7. Had'
  <2> SUFFICES ASSUME NEW n \in Nodes
               PROVE  /\ own[n] \in was[n]
                      /\ Found("node_metadata", n)' /\ n \notin Consolidated =>
                           Last(answers'["node_metadata"][n]).doc \in was[n]
    BY <1>3 DEF Had
  <2>1. /\ own[n] \in was[n]
        /\ Found("node_metadata", n) /\ n \notin Consolidated =>
             Last(answers["node_metadata"][n]).doc \in was[n]
    BY DEF IInv, TablesOK, Had
  <2>2. ASSUME Found("node_metadata", n)', n \notin Consolidated
        PROVE  Last(answers'["node_metadata"][n]).doc \in was[n]
    <3>1. CASE op = "node_metadata" /\ n = key /\ Last(answers'["node_metadata"][n]) = answer
               /\ answer.code = "ok"
      BY <1>5, <3>1 DEF Fits
    <3> QED
      BY <1>1, <1>4, <2>1, <2>2, <3>1
  <2> QED
    BY <2>1, <2>2
<1>8. Parses'
  <2> SUFFICES ASSUME NEW n \in Names, Found("array_metadata", n)'
               PROVE  /\ n \in Nodes /\ Found("node_metadata", n)'
                      /\ Last(answers'["array_metadata"][n]) = Last(answers'["node_metadata"][n])
                      /\ Last(answers'["array_metadata"][n]).doc \in ArrayDocs
    BY DEF Parses
  <2>1. /\ n \in Nodes /\ Found("node_metadata", n)
        /\ Last(answers'["array_metadata"][n]) = Last(answers["node_metadata"][n])
        /\ Last(answers'["array_metadata"][n]).doc \in ArrayDocs
    <3>1. CASE op = "array_metadata" /\ n = key /\ Last(answers'["array_metadata"][n]) = answer
               /\ answer.code = "ok"
      BY <1>5, <3>1 DEF Fits
    <3>2. CASE /\ Found("array_metadata", n)
               /\ Last(answers'["array_metadata"][n]) = Last(answers["array_metadata"][n])
      BY <3>2 DEF IInv, TablesOK, Parses
    <3> QED
      BY <1>1, <1>4, <3>1, <3>2
  <2> QED
    BY <1>2, <1>4, <2>1
<1>9. Verified'
  <2> SUFFICES ASSUME NEW n \in Names, Found("verified_arrays", n)'
               PROVE  LET doc == Last(answers'["verified_arrays"][n]).doc IN
                      /\ Canon[n] # Refused /\ Found("array_metadata", Canon[n])'
                      /\ doc \in ArrayDocs /\ doc \in was[Canon[n]]
                      /\ Described[doc] = Described[Last(answers'["array_metadata"][Canon[n]]).doc]
    BY <1>3 DEF Verified
  <2>1. PICK last : last = Last(answers'["verified_arrays"][n])
    OBVIOUS
  <2>2. /\ Canon[n] # Refused /\ Found("array_metadata", Canon[n])
        /\ last.doc \in ArrayDocs /\ last.doc \in was[Canon[n]]
        /\ Described[last.doc] = Described[Last(answers["array_metadata"][Canon[n]]).doc]
    <3>1. CASE op = "verified_arrays" /\ n = key /\ last = answer /\ answer.code = "ok"
      <4>1. n = name
        BY <3>1, KeyFacts
      <4> QED
        BY <3>1, <4>1 DEF Fits
    <3>2. CASE /\ Found("verified_arrays", n)
               /\ last = Last(answers["verified_arrays"][n])
      BY <3>2 DEF IInv, TablesOK, Verified
    <3> QED
      BY <1>1, <1>4, <2>1, <3>1, <3>2
  <2>3. Canon[n] \in Names
    BY <2>2, KeyFacts
  <2>4. /\ Found("array_metadata", Canon[n])'
        /\ Last(answers'["array_metadata"][Canon[n]]) = Last(answers["array_metadata"][Canon[n]])
    BY <1>2, <1>4, <2>2, <2>3
  <2> QED
    BY <2>1, <2>2, <2>4
<1>10. ReadsArrays'
  <2> SUFFICES ASSUME NEW table \in {"double_arrays", "string_arrays"}, NEW n \in Names, Found(table, n)'
               PROVE  Last(answers'[table][n]).doc \in ArrayDocs
    BY DEF ReadsArrays
  <2>1. CASE op = table /\ n = key /\ Last(answers'[table][n]) = answer /\ answer.code = "ok"
    BY <2>1 DEF Fits
  <2>2. CASE Found(table, n) /\ Last(answers'[table][n]) = Last(answers[table][n])
    BY <2>2 DEF IInv, TablesOK, ReadsArrays
  <2> QED
    BY <1>1, <1>4, <2>1, <2>2
<1>11. Taken'
  <2> SUFFICES ASSUME Found("inventory", Whole)'
               PROVE  LET listing == Last(answers'["inventory"][Whole]) IN
                      /\ listing \in Listings
                      /\ has_consolidated_metadata => {e.name : e \in listing.entries} = Consolidated
                      /\ \A e \in listing.entries : EntryStands(e)'
    BY <1>3 DEF Taken
  <2>1. PICK listing : listing = Last(answers'["inventory"][Whole])
    OBVIOUS
  <2>2. /\ listing \in Listings
        /\ has_consolidated_metadata => {e.name : e \in listing.entries} = Consolidated
        /\ \A e \in listing.entries : EntryStands(e)
    <3>1. CASE op = "inventory" /\ listing = answer /\ answer.code = "ok"
      BY <3>1 DEF Fits
    <3>2. CASE Found("inventory", Whole) /\ listing = Last(answers["inventory"][Whole])
      BY <3>2 DEF IInv, TablesOK, Taken
    <3> QED
      BY <1>1, <1>4, <2>1, <3>1, <3>2
  <2>3. listing.entries \subseteq Entries
    BY <2>2 DEF Listings
  <2>4. \A e \in listing.entries : EntryStands(e)'
    BY <2>2, <2>3, EntryKept
  <2> QED
    BY <2>1, <2>2, <2>4
<1> QED
  BY <1>6, <1>7, <1>8, <1>9, <1>10, <1>11 DEF TablesOK

(* An inventory that has found a node to be an array asks for that array    *)
(* when the node is settled, so no computation of the node is inside it.    *)
LEMMA ArrayAnswer ==
    ASSUME IInv, NEW t \in Threads, stack[t] # <<>>, Top(t).at # "lock",
           stack[t][1].at = "array", Len(stack[t]) \in {2, 3}
    PROVE  Top(t).op = "array_metadata" /\ (Top(t).at \in Waiting => ret[t].code # "io_error")
<1>0. PICK s : s = stack[t]
  OBVIOUS
<1>1. s \in Seq(Frames) /\ Nested(s) /\ s # <<>> /\ Takes(t) /\ Top(t) = s[Len(s)]
  BY <1>0, TopFacts, StackFacts DEF IInv, ThreadOK, Top
<1>2. 1 \in 1 .. Len(s) /\ 1 \in 1 .. Len(s) - 1 /\ 1 + 1 = 2 /\ 2 \in 1 .. Len(s)
  BY <1>0
<1>3. FrameOK(s[1]) /\ FrameOK(s[2]) /\ s[2].op = AsksTable(s[1]) /\ s[2].name = AsksName(s[1])
  BY <1>1, <1>2 DEF Nested
<1>4. PICK m : m = NextOf(s[1])
  OBVIOUS
<1>5. /\ s[1].op = "inventory" /\ m \in Nodes
      /\ s[2].op = "array_metadata" /\ s[2].name = m
  <2>1. s[1].op = "inventory" /\ s[1].todo # {} /\ s[1].todo \subseteq Nodes /\ s[1].at = "array"
    BY <1>0, <1>3 DEF FrameOK, Frames
  <2>2. m \in Nodes
    BY <1>4, <2>1 DEF NextOf
  <2> QED
    BY <1>3, <1>4, <2>1, <2>2 DEF AsksTable, AsksName
<1>6. Listed(s[1]) /\ (Len(s) < 3 /\ Top(t).at \in Waiting => ret[t].code # "io_error")
  BY <1>0, <1>1, <1>5 DEF Takes
<1>7. CASE Len(s) = 2
  <2>1. 2 < 3
    OBVIOUS
  <2> QED
    BY <1>1, <1>5, <1>6, <1>7, <2>1
<1>8. CASE Len(s) = 3
  <2>1. 2 \in 1 .. Len(s) - 1 /\ 2 + 1 = 3
    BY <1>8
  <2>2. s[2].at \in Waiting /\ s[3].op = AsksTable(s[2]) /\ s[3].name = AsksName(s[2])
    BY <1>1, <2>1 DEF Nested
  <2>3. s[2].at = "have"
    BY <1>3, <1>5, <2>2 DEF FrameOK, Waiting
  <2>4. s[3].op = "node_metadata" /\ s[3].name = m
    BY <1>5, <2>2, <2>3 DEF AsksTable, AsksName, Consults, ValueReads
  <2>5. Top(t).op = "node_metadata" /\ Top(t).name = m
    BY <1>1, <1>8, <2>4
  <2>6. MustCompute("node_metadata", m)
    <3>1. Key("node_metadata", m) = m /\ "node_metadata" \in Tables
      BY <1>5, KeyFacts DEF Tables
    <3> QED
      BY <2>5, <3>1, TopFacts
  <2>7. Settled("node_metadata", m)
    BY <1>0, <1>4, <1>6 DEF Listed
  <2> QED
    BY <2>6, <2>7 DEF Settled
<1> QED
  BY <1>0, <1>7, <1>8

LEMMA FinishKeeps ==
    ASSUME IInv, NEW t \in Threads, stack[t] # <<>>, Top(t).at # "lock", NEW answer,
           Finish(t, answer), Fits(Top(t).op, Top(t).name, answer),
           Counts(Top(t).op, Top(t).name, answer), Blames(t, answer)
    PROVE  IInv'
<1>0. PICK op, name, key : op = Top(t).op /\ name = Top(t).name /\ key = Key(op, name)
  OBVIOUS
<1>1. /\ FrameOK(Top(t)) /\ stack[t] \in Seq(Frames) /\ op \in Ops /\ name \in Names \cup {Whole}
      /\ op = "inventory" <=> name = Whole
  BY <1>0, TopFacts DEF FrameOK, Frames
<1>2. /\ stack' = [stack EXCEPT ![t] = Front(@)] /\ ret' = [ret EXCEPT ![t] = answer]
      /\ UNCHANGED <<storage, opened, calls, recovered>> /\ UNCHANGED <<failing, recovered, opened>>
  BY DEF Finish, storage
<1>3. answer \in Answers(op) /\ answer \in Good \cup Listings /\ (op # "inventory" => answer \in Good)
  BY <1>0 DEF Fits, Answers
<1>4. recovered[t] => answer.code # "io_error"
  <2>1. Forgets(t)
    BY DEF IInv, ThreadOK
  <2> QED
    BY <2>1 DEF Forgets, Blames
<1>5. stack[t][1].at = "array" /\ Len(stack[t]) \in {2, 3} => answer.code # "io_error"
  BY ArrayAnswer DEF Blames
<1>6. made' \in [Reading -> [Names -> Nat]]
  <2>0. made \in [Reading -> [Names -> Nat]]
    BY DEF IInv, Types
  <2>1. CASE made' = made
    BY <2>0, <2>1
  <2>2. CASE op \in Reading /\ made' = [made EXCEPT ![op][key] = @ + 1]
    <3>0. made[op] \in [Names -> Nat]
      BY <2>0, <2>2
    <3>1. [made[op] EXCEPT ![key] = @ + 1] \in [Names -> Nat]
      <4>1. PICK counts \in [Names -> Nat] : counts = made[op]
        BY <3>0
      <4>2. PICK k \in Names : k = key
        BY <1>0, <1>1, <2>2, KeyFacts DEF Reading, Tables
      <4>3. counts[k] + 1 \in Nat
        OBVIOUS
      <4>4. [counts EXCEPT ![k] = counts[k] + 1] \in [Names -> Nat]
        BY <4>3
      <4> QED
        BY <4>1, <4>2, <4>4
    <3> QED
      BY <2>0, <2>2, <3>1
  <2> QED
    BY <1>0, <2>1, <2>2 DEF Counts
<1>7. /\ stack' \in [Threads -> Seq(Frames)] /\ ret' \in [Threads -> Good \cup Listings]
  <2>1. Front(stack[t]) \in Seq(Frames)
    BY <1>1, Popped
  <2> QED
    BY <1>2, <1>3, <2>1 DEF IInv, Types
<1>8. ASSUME NEW q \in Threads, q # t
      PROVE  stack'[q] = stack[q] /\ ret'[q] = ret[q] /\ recovered'[q] = recovered[q]
  BY <1>2, <1>8 DEF IInv, Types
<1>9. CASE op \in Uncached
  <2>1. UNCHANGED <<answers, lock>> /\ op \notin Tables
    BY <1>0, <1>9 DEF Finish, Uncached, Tables
  <2>2. made' = made
    BY <1>0, <1>9 DEF Counts, Uncached, Reading
  <2>3. Keeps
    BY <2>1 DEF Keeps
  <2>4. Types'
    BY <1>2, <1>7, <2>1, <2>2 DEF IInv, Types, storage, opened
  <2>5. TablesOK'
    BY <1>2, <2>1, <2>2, TablesSame
  <2>6. ASSUME NEW q \in Threads PROVE ThreadOK(q)'
    <3>1. CASE q = t
      <4>1. ThreadOK(t)'
        BY <1>0, <1>2, <1>3, <1>4, <1>5, <2>1, <2>3, Returns
      <4> QED
        BY <3>1, <4>1
    <3>2. CASE q # t
      BY <1>2, <1>8, <2>1, <2>3, <3>2, OtherThread
    <3> QED
      BY <3>1, <3>2
  <2> QED
    BY <2>4, <2>5, <2>6 DEF IInv
<1>10. CASE op \notin Uncached
  <2>1. /\ op \in Tables /\ answers' = [answers EXCEPT ![op][key] = Append(@, answer)]
        /\ lock' = [lock EXCEPT ![op] = None]
    BY <1>0, <1>1, <1>10 DEF Finish, Ops
  <2>2. /\ key \in Keys(op) /\ MustCompute(op, key) /\ lock[op] = t /\ Keeps
        /\ DOMAIN answers' = Tables
        /\ \A table \in Tables :
             /\ DOMAIN answers'[table] = Keys(table)
             /\ \A k \in Keys(table) : answers'[table][k] \in Seq(Answers(table))
        /\ answers'[op][key] # <<>> /\ Last(answers'[op][key]) = answer
        /\ \A table \in Tables : table # op => answers'[table] = answers[table]
        /\ \A k \in Keys(op) \ {key} : answers'[op][k] = answers[op][k]
    <3>1. op = Top(t).op /\ key = Key(op, Top(t).name) /\ op \in Tables /\ answer \in Answers(op)
      BY <1>0, <1>3, <2>1
    <3>2. Writes(op, key, answer)
      BY <2>1 DEF Writes
    <3>3. /\ key \in Keys(op) /\ MustCompute(op, key) /\ lock[op] = t /\ Keeps
          /\ DOMAIN answers' = Tables
          /\ \A table \in Tables :
               /\ DOMAIN answers'[table] = Keys(table)
               /\ \A k \in Keys(table) : answers'[table][k] \in Seq(Answers(table))
          /\ answers'[op][key] # <<>> /\ Last(answers'[op][key]) = answer
      BY <3>1, <3>2, Written
    <3>4. DOMAIN answers = Tables /\ DOMAIN answers[op] = Keys(op)
      BY <2>1 DEF IInv, Types
    <3>5. /\ \A table \in Tables : table # op => answers'[table] = answers[table]
          /\ \A k \in Keys(op) \ {key} : answers'[op][k] = answers[op][k]
      BY <2>1, <3>4
    <3> QED
      BY <3>3, <3>5
  <2>3. /\ lock' \in [Tables -> Threads \cup {None}] /\ lock'[op] = None /\ lock'[op] # t
        /\ \A table \in Tables : table # op => lock'[table] = lock[table]
    BY <2>1, StoreAssumption DEF IInv, Types
  <2>4. Types'
    BY <1>2, <1>6, <1>7, <2>2, <2>3 DEF IInv, Types, storage, opened
  <2>5. TablesOK'
    <3>1. /\ IInv /\ Keeps /\ op \in Tables /\ key \in Keys(op)
          /\ (op = "inventory" <=> name = Whole) /\ name \in Names \cup {Whole}
          /\ key = Key(op, name) /\ MustCompute(op, key)
          /\ Fits(op, name, answer) /\ Counts(op, name, answer)
          /\ UNCHANGED <<storage, opened>>
      BY <1>0, <1>1, <1>2, <2>1, <2>2
    <3>2. /\ answers'[op][key] # <<>> /\ Last(answers'[op][key]) = answer
          /\ \A table \in Tables : table # op => answers'[table] = answers[table]
          /\ \A k \in Keys(op) \ {key} : answers'[op][k] = answers[op][k]
      BY <2>2
    <3> QED
      BY <3>1, <3>2, TablesFilled, ZenonT(40)
  <2>6. ASSUME NEW q \in Threads PROVE ThreadOK(q)'
    <3>1. CASE q = t
      <4>1. \A table \in Tables \ {op} :
              answers'[table] = answers[table] /\ lock'[table] = lock[table]
        BY <2>2, <2>3
      <4>2. /\ lock'[op] # t /\ Keeps
            /\ answers'[op][key] # <<>> /\ Last(answers'[op][key]) = answer
        BY <2>2, <2>3
      <4>3. op = Top(t).op /\ key = Key(op, Top(t).name)
        BY <1>0
      <4>4. ThreadOK(t)'
        BY <1>2, <1>3, <1>4, <1>5, <4>1, <4>2, <4>3, Returns
      <4> QED
        BY <3>1, <4>4
    <3>2. CASE q # t
      <4>1. \A table \in Tables : lock'[table] = q <=> lock[table] = q
        BY <2>2, <2>3, <3>2, StoreAssumption
      <4>2. \A table \in Tables : lock[table] = q => answers'[table] = answers[table]
        BY <2>2, <3>2
      <4> QED
        BY <1>2, <1>8, <2>2, <3>2, <4>1, <4>2, OtherThread
    <3> QED
      BY <3>1, <3>2
  <2> QED
    BY <2>4, <2>5, <2>6 DEF IInv
<1> QED
  BY <1>9, <1>10

-----------------------------------------------------------------------------
(* What the computations answer.                                            *)
LEMMA Failures ==
    \A code \in Codes : Failed(code) \in Good /\ Failed(code).code = code
BY DEF Failed, Good

LEMMA NodeReadFacts ==
    ASSUME IInv, NEW n \in Nodes, NEW answer \in NodeRead(n)
    PROVE  /\ answer \in Good
           /\ answer.code = "ok" => answer.doc \in was[n] /\ answer.doc \in Docs
           /\ answer.code = "io_error" => failing
<1>1. own[n] \in Docs \cup {"garbage", "absent"} /\ own[n] \in was[n]
  BY DEF IInv, Types, TablesOK, Had
<1>2. /\ Failed("not_found") \in Good /\ Failed("not_found").code = "not_found"
      /\ Failed("invalid_metadata") \in Good /\ Failed("invalid_metadata").code = "invalid_metadata"
      /\ Failed("io_error") \in Good /\ Failed("io_error").code = "io_error"
  BY Failures DEF Codes
<1>3. own[n] \in Docs => /\ Answered(own[n]) \in Good
                         /\ Answered(own[n]).code = "ok" /\ Answered(own[n]).doc = own[n]
  BY DEF Answered, Good
<1>4. \/ answer = Failed("not_found")
      \/ answer = Failed("invalid_metadata")
      \/ answer = Answered(own[n]) /\ own[n] \in Docs
      \/ answer = Failed("io_error") /\ failing
  BY <1>1 DEF NodeRead, Parsed
<1> QED
  BY <1>1, <1>2, <1>3, <1>4

(* A read that waits for another knows what it was told.                    *)
LEMMA ToldFacts ==
    ASSUME IInv, NEW t \in Threads, stack[t] # <<>>, Top(t).at = "have"
    PROVE  /\ FrameOK(Top(t)) /\ Top(t).op \in Ops \ {"node_metadata", "inventory"} /\ Top(t).name \in Names
           /\ ret[t] \in Good
           /\ ret[t].code = "ok" =>
                LET table == Consults(Top(t).op) IN
                /\ Found(table, Key(table, Top(t).name))
                /\ Last(answers[table][Key(table, Top(t).name)]) = ret[t]
<1>1. FrameOK(Top(t)) /\ Told(t)
  BY TopFacts DEF IInv, ThreadOK
<1>2. Top(t).op \in Ops \ {"node_metadata", "inventory"} /\ Top(t).name \in Names
  BY <1>1 DEF FrameOK, Frames
<1>3. AsksTable(Top(t)) = Consults(Top(t).op) /\ AsksName(Top(t)) = Top(t).name
  BY DEF AsksTable, AsksName
<1> QED
  BY <1>1, <1>2, <1>3 DEF Told, Found, Waiting

(* An array that was found under a name is the node's the name spells.      *)
LEMMA FoundArray ==
    ASSUME IInv, NEW name \in Names, Found("array_metadata", Key("array_metadata", name))
    PROVE  LET n == Canon[name] IN
           /\ n # Refused /\ n \in Nodes /\ Key("array_metadata", name) = n
           /\ Found("node_metadata", n)
           /\ Last(answers["array_metadata"][n]) = Last(answers["node_metadata"][n])
           /\ Last(answers["array_metadata"][n]).doc \in ArrayDocs
<1>1. Key("array_metadata", name) \in Nodes
  <2>1. Key("array_metadata", name) \in Names
    BY KeyFacts DEF Tables
  <2> QED
    BY <2>1 DEF IInv, TablesOK, Parses
<1>2. Canon[name] # Refused
  BY <1>1, KeyFacts
<1>3. Key("array_metadata", name) = Canon[name] /\ Canon[name] \in Nodes /\ Canon[name] \in Names
  BY <1>2, KeyFacts
<1> QED
  BY <1>2, <1>3 DEF IInv, TablesOK, Parses

LEMMA ComputeNodeKeeps == ASSUME IInv, NEW t \in Threads, ComputeNode(t) PROVE IInv'
<1>1. stack[t] # <<>> /\ Top(t).op = "node_metadata" /\ Top(t).at = "compute"
  BY DEF ComputeNode, At
<1>2. Top(t).name \in Names
  BY <1>1, TopFacts DEF FrameOK, Frames
<1>3. CASE Canon[Top(t).name] = Refused
  <2>1. Finish(t, Failed("invalid_argument")) /\ made' = made
    BY <1>3 DEF ComputeNode
  <2>2. Failed("invalid_argument") \in Good /\ Failed("invalid_argument").code = "invalid_argument"
    BY Failures DEF Codes
  <2>3. /\ Fits(Top(t).op, Top(t).name, Failed("invalid_argument"))
        /\ Counts(Top(t).op, Top(t).name, Failed("invalid_argument"))
        /\ Blames(t, Failed("invalid_argument"))
    BY <1>1, <2>1, <2>2 DEF Fits, Counts, Blames, Answers
  <2> QED
    BY <1>1, <2>1, <2>3, FinishKeeps
<1>4. CASE Canon[Top(t).name] # Refused
  <2>0. PICK n \in Nodes : n = Canon[Top(t).name]
    BY <1>2, <1>4, KeyFacts
  <2>1. PICK answer \in NodeRead(n) :
          /\ Finish(t, answer)
          /\ made' = IF AskAgain(answer) THEN made ELSE [made EXCEPT !["node_metadata"][n] = @ + 1]
    BY <1>4, <2>0 DEF ComputeNode
  <2>2. /\ answer \in Good /\ (answer.code = "ok" => answer.doc \in was[n])
        /\ answer.code = "io_error" => failing
    BY NodeReadFacts
  <2>3. /\ Fits(Top(t).op, Top(t).name, answer) /\ Blames(t, answer)
    BY <1>1, <1>4, <2>0, <2>2 DEF Fits, Blames, Answers
  <2>4. Counts(Top(t).op, Top(t).name, answer)
    <3>1. Key("node_metadata", Top(t).name) = n
      BY <1>2, <1>4, <2>0, KeyFacts
    <3> QED
      BY <1>1, <1>4, <2>1, <3>1 DEF Counts, Reading
  <2> QED
    BY <1>1, <2>1, <2>3, <2>4, FinishKeeps
<1> QED
  BY <1>3, <1>4

LEMMA RefuseArrayKeeps == ASSUME IInv, NEW t \in Threads, RefuseArray(t) PROVE IInv'
<1>1. /\ stack[t] # <<>> /\ Top(t).op = "array_metadata" /\ Top(t).at = "compute"
      /\ Finish(t, Failed("invalid_argument")) /\ made' = made
  BY DEF RefuseArray, At
<1>2. Failed("invalid_argument") \in Good /\ Failed("invalid_argument").code = "invalid_argument"
  BY Failures DEF Codes
<1>3. /\ Fits(Top(t).op, Top(t).name, Failed("invalid_argument"))
      /\ Counts(Top(t).op, Top(t).name, Failed("invalid_argument"))
      /\ Blames(t, Failed("invalid_argument"))
  BY <1>1, <1>2 DEF Fits, Counts, Blames, Answers
<1> QED
  BY <1>1, <1>3, FinishKeeps

LEMMA PassOnFailureKeeps == ASSUME IInv, NEW t \in Threads, PassOnFailure(t) PROVE IInv'
<1>1. stack[t] # <<>> /\ Top(t).at = "have" /\ ret[t].code # "ok" /\ Finish(t, ret[t]) /\ made' = made
  BY DEF PassOnFailure
<1>2. Top(t).op # "inventory" /\ ret[t] \in Good
  BY <1>1, ToldFacts
<1>3. PICK a : a = ret[t]
  OBVIOUS
<1>4. Fits(Top(t).op, Top(t).name, a) /\ Counts(Top(t).op, Top(t).name, a) /\ Blames(t, a)
  BY <1>1, <1>2, <1>3 DEF Fits, Counts, Blames, Answers, Waiting
<1> QED
  BY <1>1, <1>3, <1>4, FinishKeeps

LEMMA ParseArrayKeeps == ASSUME IInv, NEW t \in Threads, ParseArray(t) PROVE IInv'
<1>1. /\ stack[t] # <<>> /\ Top(t).op = "array_metadata" /\ Top(t).at = "have" /\ ret[t].code = "ok"
      /\ Finish(t, ParseArrayMetadata(ret[t].doc)) /\ made' = made
  BY DEF ParseArray, At
<1>2. PICK name \in Names : name = Top(t).name
  BY <1>1, ToldFacts
<1>3. Canon[name] # Refused /\ Key("node_metadata", name) = Canon[name]
  <2>1. Canon[name] # Refused
    BY <1>1, <1>2, TopFacts DEF FrameOK
  <2> QED
    BY <2>1, KeyFacts
<1>4. /\ ret[t] \in Good /\ Found("node_metadata", Canon[name])
      /\ Last(answers["node_metadata"][Canon[name]]) = ret[t]
  <2>1. Consults("array_metadata") = "node_metadata"
    BY DEF Consults, ValueReads
  <2> QED
    BY <1>1, <1>2, <1>3, <2>1, ToldFacts
<1>5. PICK a : a = ParseArrayMetadata(ret[t].doc)
  OBVIOUS
<1>6. CASE ret[t].doc \in ArrayDocs
  <2>1. a = ret[t]
    BY <1>1, <1>4, <1>5, <1>6 DEF ParseArrayMetadata, Answered, Good
  <2>2. Fits(Top(t).op, Top(t).name, a) /\ Counts(Top(t).op, Top(t).name, a) /\ Blames(t, a)
    BY <1>1, <1>2, <1>3, <1>4, <1>6, <2>1 DEF Fits, Counts, Blames, Answers
  <2> QED
    BY <1>1, <1>5, <2>2, FinishKeeps
<1>7. CASE ret[t].doc \notin ArrayDocs
  <2>1. a = Failed("invalid_metadata")
    BY <1>5, <1>7 DEF ParseArrayMetadata
  <2>2. a \in Good /\ a.code = "invalid_metadata"
    BY <2>1, Failures DEF Codes
  <2>3. Fits(Top(t).op, Top(t).name, a) /\ Counts(Top(t).op, Top(t).name, a) /\ Blames(t, a)
    BY <1>1, <2>2 DEF Fits, Counts, Blames, Answers
  <2> QED
    BY <1>1, <1>5, <2>3, FinishKeeps
<1> QED
  BY <1>6, <1>7

(* An array whose values are to be read, as the store has described it.     *)
LEMMA ToldArray ==
    ASSUME IInv, NEW t \in Threads, stack[t] # <<>>, Top(t).op = "verified_arrays",
           Top(t).at = "have", ret[t].code = "ok"
    PROVE  \E n \in Nodes : /\ Top(t).name \in Names /\ n = Canon[Top(t).name] /\ n # Refused
                            /\ Found("array_metadata", n) /\ Last(answers["array_metadata"][n]) = ret[t]
                            /\ Found("node_metadata", n) /\ Last(answers["node_metadata"][n]) = ret[t]
                            /\ ret[t] \in Good /\ ret[t].doc \in ArrayDocs
<1>1. Consults("verified_arrays") = "array_metadata"
  BY DEF Consults, ValueReads
<1>2. /\ Top(t).name \in Names /\ ret[t] \in Good
      /\ Found("array_metadata", Key("array_metadata", Top(t).name))
      /\ Last(answers["array_metadata"][Key("array_metadata", Top(t).name)]) = ret[t]
  BY <1>1, ToldFacts
<1> QED
  BY <1>2, FoundArray

LEMMA OwnKeeps == ASSUME IInv, NEW t \in Threads, OwnInTheFirstPlace(t) PROVE IInv'
<1>1. /\ stack[t] # <<>> /\ Top(t).op = "verified_arrays" /\ Top(t).at = "have" /\ ret[t].code = "ok"
      /\ Canon[Top(t).name] \notin Consolidated /\ Finish(t, ret[t]) /\ made' = made
  BY DEF OwnInTheFirstPlace, At, IsCopy
<1>2. PICK n \in Nodes :
        /\ Top(t).name \in Names /\ n = Canon[Top(t).name] /\ n # Refused
        /\ Found("array_metadata", n) /\ Last(answers["array_metadata"][n]) = ret[t]
        /\ Found("node_metadata", n) /\ Last(answers["node_metadata"][n]) = ret[t]
        /\ ret[t] \in Good /\ ret[t].doc \in ArrayDocs
  BY <1>1, ToldArray
<1>3. ret[t].doc \in was[n]
  BY <1>1, <1>2 DEF IInv, TablesOK, Had
<1>4. PICK a : a = ret[t]
  OBVIOUS
<1>5. Fits(Top(t).op, Top(t).name, a) /\ Counts(Top(t).op, Top(t).name, a) /\ Blames(t, a)
  BY <1>1, <1>2, <1>3, <1>4 DEF Fits, Counts, Blames, Answers
<1> QED
  BY <1>1, <1>4, <1>5, FinishKeeps

LEMMA HoldToOwnKeeps == ASSUME IInv, NEW t \in Threads, HoldToOwn(t) PROVE IInv'
<1>1. stack[t] # <<>> /\ Top(t).op = "verified_arrays" /\ Top(t).at = "have" /\ ret[t].code = "ok"
      /\ Canon[Top(t).name] \in Consolidated
  BY DEF HoldToOwn, At, IsCopy
<1>2. PICK n \in Nodes :
        /\ Top(t).name \in Names /\ n = Canon[Top(t).name] /\ n # Refused
        /\ Found("array_metadata", n) /\ Last(answers["array_metadata"][n]) = ret[t]
        /\ ret[t] \in Good /\ ret[t].doc \in ArrayDocs
  BY <1>1, ToldArray
<1>3. PICK read, a :
        /\ read \in NodeRead(n)
        /\ Finish(t, a) /\ a = Held(ret[t].doc, read)
        /\ made' = IF AskAgain(read) THEN made ELSE [made EXCEPT !["verified_arrays"][Top(t).name] = @ + 1]
  BY <1>2 DEF HoldToOwn
<1>4. /\ read \in Good /\ (read.code = "ok" => read.doc \in was[n])
      /\ read.code = "io_error" => failing
  BY <1>3, NodeReadFacts
<1>5. Failed("invalid_metadata") \in Good /\ Failed("invalid_metadata").code = "invalid_metadata"
  BY Failures DEF Codes
<1>6. \/ a = Failed("invalid_metadata")
      \/ a = read /\ read.code # "ok"
      \/ /\ a = Answered(read.doc) /\ read.code = "ok" /\ read.doc \in ArrayDocs
         /\ Described[ret[t].doc] = Described[read.doc]
  BY <1>3 DEF Held, RequireSameArray
<1>7. Counts(Top(t).op, Top(t).name, a)
  <2>1. Key("verified_arrays", Top(t).name) = Top(t).name
    BY <1>2, KeyFacts
  <2>2. ~ AskAgain(read) => ~ AskAgain(a)
    BY <1>5, <1>6 DEF AskAgain, Answered
  <2> QED
    BY <1>1, <1>2, <1>3, <2>1, <2>2 DEF Counts, Reading
<1>8. Fits(Top(t).op, Top(t).name, a) /\ Blames(t, a)
  <2>1. CASE a = Failed("invalid_metadata")
    BY <1>1, <1>5, <2>1 DEF Fits, Blames, Answers
  <2>2. CASE a = read /\ read.code # "ok"
    BY <1>1, <1>4, <2>2 DEF Fits, Blames, Answers
  <2>3. CASE /\ a = Answered(read.doc) /\ read.code = "ok" /\ read.doc \in ArrayDocs
             /\ Described[ret[t].doc] = Described[read.doc]
    <3>1. a \in Good /\ a.code = "ok" /\ a.doc = read.doc
      BY <2>3 DEF Answered, Good, Docs
    <3> QED
      BY <1>1, <1>2, <1>4, <2>3, <3>1 DEF Fits, Blames, Answers
  <2> QED
    BY <1>6, <2>1, <2>2, <2>3
<1> QED
  BY <1>1, <1>3, <1>7, <1>8, FinishKeeps

LEMMA ReadValuesKeeps == ASSUME IInv, NEW t \in Threads, ReadValues(t) PROVE IInv'
<1>1. stack[t] # <<>> /\ Top(t).op \in ValueReads /\ Top(t).at = "have" /\ ret[t].code = "ok"
      /\ made' = made
  BY DEF ReadValues
<1>2. PICK a \in ValuesRead(Top(t).op, Canon[Top(t).name], ret[t].doc) : Finish(t, a)
  BY DEF ReadValues
<1>3. ret[t].doc \in ArrayDocs
  <2>1. Consults(Top(t).op) = "verified_arrays"
    BY <1>1 DEF Consults, ValueReads
  <2>2. PICK name \in Names : name = Top(t).name
    BY <1>1, ToldFacts
  <2>3. Key("verified_arrays", name) = name
    BY KeyFacts
  <2>4. Found("verified_arrays", name) /\ Last(answers["verified_arrays"][name]) = ret[t]
    BY <1>1, <2>1, <2>2, <2>3, ToldFacts
  <2> QED
    BY <2>4 DEF IInv, TablesOK, Verified
<1>4. /\ Failed("invalid_metadata") \in Good /\ Failed("invalid_metadata").code = "invalid_metadata"
      /\ Failed("io_error") \in Good /\ Failed("io_error").code = "io_error"
  BY Failures DEF Codes
<1>5. \/ a = Failed("invalid_metadata")
      \/ a = Failed("io_error") /\ failing
      \/ \E doc \in ArrayDocs : a = Answered(doc)
  BY <1>2, <1>3 DEF ValuesRead
<1>6. /\ a \in Good /\ (a.code = "ok" => a.doc \in ArrayDocs)
      /\ a.code = "io_error" => failing
  BY <1>3, <1>4, <1>5 DEF Answered, Good, Docs
<1>7. Fits(Top(t).op, Top(t).name, a) /\ Counts(Top(t).op, Top(t).name, a) /\ Blames(t, a)
  BY <1>1, <1>6 DEF Fits, Counts, Blames, Answers, ValueReads
<1> QED
  BY <1>1, <1>2, <1>7, FinishKeeps

-----------------------------------------------------------------------------
(* The inventory, which is the whole of its thread's stack when it takes a  *)
(* step of its own.                                                         *)
LEMMA InventoryFacts ==
    ASSUME IInv, NEW t \in Threads, stack[t] # <<>>, Top(t).op = "inventory"
    PROVE  /\ Top(t) \in Frames /\ FrameOK(Top(t)) /\ Listed(Top(t)) /\ Top(t).name = Whole
           /\ Top(t).at = "array" => ret[t].code # "io_error"
           /\ Top(t).at \in {"node", "array"} => NextOf(Top(t)) \in Top(t).todo
           /\ Top(t).todo \subseteq Nodes /\ Top(t).entries \subseteq Entries
<1>1. stack[t] \in Seq(Frames) /\ Nested(stack[t]) /\ FrameOK(Top(t)) /\ Takes(t)
  BY TopFacts DEF IInv, ThreadOK
<1>2. Len(stack[t]) = 1 /\ Top(t) = stack[t][1]
  BY <1>1, StackFacts DEF Top
<1>3. Listed(Top(t)) /\ (Top(t).at = "array" => ret[t].code # "io_error")
  BY <1>2 , <1>1 DEF Takes, Waiting
<1>4. Top(t).at \in {"node", "array"} => NextOf(Top(t)) \in Top(t).todo
  BY <1>1 DEF FrameOK, NextOf
<1> QED
  BY <1>1, <1>3, <1>4 DEF FrameOK, Frames

(* A frame of the inventory at another of its points.                       *)
LEMMA InventoryFrame ==
    ASSUME NEW f, NEW at \in {"each", "node", "array"}, NEW todo \in SUBSET Nodes,
           NEW entries \in SUBSET Entries, at \in {"node", "array"} => todo # {},
           f = [op |-> "inventory", name |-> Whole, at |-> at, todo |-> todo, entries |-> entries]
    PROVE  /\ FrameOK(f) /\ f.op = "inventory" /\ f.name = Whole /\ f.at = at
           /\ f.todo = todo /\ f.entries = entries
<1>1. /\ f.op = "inventory" /\ f.name = Whole /\ f.at = at
      /\ f.todo = todo /\ f.entries = entries
  OBVIOUS
<1>2. f \in Frames
  BY DEF Frames, Ops, Tables
<1> QED
  BY <1>1, <1>2 DEF FrameOK

LEMMA ListNodesKeeps == ASSUME IInv, NEW t \in Threads, ListNodes(t) PROVE IInv'
<1>1. stack[t] # <<>> /\ Top(t).op = "inventory" /\ Top(t).at = "compute"
  BY DEF ListNodes, At
<1>2. CASE failing /\ Finish(t, Failed("io_error")) /\ UNCHANGED made
  <2>1. Failed("io_error") \in Good /\ Failed("io_error").code = "io_error"
    BY Failures DEF Codes
  <2>2. /\ Fits(Top(t).op, Top(t).name, Failed("io_error"))
        /\ Counts(Top(t).op, Top(t).name, Failed("io_error")) /\ Blames(t, Failed("io_error"))
    BY <1>1, <1>2, <2>1 DEF Fits, Counts, Blames, Answers
  <2> QED
    BY <1>1, <1>2, <2>2, FinishKeeps
<1>3. CASE GoOn(t, [Top(t) EXCEPT !.at = "each",
                     !.todo = IF has_consolidated_metadata THEN Consolidated
                              ELSE {n \in Nodes : own[n] # "absent"}])
  <2>1. PICK todo : todo = IF has_consolidated_metadata THEN Consolidated
                           ELSE {n \in Nodes : own[n] # "absent"}
    OBVIOUS
  <2>2. todo \in SUBSET Nodes
    <3>1. Consolidated \subseteq Nodes
      BY DEF IInv, Types, Consolidated
    <3> QED
      BY <2>1, <3>1
  <2>3. PICK f : f = [Top(t) EXCEPT !.at = "each", !.todo = todo]
    OBVIOUS
  <2>4. Top(t) \in Frames /\ Top(t).name = Whole /\ Top(t).entries = {}
    BY <1>1, InventoryFacts DEF FrameOK
  <2>5. f = [op |-> "inventory", name |-> Whole, at |-> "each", todo |-> todo, entries |-> {}]
    BY <1>1, <2>3, <2>4 DEF Frames
  <2>6. FrameOK(f) /\ f.op = "inventory" /\ f.name = Whole /\ f.at = "each" /\ f.todo = todo /\ f.entries = {}
    BY <2>2, <2>5, InventoryFrame
  <2>7. Listed(f)
    BY <2>1, <2>6 DEF Listed
  <2>8. PICK new : new = Front(stack[t]) \o <<f>>
    OBVIOUS
  <2>9. /\ stack' = [stack EXCEPT ![t] = new] /\ UNCHANGED lock
        /\ UNCHANGED <<storage, opened, answers, ret, calls, recovered, made>>
    BY <1>3, <2>1, <2>3, <2>8 DEF GoOn
  <2> QED
    BY <1>1, <2>4, <2>6, <2>7, <2>8, <2>9, MovesOn DEF Waiting
<1> QED
  BY <1>2, <1>3 DEF ListNodes

(* A question of the inventory's, about the node it has come to.            *)
LEMMA InventoryAsks ==
    ASSUME IInv, NEW t \in Threads, stack[t] # <<>>, Top(t).op = "inventory",
           Top(t).at \in {"each", "node"}, Top(t).todo # {}, NEW at \in {"node", "array"},
           NEW op, op = IF at = "node" THEN "node_metadata" ELSE "array_metadata",
           Ask(t, [Top(t) EXCEPT !.at = at], op, AskedOf(t)),
           at = "array" => /\ Settled("node_metadata", AskedOf(t))
                           /\ Last(answers["node_metadata"][AskedOf(t)]).doc \in ArrayDocs
    PROVE  IInv'
<1>1. PICK f, n : f = [Top(t) EXCEPT !.at = at] /\ n = AskedOf(t)
  OBVIOUS
<1>2. /\ Top(t) \in Frames /\ Listed(Top(t)) /\ Top(t).name = Whole
      /\ Top(t).todo \in SUBSET Nodes /\ Top(t).entries \in SUBSET Entries
  BY InventoryFacts
<1>3. f = [op |-> "inventory", name |-> Whole, at |-> at, todo |-> Top(t).todo, entries |-> Top(t).entries]
  BY <1>1, <1>2 DEF Frames
<1>4. /\ FrameOK(f) /\ f.op = "inventory" /\ f.name = Whole /\ f.at = at
      /\ f.todo = Top(t).todo /\ f.entries = Top(t).entries
  BY <1>2, <1>3, InventoryFrame
<1>5. n = NextOf(f) /\ n \in Nodes
  BY <1>1, <1>2, <1>4 DEF AskedOf, NextOf
<1>6. Listed(f)
  BY <1>1, <1>2, <1>4, <1>5 DEF Listed
<1>7. f.at \in Waiting /\ AsksTable(f) = op /\ AsksName(f) = n
  BY <1>4, <1>5 DEF Waiting, AsksTable, AsksName
<1>8. PICK g, new : g = Frame(op, n) /\ new = Front(stack[t]) \o <<f, g>>
  OBVIOUS
<1>9. FrameOK(g) /\ g.at = "lock" /\ g.op = op /\ g.name = n
  <2>1. n \in Names /\ n # Whole
    BY <1>5, StoreAssumption DEF Nodes
  <2>2. op \in Tables /\ op # "inventory"
    BY DEF Tables
  <2> QED
    BY <1>8, <2>1, <2>2, NewFrame
<1>10. /\ stack' = [stack EXCEPT ![t] = new] /\ UNCHANGED lock
       /\ UNCHANGED <<storage, opened, answers, ret, calls, recovered, made>>
  BY <1>1, <1>8 DEF Ask
<1> QED
  BY <1>2, <1>4, <1>6, <1>7, <1>8, <1>9, <1>10, MovesOn, ZenonT(40)

LEMMA EachNodeKeeps == ASSUME IInv, NEW t \in Threads, EachNode(t) PROVE IInv'
<1>1. /\ stack[t] # <<>> /\ Top(t).op = "inventory" /\ Top(t).at = "each" /\ Top(t).todo # {}
      /\ Ask(t, [Top(t) EXCEPT !.at = "node"], "node_metadata", AskedOf(t))
  BY DEF EachNode, At, AskedOf
<1> QED
  BY <1>1, InventoryAsks

(* An entry added, of the node the inventory has come to.                   *)
LEMMA InventoryAdds ==
    ASSUME IInv, NEW t \in Threads, stack[t] # <<>>, Top(t).op = "inventory",
           Top(t).at \in {"node", "array"}, NEW kind \in {"group", "unrecognised", "array"},
           NEW array \in Nat, AddEntry(t, AskedOf(t), kind, array),
           EntryStands(Entry(AskedOf(t), kind, array))
    PROVE  IInv'
<1>1. PICK n, e : n = AskedOf(t) /\ e = Entry(n, kind, array)
  OBVIOUS
<1>2. /\ Top(t) \in Frames /\ Listed(Top(t)) /\ Top(t).name = Whole
      /\ Top(t).todo \in SUBSET Nodes /\ Top(t).entries \in SUBSET Entries
      /\ n \in Top(t).todo /\ n \in Nodes
  BY <1>1, InventoryFacts DEF AskedOf, NextOf
<1>3. e \in Entries /\ e.name = n /\ EntryStands(e)
  BY <1>1, <1>2 DEF Entry, Entries
<1>4. PICK f, todo, entries : /\ todo = Top(t).todo \ {n} /\ entries = Top(t).entries \cup {e}
                              /\ f = [Top(t) EXCEPT !.at = "each", !.todo = todo, !.entries = entries]
  OBVIOUS
<1>5. f = [op |-> "inventory", name |-> Whole, at |-> "each", todo |-> todo, entries |-> entries]
  BY <1>2, <1>4 DEF Frames
<1>6. todo \in SUBSET Nodes /\ entries \in SUBSET Entries
  BY <1>2, <1>3, <1>4
<1>7. FrameOK(f) /\ f.op = "inventory" /\ f.name = Whole /\ f.at = "each" /\ f.todo = todo /\ f.entries = entries
  BY <1>5, <1>6, InventoryFrame
<1>8. Listed(f)
  <2>1. \A x \in entries : EntryStands(x)
    BY <1>2, <1>3, <1>4 DEF Listed
  <2>2. {x.name : x \in entries} = {x.name : x \in Top(t).entries} \cup {n}
    BY <1>3, <1>4
  <2>3. has_consolidated_metadata => {x.name : x \in entries} \cup todo = Consolidated
    <3>1. has_consolidated_metadata => {x.name : x \in Top(t).entries} \cup Top(t).todo = Consolidated
      BY <1>2 DEF Listed
    <3> QED
      BY <1>2, <1>4, <2>2, <3>1
  <2> QED
    BY <1>7, <2>1, <2>3 DEF Listed
<1>9. PICK new : new = Front(stack[t]) \o <<f>>
  OBVIOUS
<1>10. /\ stack' = [stack EXCEPT ![t] = new] /\ UNCHANGED lock
       /\ UNCHANGED <<storage, opened, answers, ret, calls, recovered, made>>
  BY <1>1, <1>4, <1>9 DEF AddEntry, GoOn
<1> QED
  BY <1>2, <1>7, <1>8, <1>9, <1>10, MovesOn DEF Waiting

(* What the inventory has been told of the node.                            *)
LEMMA InventoryTold ==
    ASSUME IInv, NEW t \in Threads, stack[t] # <<>>, Top(t).op = "inventory",
           Top(t).at \in {"node", "array"}, NEW table,
           table = IF Top(t).at = "node" THEN "node_metadata" ELSE "array_metadata"
    PROVE  /\ AskedOf(t) \in Nodes /\ AskedOf(t) \in Top(t).todo /\ AskedOf(t) = NextOf(Top(t))
           /\ ret[t] \in Good
           /\ ret[t].code # "io_error" =>
                Settled(table, AskedOf(t)) /\ Last(answers[table][AskedOf(t)]) = ret[t]
<1>1. AskedOf(t) = NextOf(Top(t)) /\ NextOf(Top(t)) \in Nodes /\ AskedOf(t) \in Top(t).todo
  BY InventoryFacts DEF AskedOf, NextOf
<1>2. Top(t).at \in Waiting /\ AsksTable(Top(t)) = table /\ AsksName(Top(t)) = AskedOf(t)
  BY <1>1 DEF AsksTable, AsksName, Waiting
<1>3. Key(table, AskedOf(t)) = AskedOf(t)
  BY <1>1, KeyFacts
<1>4. Told(t)
  BY DEF IInv, ThreadOK
<1> QED
  BY <1>1, <1>2, <1>3, <1>4 DEF Told

LEMMA NodeKindKeeps == ASSUME IInv, NEW t \in Threads, NodeKind(t) PROVE IInv'
<1>1. stack[t] # <<>> /\ Top(t).op = "inventory" /\ Top(t).at = "node"
  BY DEF NodeKind, At
<1>2. PICK n, a : n = AskedOf(t) /\ a = ret[t]
  OBVIOUS
<1>3. /\ n \in Nodes /\ n \in Top(t).todo /\ a \in Good
      /\ a.code # "io_error" =>
           Settled("node_metadata", n) /\ Last(answers["node_metadata"][n]) = a
  BY <1>1, <1>2, InventoryTold
<1>4. CASE NodeUnreadable(a) /\ Finish(t, a) /\ UNCHANGED made
  <2>1. Fits(Top(t).op, Top(t).name, a) /\ Counts(Top(t).op, Top(t).name, a) /\ Blames(t, a)
    BY <1>1, <1>2, <1>3, <1>4 DEF NodeUnreadable, Fits, Counts, Blames, Answers, Waiting
  <2> QED
    BY <1>1, <1>4, <2>1, FinishKeeps
<1>5. CASE /\ ~ NodeUnreadable(a) /\ a.doc \notin ArrayDocs
           /\ AddEntry(t, n, IF a.doc = "group" THEN "group" ELSE "unrecognised", 0)
  <2>1. PICK kind \in {"group", "unrecognised"} : AddEntry(t, n, kind, 0)
    BY <1>5
  <2>2. Settled("node_metadata", n) /\ Last(answers["node_metadata"][n]) = a
        /\ a.code \in {"ok", "invalid_metadata"}
    BY <1>3, <1>5 DEF NodeUnreadable
  <2>3. PICK e : e = Entry(n, kind, 0)
    OBVIOUS
  <2>4. e.name = n /\ e.kind # "array"
    BY <2>1, <2>3 DEF Entry
  <2>5. EntryStands(e)
    BY <1>5, <2>2, <2>4 DEF EntryStands
  <2>6. EntryStands(Entry(AskedOf(t), kind, 0)) /\ AddEntry(t, AskedOf(t), kind, 0) /\ 0 \in Nat
    BY <1>2, <2>1, <2>3, <2>5
  <2> QED
    BY <1>1, <2>6, InventoryAdds
<1>6. CASE a.doc \in ArrayDocs /\ Ask(t, [Top(t) EXCEPT !.at = "array"], "array_metadata", n)
  <2>1. a.code # "io_error"
    BY <1>3, <1>6, StoreAssumption DEF Good, Codes
  <2>2. Top(t).todo # {} /\ Settled("node_metadata", n) /\ Last(answers["node_metadata"][n]).doc \in ArrayDocs
    BY <1>3, <1>6, <2>1
  <2> QED
    BY <1>1, <1>2, <1>6, <2>2, InventoryAsks
<1> QED
  BY <1>2, <1>4, <1>5, <1>6 DEF NodeKind

LEMMA NodeArrayKeeps == ASSUME IInv, NEW t \in Threads, NodeArray(t) PROVE IInv'
<1>1. /\ stack[t] # <<>> /\ Top(t).op = "inventory" /\ Top(t).at = "array"
      /\ AddEntry(t, AskedOf(t), "array", Len(answers["array_metadata"][AskedOf(t)]))
  BY DEF NodeArray, At
<1>2. PICK n, len : n = AskedOf(t) /\ len = Len(answers["array_metadata"][n])
  OBVIOUS
<1>3. n \in Nodes /\ n = NextOf(Top(t)) /\ n \in Names
  BY <1>1, <1>2, InventoryTold DEF Nodes
<1>4. Settled("array_metadata", n)
  BY <1>1, <1>2, InventoryTold, InventoryFacts
<1>5. Settled("node_metadata", n) /\ Last(answers["node_metadata"][n]).doc \in ArrayDocs
  BY <1>1, <1>3, InventoryFacts DEF Listed
<1>6. Last(answers["node_metadata"][n]).code = "ok" /\ len \in Nat
  <2>1. answers["node_metadata"][n] \in Seq(Good) /\ answers["array_metadata"][n] \in Seq(Good)
    BY <1>3 DEF IInv, Types, Tables, Keys, Answers
  <2>2. answers["node_metadata"][n] # <<>>
    BY <1>5 DEF Settled, MustCompute
  <2>3. Last(answers["node_metadata"][n]) \in Good
    BY <2>1, <2>2, Popped
  <2> QED
    BY <1>2, <1>5, <2>1, <2>3, StoreAssumption DEF Good, Codes
<1>7. PICK e : e = Entry(n, "array", len)
  OBVIOUS
<1>8. e.name = n /\ e.kind = "array" /\ e.array = len
  BY <1>7 DEF Entry
<1>9. EntryStands(e)
  BY <1>2, <1>4, <1>5, <1>6, <1>8 DEF EntryStands
<1>10. EntryStands(Entry(AskedOf(t), "array", len)) /\ AddEntry(t, AskedOf(t), "array", len)
  BY <1>1, <1>2, <1>7, <1>9
<1> QED
  BY <1>1, <1>6, <1>10, InventoryAdds

LEMMA EndInventoryKeeps == ASSUME IInv, NEW t \in Threads, EndInventory(t) PROVE IInv'
<1>1. /\ stack[t] # <<>> /\ Top(t).op = "inventory" /\ Top(t).at = "each" /\ Top(t).todo = {}
      /\ Finish(t, Listing(Top(t).entries)) /\ made' = made
  BY DEF EndInventory, At
<1>2. PICK a : a = Listing(Top(t).entries)
  OBVIOUS
<1>3. Listed(Top(t)) /\ Top(t).entries \subseteq Entries
  BY <1>1, InventoryFacts
<1>4. a \in Listings /\ a.code = "ok" /\ a.entries = Top(t).entries
  BY <1>2, <1>3 DEF Listing, Listings
<1>5. Fits(Top(t).op, Top(t).name, a) /\ Counts(Top(t).op, Top(t).name, a) /\ Blames(t, a)
  <2>1. has_consolidated_metadata => {e.name : e \in a.entries} = Consolidated
    BY <1>1, <1>3, <1>4 DEF Listed
  <2>2. \A e \in a.entries : EntryStands(e)
    BY <1>3, <1>4 DEF Listed
  <2> QED
    BY <1>1, <1>4, <2>1, <2>2 DEF Fits, Counts, Blames, Answers
<1> QED
  BY <1>1, <1>2, <1>5, FinishKeeps

-----------------------------------------------------------------------------
LEMMA CachesStep == ASSUME IInv, [Next]_vars PROVE IInv'
<1>1. CASE UNCHANGED vars
  <2>1. /\ UNCHANGED <<own, failing, was, copies, has_consolidated_metadata, answers, lock, stack,
                       ret, recovered, made>>
        /\ UNCHANGED <<storage, opened, answers, made>>
    BY <1>1 DEF vars, storage, opened
  <2>2. Types' /\ TablesOK' /\ Keeps
    BY <2>1, TablesSame DEF IInv, Types, Keeps
  <2>3. ASSUME NEW t \in Threads PROVE ThreadOK(t)'
    BY <2>1, <2>2, OtherThread
  <2> QED
    BY <2>2, <2>3 DEF IInv
<1>2. ASSUME NEW t \in Threads, Step(t) PROVE IInv'
  BY <1>2, HitKeeps, MissKeeps, ComputeNodeKeeps, RefuseArrayKeeps, PassOnFailureKeeps,
     ParseArrayKeeps, OwnKeeps, HoldToOwnKeeps, ReadValuesKeeps, ListNodesKeeps, EachNodeKeeps,
     NodeKindKeeps, NodeArrayKeeps, EndInventoryKeeps DEF Step
<1>3. ASSUME Recover \/ \E n \in Nodes : \E d \in OwnDocs[n] : Rewrite(n, d) PROVE IInv'
  BY <1>3, StorageKeeps
<1>4. ASSUME NEW t \in Threads, Asks(t) PROVE IInv'
  BY <1>4, CallKeeps
<1> QED
  BY <1>1, <1>2, <1>3, <1>4 DEF Next, Done

(* The tables and the threads filling them stay as IInv says: an answer     *)
(* stands once it is one, what a read was told is what its table says, and  *)
(* a table's lock is held by the one thread computing in it.                *)
THEOREM CachesInvariant == Spec => []IInv
<1>1. Init => IInv
  BY CachesInit
<1>2. IInv /\ [Next]_vars => IInv'
  BY CachesStep
<1> QED
  BY <1>1, <1>2, PTL DEF Spec

(* "The nesting forms a DAG" (StoreCaches, src/src/store.h): no thread      *)
(* waits for a table at or above one it holds, so no two wait on each other.*)
THEOREM NestingIsADag == Spec => []LockOrder
<1>1. IInv => LockOrder
  <2> SUFFICES ASSUME IInv, NEW t \in Threads
               PROVE  /\ \A i, j \in DOMAIN stack[t] :
                           i < j => Rank(stack[t][i].op) > Rank(stack[t][j].op)
                      /\ \A table \in Tables :
                           lock[table] = t <=>
                             \E i \in DOMAIN stack[t] : stack[t][i].op = table /\ stack[t][i].at # "lock"
    BY DEF LockOrder
  <2>1. ThreadOK(t) /\ DOMAIN stack[t] = 1 .. Len(stack[t])
    BY DEF IInv, Types
  <2>2. \A table \in Tables : lock[table] = t =>
          \E i \in DOMAIN stack[t] : stack[t][i].op = table /\ stack[t][i].at # "lock"
    BY <2>1 DEF ThreadOK, Holds
  <2>3. ASSUME NEW table \in Tables, NEW i \in DOMAIN stack[t],
               stack[t][i].op = table, stack[t][i].at # "lock"
        PROVE  lock[table] = t
    BY <2>1, <2>3 DEF ThreadOK, Computes
  <2> QED
    BY <2>1, <2>2, <2>3 DEF ThreadOK, Nested
<1> QED
  BY <1>1, CachesInvariant, PTL

(* Whoever asks, a document that is a node's own in the first place is read *)
(* for an answer once at most, however it is spelled; one the root's copy   *)
(* accounts for only in verifying, once at most for each spelling           *)
(* (ReadNodeMetadata, VerifyArray).                                         *)
THEOREM NodesReadOnce == Spec => []NodeReadOnce
<1>1. IInv => NodeReadOnce
  BY DEF IInv, TablesOK, ReadOnce, NodesOnce, VerifiedOnce, NodeReadOnce
<1> QED
  BY <1>1, CachesInvariant, PTL

(* A call begun once storage is back is never told that it failed, though   *)
(* others met the failure before it in the same tables (memo.h).            *)
THEOREM FailuresForgotten == Spec => []FailureForgotten
<1>1. IInv => FailureForgotten
  BY DEF IInv, ThreadOK, Forgets, FailureForgotten
<1> QED
  BY <1>1, CachesInvariant, PTL

(* VerifyArray: an array whose values may be read has had, as a document of *)
(* its own, one that agrees with what the store says it is.                 *)
THEOREM VerifiedArraysAgree == Spec => []VerifiedAgrees
<1>1. IInv => VerifiedAgrees
  <2> SUFFICES ASSUME IInv, NEW name \in Names, answers["verified_arrays"][name] # <<>>,
                      Last(answers["verified_arrays"][name]).code = "ok"
               PROVE  LET last == Last(answers["verified_arrays"][name])
                          told == answers["array_metadata"][Canon[name]]
                      IN  /\ Last(told).code = "ok"
                          /\ Described[last.doc] = Described[Last(told).doc]
                          /\ last.doc \in was[Canon[name]]
    BY DEF VerifiedAgrees
  <2>1. Found("verified_arrays", name)
    BY DEF Found, Settled, MustCompute, AskAgain
  <2> QED
    BY <2>1 DEF IInv, TablesOK, Verified, Found
<1> QED
  BY <1>1, CachesInvariant, PTL

(* ReadInventory: an inventory taken agrees with every read that follows,   *)
(* its pointers at answers that stand.                                      *)
THEOREM InventoryAgrees == Spec => []InventoryStands
<1>1. IInv => InventoryStands
  <2> SUFFICES ASSUME IInv, answers["inventory"][Whole] # <<>>,
                      Last(answers["inventory"][Whole]).code = "ok"
               PROVE  LET taken == answers["inventory"][Whole] IN
                      /\ has_consolidated_metadata => {e.name : e \in Last(taken).entries} = Consolidated
                      /\ \A e \in Last(taken).entries :
                           LET node == Last(answers["node_metadata"][e.name]) IN
                           /\ node.code \in {"ok", "invalid_metadata"}
                           /\ e.kind = "array" <=> node.doc \in ArrayDocs
                           /\ e.kind = "array" =>
                                /\ e.array = Len(answers["array_metadata"][e.name])
                                /\ answers["array_metadata"][e.name][e.array].code # "io_error"
    BY DEF InventoryStands
  <2>1. Found("inventory", Whole)
    BY DEF Found, Settled, MustCompute, AskAgain
  <2>2. PICK taken : taken = Last(answers["inventory"][Whole])
    OBVIOUS
  <2>3. /\ has_consolidated_metadata => {e.name : e \in taken.entries} = Consolidated
        /\ \A e \in taken.entries : EntryStands(e)
    BY <2>1, <2>2 DEF IInv, TablesOK, Taken
  <2>4. ASSUME NEW e \in taken.entries, e.kind = "array"
        PROVE  /\ e.array = Len(answers["array_metadata"][e.name])
               /\ answers["array_metadata"][e.name][e.array].code # "io_error"
    BY <2>3, <2>4 DEF EntryStands, Settled, MustCompute, AskAgain, Last
  <2> QED
    BY <2>2, <2>3, <2>4 DEF EntryStands
<1> QED
  BY <1>1, CachesInvariant, PTL

-----------------------------------------------------------------------------
(* The one way an entry changes.                                            *)
LEMMA OneWrite ==
    ASSUME IInv, [Next]_vars
    PROVE  \/ answers' = answers
           \/ \E op, key, answer :
                op \in Tables /\ key \in Keys(op) /\ MustCompute(op, key) /\ Writes(op, key, answer)
<1>1. ASSUME NEW t \in Threads, stack[t] # <<>>, Top(t).at # "lock", NEW answer, Finish(t, answer)
      PROVE  \/ answers' = answers
             \/ \E op, key, a :
                  op \in Tables /\ key \in Keys(op) /\ MustCompute(op, key) /\ Writes(op, key, a)
  <2>1. FrameOK(Top(t)) /\ Top(t).op \in Ops
    BY <1>1, TopFacts DEF FrameOK, Frames
  <2>2. CASE Top(t).op \in Uncached
    BY <1>1, <2>2 DEF Finish
  <2>3. CASE Top(t).op \notin Uncached
    <3>1. PICK op, key : op = Top(t).op /\ key = Key(op, Top(t).name)
      OBVIOUS
    <3>2. op \in Tables /\ key \in Keys(op) /\ MustCompute(op, key)
      BY <1>1, <2>1, <2>3, <3>1, TopFacts, FrameKey DEF Ops
    <3>3. Writes(op, key, answer)
      BY <1>1, <2>3, <3>1 DEF Finish, Writes
    <3> QED
      BY <3>2, <3>3
  <2> QED
    BY <2>2, <2>3
<1>2. ASSUME NEW t \in Threads, Step(t)
      PROVE  \/ answers' = answers
             \/ stack[t] # <<>> /\ Top(t).at # "lock" /\ \E answer : Finish(t, answer)
  <2>1. CASE Hit(t) \/ Miss(t)
    BY <2>1 DEF Hit, Miss
  <2>2. CASE ComputeNode(t)
    BY <2>2 DEF ComputeNode, At
  <2>3. CASE RefuseArray(t) \/ PassOnFailure(t) \/ ParseArray(t) \/ OwnInTheFirstPlace(t)
    BY <2>3 DEF RefuseArray, PassOnFailure, ParseArray, OwnInTheFirstPlace, At
  <2>4. CASE HoldToOwn(t) \/ ReadValues(t)
    BY <2>4 DEF HoldToOwn, ReadValues, At
  <2>5. CASE ListNodes(t) \/ EachNode(t)
    BY <2>5 DEF ListNodes, EachNode, At, GoOn, Ask
  <2>6. CASE NodeKind(t) \/ NodeArray(t)
    BY <2>6 DEF NodeKind, NodeArray, At, AddEntry, GoOn, Ask
  <2>7. CASE EndInventory(t)
    BY <2>7 DEF EndInventory, At
  <2> QED
    BY <1>2, <2>1, <2>2, <2>3, <2>4, <2>5, <2>6, <2>7 DEF Step
<1>3. ASSUME NEW t \in Threads, Asks(t) PROVE answers' = answers
  BY <1>3 DEF Asks, Call
<1>4. ASSUME \/ Recover \/ \E n \in Nodes : \E d \in OwnDocs[n] : Rewrite(n, d)
             \/ UNCHANGED vars
      PROVE  answers' = answers
  BY <1>4 DEF Recover, Rewrite, vars
<1> QED
  BY <1>1, <1>2, <1>3, <1>4 DEF Next, Done

(* An answer to be asked for again is a read that could not be made.        *)
LEMMA OnlyFailuresAskedAgain ==
    ASSUME IInv, NEW table \in Tables, NEW key \in Keys(table), MustCompute(table, key),
           answers[table][key] # <<>>
    PROVE  Last(answers[table][key]).code = "io_error"
<1>1. Last(answers[table][key]) \in Good \cup Listings
  BY Popped DEF IInv, Types, Answers
<1> QED
  BY <1>1 DEF MustCompute, AskAgain, Good, Listings, Codes

(* "An entry is written once and never erased or replaced" (memo.h): what a *)
(* caller was given stays as it was, and only a read that could not be made *)
(* is superseded.                                                           *)
THEOREM EntriesStand == Spec => AnswersStand
<1> DEFINE A == \A table \in Tables : \A key \in DOMAIN answers[table] :
                  LET before == answers[table][key]
                      after == answers'[table][key]
                  IN  \/ after = before
                      \/ /\ IsPrefix(before, after)
                         /\ before # <<>> => Last(before).code = "io_error"
<1>1. IInv /\ [Next]_vars => A
  <2> SUFFICES ASSUME IInv, [Next]_vars, NEW table \in Tables, NEW key \in DOMAIN answers[table]
               PROVE  \/ answers'[table][key] = answers[table][key]
                      \/ /\ IsPrefix(answers[table][key], answers'[table][key])
                         /\ answers[table][key] # <<>> => Last(answers[table][key]).code = "io_error"
    OBVIOUS
  <2>1. CASE answers' = answers
    BY <2>1
  <2>2. ASSUME NEW op \in Tables, NEW k \in Keys(op), NEW answer,
               MustCompute(op, k), Writes(op, k, answer)
        PROVE  \/ answers'[table][key] = answers[table][key]
               \/ /\ IsPrefix(answers[table][key], answers'[table][key])
                  /\ answers[table][key] # <<>> => Last(answers[table][key]).code = "io_error"
    <3>1. /\ DOMAIN answers = Tables /\ DOMAIN answers[op] = Keys(op)
          /\ answers[op][k] \in Seq(Answers(op)) /\ key \in Keys(table)
      BY DEF IInv, Types
    <3>2. CASE table = op /\ key = k
      <4>1. answers'[op][k] = Append(answers[op][k], answer)
        BY <2>2, <3>1 DEF Writes
      <4>2. IsPrefix(answers[op][k], Append(answers[op][k], answer))
        <5>1. answers[op][k] \in Seq(Answers(op) \cup {answer})
          BY <3>1
        <5> QED
          BY <5>1, Appended
      <4> QED
        BY <2>2, <3>1, <3>2, <4>1, <4>2, OnlyFailuresAskedAgain
    <3>3. CASE ~ (table = op /\ key = k)
      BY <2>2, <3>1, <3>3 DEF Writes
    <3> QED
      BY <3>2, <3>3
  <2> QED
    BY <2>1, <2>2, OneWrite
<1>2. IInv /\ [Next]_vars => [A]_vars
  BY <1>1
<1> QED
  BY <1>2, CachesInvariant, PTL DEF Spec, AnswersStand
=============================================================================
