---------------------------- MODULE StoreCaches ----------------------------
(***************************************************************************)
(* A store's read-only view: the memo tables of src/src/memo.h and the     *)
(* reads of src/src/store.cc that fill them.                               *)
(*                                                                         *)
(* A table holds its lock across a computation, and the computations nest, *)
(* so a thread is a stack of the reads it is inside.  Between two of its   *)
(* steps the storage may fail, come back or be rewritten, and other        *)
(* threads may ask for the same things.                                    *)
(*                                                                         *)
(* A document is a value that stands for all it says.  A name is what a    *)
(* caller spells; Canon is NormalizeNodeName.                              *)
(***************************************************************************)
EXTENDS Integers, FiniteSets, SequencesExt, Functions

CONSTANTS
    Threads,
    Names,          \* spellings callers use, canonical ones among them
    Canon,          \* NormalizeNodeName: the node a name spells, or Refused
    Refused,
    ArrayDocs,      \* documents of arrays
    Described,      \* what RequireSameArray compares of one
    Consolidations, \* root documents' copies of children's, as sets of <<node, document>>
    OwnDocs,        \* what each node's own document may be
    Asked,          \* bound: reads callers make
    None,           \* no thread
    MaxCalls,       \* bound: calls made by all threads
    MaxRewrites     \* bound: documents rewritten while the store is open

Nodes == {n \in Names : Canon[n] = n}

Whole == "whole hierarchy"      \* what the inventory is of
Tables == {"node_metadata", "array_metadata", "verified_arrays", "inventory",
           "double_arrays", "string_arrays"}
ValueReads == {"double_arrays", "string_arrays", "pixels"}
Uncached == {"pixels"}
Reading == {"node_metadata", "verified_arrays"}     \* what reads a node's own document

(* Documents that parse, and what a failed read has in place of one. *)
Docs == ArrayDocs \cup {"group", "other"}
NoDoc == "no document"

ASSUME StoreAssumption ==
    /\ Canon \in [Names -> Names \cup {Refused}]
    /\ Refused \notin Names
    /\ \A n \in Names : Canon[n] # Refused => Canon[n] \in Nodes
    /\ MaxCalls \in Nat /\ MaxRewrites \in Nat
    /\ Whole \notin Names /\ None \notin Threads
    /\ ArrayDocs \cap {"group", "other", NoDoc} = {}
    /\ OwnDocs \in [Nodes -> SUBSET (Docs \cup {"garbage", "absent"})]
    /\ Consolidations \subseteq SUBSET (Nodes \X Docs)
    /\ Asked \subseteq Tables \cup Uncached

Answered(doc) == [code |-> "ok", doc |-> doc]
Listing(entries) == [code |-> "ok", doc |-> "listing", entries |-> entries]
Failed(code) == [code |-> code, doc |-> NoDoc]

(* Faults, for checking that the properties notice them. *)
AskAgainNever(answer) == FALSE
AskAgainOfFailures(answer) == answer.code # "ok"
KeyAsAsked(table, name) == name
ConsultsVerified(op) ==
    IF op \in ValueReads \cup {"array_metadata"} THEN "verified_arrays" ELSE "array_metadata"
SameArrayUnchecked(copy, doc) == TRUE
UnreadableIfGone(answer) == answer.code = "not_found"

(* A read that could not be made is no answer about the store. *)
AskAgain(answer) == answer.code \in {"io_error", "cancelled"}

VARIABLES
    own,        \* each node's own document where the store lives, or "absent"
    failing,    \* whether reads may fail
    rewrites,   \* documents rewritten so far
    copies,     \* _consolidated_nodes with their documents
    has_consolidated_metadata,
    answers,    \* the tables' entries: every answer to a key, in order
    lock,       \* each table's mutex: the thread holding it
    stack,      \* the reads each thread is inside
    ret,        \* what the latest read of a thread to end returned
    calls,      \* calls made
    recovered,  \* whether a thread's latest call began after storage recovered
    made,       \* answers got by reading a document: by node, and by spelling when verifying
    was         \* documents a node has had of its own since the store was opened

storage == <<own, failing, rewrites, was>>
opened == <<copies, has_consolidated_metadata>>
vars == <<own, failing, rewrites, copies, has_consolidated_metadata, answers, lock,
          stack, ret, calls, recovered, made, was>>

Consolidated == {c[1] : c \in copies}

-----------------------------------------------------------------------------
(* Storage: a Transport, and TensorStore behind it. *)

(* A rewrite of a node where the store lives, or its removal. *)
Rewrite(n, d) ==
    /\ rewrites < MaxRewrites
    /\ own[n] # d
    /\ own' = [own EXCEPT ![n] = d]
    /\ rewrites' = rewrites + 1
    /\ was' = [was EXCEPT ![n] = @ \cup {d}]
    /\ UNCHANGED <<failing, opened, answers, lock, stack, ret, calls, recovered, made>>

Recover ==
    /\ failing
    /\ failing' = FALSE
    /\ UNCHANGED <<own, rewrites, was, opened, answers, lock, stack, ret, calls, recovered, made>>

(* ReadNodeBytes and ParseNodeMetadata of what it read. *)
Parsed(d) == IF d = "garbage" THEN Failed("invalid_metadata") ELSE Answered(d)
NodeRead(n) ==
    {IF own[n] = "absent" THEN Failed("not_found") ELSE Parsed(own[n])}
      \cup (IF failing THEN {Failed("io_error")} ELSE {})

(* The values of an array: read, not to be decoded, or not to be had.       *)
(* Strings are decoded with the document that was verified.  TensorStore    *)
(* opens an array by the node's own document, once for a store, so its may  *)
(* be another that the node has had since; one that is no array's by then   *)
(* is a failed open, and left out.                                          *)
ValuesRead(op, n, verified) ==
    {Answered(doc) : doc \in IF op = "string_arrays" THEN {verified} ELSE was[n] \cap ArrayDocs}
      \cup {Failed("invalid_metadata")}
      \cup (IF failing THEN {Failed("io_error")} ELSE {})

-----------------------------------------------------------------------------
(* Memo::GetOrCompute. *)

(* Where a table files a name: under the node it spells, a refused one and  *)
(* a verified array under what was asked.                                   *)
Key(table, name) ==
    IF table = "verified_arrays" \/ name = Whole \/ Canon[name] = Refused
    THEN name ELSE Canon[name]

MustCompute(table, key) ==
    LET held == answers[table][key] IN IF held = <<>> THEN TRUE ELSE AskAgain(Last(held))

Frame(op, name) == [op |-> op, name |-> name, at |-> "lock", todo |-> {}, entries |-> {}]
Top(t) == Last(stack[t])
At(t, op, where) == stack[t] # <<>> /\ Top(t).op = op /\ Top(t).at = where

(* Which table a read consults first. *)
Consults(op) ==
    CASE op = "array_metadata" -> "node_metadata"
      [] op = "verified_arrays" -> "array_metadata"
      [] op \in ValueReads -> "verified_arrays"

(* A read that is to be made: ReadArrayMetadata, VerifyArray and the value  *)
(* reads begin by asking the table below, unless the name is refused there  *)
(* and then.                                                                *)
Begun(op, name) ==
    LET frame == Frame(op, name) IN
    IF op \in {"node_metadata", "inventory"} \/ (op = "array_metadata" /\ Canon[name] = Refused)
    THEN <<[frame EXCEPT !.at = "compute"]>>
    ELSE <<[frame EXCEPT !.at = "have"], Frame(Consults(op), name)>>

(* A thread asks for something.  ReadStringArray1D refuses a name before    *)
(* its table is asked, and a read of pixels has none.                       *)
Call(t, op, name) ==
    /\ stack[t] = <<>>
    /\ calls < MaxCalls
    /\ calls' = calls + 1
    /\ recovered' = [recovered EXCEPT ![t] = ~ failing]
    /\ IF op = "string_arrays" /\ Canon[name] = Refused
       THEN /\ ret' = [ret EXCEPT ![t] = Failed("invalid_argument")]
            /\ UNCHANGED stack
       ELSE /\ stack' = [stack EXCEPT ![t] = IF op \in Uncached THEN Begun(op, name)
                                            ELSE <<Frame(op, name)>>]
            /\ UNCHANGED ret
    /\ UNCHANGED <<storage, opened, answers, lock, made>>

(* The lock is had and the entry is there: the lookup and the unlock are    *)
(* one step, since nothing else sees the table meanwhile.                   *)
Hit(t) ==
    /\ stack[t] # <<>> /\ Top(t).at = "lock"
    /\ LET table == Top(t).op
           key == Key(table, Top(t).name)
       IN
       /\ lock[table] = None
       /\ ~ MustCompute(table, key)
       /\ ret' = [ret EXCEPT ![t] = Last(answers[table][key])]
    /\ stack' = [stack EXCEPT ![t] = Front(@)]
    /\ UNCHANGED <<storage, opened, answers, lock, calls, recovered, made>>

Miss(t) ==
    /\ stack[t] # <<>> /\ Top(t).at = "lock"
    /\ LET table == Top(t).op IN
       /\ lock[table] = None
       /\ MustCompute(table, Key(table, Top(t).name))
       /\ lock' = [lock EXCEPT ![table] = t]
    /\ stack' = [stack EXCEPT ![t] = Front(@) \o Begun(Top(t).op, Top(t).name)]
    /\ UNCHANGED <<storage, opened, answers, ret, calls, recovered, made>>

(* A computation ends: its value is the key's answer from now on, the       *)
(* table is unlocked and the value returned.                                *)
Finish(t, answer) ==
    LET op == Top(t).op IN
    /\ IF op \in Uncached THEN UNCHANGED <<answers, lock>>
       ELSE /\ answers' = [answers EXCEPT ![op][Key(op, Top(t).name)] = Append(@, answer)]
            /\ lock' = [lock EXCEPT ![op] = None]
    /\ stack' = [stack EXCEPT ![t] = Front(@)]
    /\ ret' = [ret EXCEPT ![t] = answer]
    /\ UNCHANGED <<storage, opened, calls, recovered>>

(* The computation goes on at another point, itself or inside another read. *)
GoOn(t, frame) ==
    /\ stack' = [stack EXCEPT ![t] = Front(@) \o <<frame>>]
    /\ UNCHANGED <<storage, opened, answers, lock, ret, calls, recovered, made>>
Ask(t, frame, op, name) ==
    /\ stack' = [stack EXCEPT ![t] = Front(@) \o <<frame, Frame(op, name)>>]
    /\ UNCHANGED <<storage, opened, answers, lock, ret, calls, recovered, made>>

-----------------------------------------------------------------------------
(* What the tables compute. *)

(* ReadNodeMetadata. *)
ComputeNode(t) ==
    /\ At(t, "node_metadata", "compute")
    /\ LET n == Canon[Top(t).name] IN
       \/ /\ n = Refused
          /\ Finish(t, Failed("invalid_argument")) /\ UNCHANGED made
       \/ /\ n # Refused
          /\ \E answer \in NodeRead(n) :
               /\ Finish(t, answer)
               /\ made' = IF AskAgain(answer) THEN made ELSE [made EXCEPT !["node_metadata"][n] = @ + 1]

RefuseArray(t) ==
    /\ At(t, "array_metadata", "compute")
    /\ Finish(t, Failed("invalid_argument")) /\ UNCHANGED made

(* A failure below is the answer above. *)
PassOnFailure(t) ==
    /\ stack[t] # <<>> /\ Top(t).at = "have"
    /\ ret[t].code # "ok"
    /\ Finish(t, ret[t]) /\ UNCHANGED made

ParseArrayMetadata(doc) ==
    IF doc \in ArrayDocs THEN Answered(doc) ELSE Failed("invalid_metadata")

ParseArray(t) ==
    /\ At(t, "array_metadata", "have") /\ ret[t].code = "ok"
    /\ Finish(t, ParseArrayMetadata(ret[t].doc)) /\ UNCHANGED made

(* The array must be held to its own document: what was found is a copy.    *)
IsCopy(n) == n \in Consolidated

OwnInTheFirstPlace(t) ==
    /\ At(t, "verified_arrays", "have") /\ ret[t].code = "ok"
    /\ ~ IsCopy(Canon[Top(t).name])
    /\ Finish(t, ret[t]) /\ UNCHANGED made

RequireSameArray(copy, doc) == Described[copy] = Described[doc]

(* What a read of its own document makes of the copy: the document, when it *)
(* is of the same array.                                                    *)
Held(copy, read) ==
    CASE read.code = "not_found" -> Failed("invalid_metadata")
      [] read.code \notin {"ok", "not_found"} -> read
      [] OTHER -> IF read.doc \in ArrayDocs /\ RequireSameArray(copy, read.doc)
                  THEN Answered(read.doc) ELSE Failed("invalid_metadata")

HoldToOwn(t) ==
    /\ At(t, "verified_arrays", "have") /\ ret[t].code = "ok"
    /\ IsCopy(Canon[Top(t).name])
    /\ \E read \in NodeRead(Canon[Top(t).name]) :
         /\ Finish(t, Held(ret[t].doc, read))
         /\ made' = IF AskAgain(read) THEN made ELSE [made EXCEPT !["verified_arrays"][Top(t).name] = @ + 1]

(* ReadNumericArrayUncached, ReadStringArray1DUncached and ReadPixelsInto,  *)
(* with the array verified.                                                 *)
ReadValues(t) ==
    /\ stack[t] # <<>> /\ Top(t).op \in ValueReads /\ Top(t).at = "have"
    /\ ret[t].code = "ok"
    /\ \E answer \in ValuesRead(Top(t).op, Canon[Top(t).name], ret[t].doc) : Finish(t, answer)
    /\ UNCHANGED made

(* Inventory: the names, from the copy or from a listing. *)
ListNodes(t) ==
    /\ At(t, "inventory", "compute")
    /\ \/ GoOn(t, [Top(t) EXCEPT !.at = "each",
                     !.todo = IF has_consolidated_metadata THEN Consolidated
                              ELSE {n \in Nodes : own[n] # "absent"}])
       \/ /\ ~ has_consolidated_metadata /\ failing
          /\ Finish(t, Failed("io_error")) /\ UNCHANGED made

EachNode(t) ==
    /\ At(t, "inventory", "each") /\ Top(t).todo # {}
    /\ LET n == CHOOSE m \in Top(t).todo : TRUE IN
       Ask(t, [Top(t) EXCEPT !.at = "node"], "node_metadata", n)

(* An entry, and where the array's answer is among the table's. *)
Entry(n, kind, array) == [name |-> n, kind |-> kind, array |-> array]
AddEntry(t, n, kind, array) ==
    GoOn(t, [Top(t) EXCEPT !.at = "each", !.todo = @ \ {n},
                           !.entries = @ \cup {Entry(n, kind, array)}])
AskedOf(t) == CHOOSE m \in Top(t).todo : TRUE

(* Only a document that would not parse is an answer about its node alone.  *)
NodeUnreadable(answer) == answer.code \notin {"ok", "invalid_metadata"}

NodeKind(t) ==
    /\ At(t, "inventory", "node")
    /\ \/ NodeUnreadable(ret[t]) /\ Finish(t, ret[t]) /\ UNCHANGED made
       \/ /\ ~ NodeUnreadable(ret[t])
          /\ ret[t].doc \notin ArrayDocs
          /\ AddEntry(t, AskedOf(t), IF ret[t].doc = "group" THEN "group" ELSE "unrecognised", 0)
       \/ /\ ret[t].doc \in ArrayDocs
          /\ Ask(t, [Top(t) EXCEPT !.at = "array"], "array_metadata", AskedOf(t))

NodeArray(t) ==
    /\ At(t, "inventory", "array")
    /\ AddEntry(t, AskedOf(t), "array", Len(answers["array_metadata"][AskedOf(t)]))

EndInventory(t) ==
    /\ At(t, "inventory", "each") /\ Top(t).todo = {}
    /\ Finish(t, Listing(Top(t).entries)) /\ UNCHANGED made

-----------------------------------------------------------------------------
(* A store opened over what the root document says: the constructor files   *)
(* the copies as node metadata already read.                                *)
Insert(held) == [n \in Names |->
    IF \E c \in held : c[1] = n
    THEN <<Answered((CHOOSE c \in held : c[1] = n)[2])>> ELSE <<>>]

Init ==
    /\ own \in {f \in [Nodes -> UNION Range(OwnDocs)] : \A n \in Nodes : f[n] \in OwnDocs[n]}
    /\ failing = TRUE /\ rewrites = 0
    /\ copies \in Consolidations
    /\ has_consolidated_metadata \in {copies # {}, TRUE}
    /\ answers = [table \in Tables |->
                    CASE table = "node_metadata" -> Insert(copies)
                      [] table = "inventory" -> [k \in {Whole} |-> <<>>]
                      [] OTHER -> [n \in Names |-> <<>>]]
    /\ lock = [table \in Tables |-> None]
    /\ stack = [t \in Threads |-> <<>>]
    /\ ret = [t \in Threads |-> Failed("none")]
    /\ calls = 0
    /\ recovered = [t \in Threads |-> FALSE]
    /\ made = [table \in Reading |-> [name \in Names |-> 0]]
    /\ was = [n \in Nodes |-> {own[n]}]

Step(t) ==
    \/ Hit(t) \/ Miss(t)
    \/ ComputeNode(t) \/ RefuseArray(t) \/ PassOnFailure(t) \/ ParseArray(t)
    \/ OwnInTheFirstPlace(t) \/ HoldToOwn(t) \/ ReadValues(t)
    \/ ListNodes(t) \/ EachNode(t) \/ NodeKind(t) \/ NodeArray(t) \/ EndInventory(t)

Asks(t) ==
    \E op \in Asked :
        \/ op # "inventory" /\ \E n \in Names : Call(t, op, n)
        \/ op = "inventory" /\ Call(t, op, Whole)

(* Nothing is left to ask. *)
Done == calls = MaxCalls /\ (\A t \in Threads : stack[t] = <<>>) /\ UNCHANGED vars

Next ==
    \/ \E n \in Nodes : \E d \in OwnDocs[n] : Rewrite(n, d)
    \/ Recover
    \/ \E t \in Threads : Asks(t) \/ Step(t)
    \/ Done

Spec == Init /\ [][Next]_vars

(* A thread that is not blocked goes on, and a read ends. *)
FairSpec == Spec /\ \A t \in Threads : WF_vars(Step(t))
-----------------------------------------------------------------------------
Answer == [code : {"ok", "none", "io_error", "not_found", "invalid_metadata", "invalid_argument"},
           doc : ArrayDocs \cup {"group", "other", NoDoc}]

TypeOK ==
    /\ own \in {f \in [Nodes -> UNION Range(OwnDocs)] : \A n \in Nodes : f[n] \in OwnDocs[n]}
    /\ lock \in [Tables -> Threads \cup {None}]
    /\ \A table \in Tables \ {"inventory"}, n \in Names :
         \A answer \in Range(answers[table][n]) :
            /\ answer \in Answer
            /\ answer.code = "ok" /\ table # "node_metadata" => answer.doc \in ArrayDocs
    /\ calls \in 0 .. MaxCalls /\ rewrites \in 0 .. MaxRewrites
    /\ made \in [Reading -> [Names -> Nat]]

(* The order of StoreCaches' comment: a read inside another is of a lower   *)
(* table. *)
Rank(op) ==
    CASE op = "node_metadata" -> 0
      [] op = "array_metadata" -> 1
      [] op = "verified_arrays" -> 2
      [] OTHER -> 3

(* "The nesting forms a DAG": a thread only waits for a table below every   *)
(* table it holds, and a table is held by the one thread computing in it.   *)
LockOrder ==
    \A t \in Threads :
        /\ \A i, j \in DOMAIN stack[t] : i < j => Rank(stack[t][i].op) > Rank(stack[t][j].op)
        /\ \A table \in Tables :
             lock[table] = t <=>
               \E i \in DOMAIN stack[t] : stack[t][i].op = table /\ stack[t][i].at # "lock"

(* "An entry is written once and never erased or replaced": a reference a   *)
(* caller holds stays what it was, and only a read that could not be made   *)
(* is ever superseded, so what a caller observes does not change under it.  *)
AnswersStand ==
    [][\A table \in Tables : \A key \in DOMAIN answers[table] :
         LET before == answers[table][key]
             after == answers'[table][key]
         IN  \/ after = before
             \/ /\ IsPrefix(before, after)
                /\ before # <<>> => Last(before).code = "io_error"]_vars

(* However many threads ask, a node's document is read for an answer once,  *)
(* however they spell it, when it is its own in the first place.  One the   *)
(* root's copy accounts for is read only to hold the copy to it, and then   *)
(* once for each spelling an array is verified by (ReadNodeMetadata,        *)
(* VerifyArray).  A read that could not be made answers nothing, and is     *)
(* made again.                                                              *)
NodeReadOnce ==
    /\ \A n \in Nodes : made["node_metadata"][n] <= IF n \in Consolidated THEN 0 ELSE 1
    /\ \A name \in Names : made["verified_arrays"][name] <= IF Canon[name] \in Consolidated THEN 1 ELSE 0

(* A storage failure is nobody's answer for good: a call made after storage *)
(* recovered is not told of one, whatever other threads met before it and   *)
(* are still computing.                                                     *)
FailureForgotten ==
    \A t \in Threads : stack[t] = <<>> /\ recovered[t] => ret[t].code # "io_error"

(* An array whose values may be read is verified: what the store says it    *)
(* is and the document its values are decoded with agree, whatever the      *)
(* root's copy said and whenever either was rewritten.                      *)
VerifiedAgrees ==
    \A name \in Names :
        LET verified == answers["verified_arrays"][name] IN
        verified # <<>> /\ Last(verified).code = "ok" =>
            LET told == answers["array_metadata"][Canon[name]] IN
            /\ Last(told).code = "ok"
            /\ Described[Last(verified).doc] = Described[Last(told).doc]
            /\ Last(verified).doc \in was[Canon[name]]

(* An inventory that was taken agrees with every later read of its nodes:   *)
(* each kind is what node_metadata says, and each array's pointer is to     *)
(* the answer that stands, not to one superseded.                           *)
InventoryStands ==
    LET taken == answers["inventory"][Whole] IN
    taken # <<>> /\ Last(taken).code = "ok" =>
        /\ has_consolidated_metadata => {e.name : e \in Last(taken).entries} = Consolidated
        /\ \A e \in Last(taken).entries :
             LET node == Last(answers["node_metadata"][e.name]) IN
             /\ node.code \in {"ok", "invalid_metadata"}
             /\ e.kind = "array" <=> node.doc \in ArrayDocs
             /\ e.kind = "array" =>
                  /\ e.array = Len(answers["array_metadata"][e.name])
                  /\ answers["array_metadata"][e.name][e.array].code # "io_error"

(* Every call returns: threads whose computations nest never wait on each   *)
(* other for ever.                                                          *)
EveryCallReturns == \A t \in Threads : stack[t] # <<>> ~> stack[t] = <<>>
=============================================================================
