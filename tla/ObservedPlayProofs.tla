-------------------------- MODULE ObservedPlayProofs --------------------------
(***************************************************************************)
(* What ObservedPlay promises for any number of logs, names and sessions:  *)
(* ArchivedFirst, ItemsHaveEvents and WholeIngestions.  The invariant says *)
(* what an open request may still rely on although others commit between   *)
(* its steps: the logs it works on stay, its uploads are no one else's,    *)
(* its id is in no item yet, and what it deletes are whole ingestions.     *)
(***************************************************************************)
EXTENDS ObservedPlay, TLAPS

IsRequest(q) ==
    q = [kind |-> q.kind, id |-> q.id, pc |-> q.pc, todo |-> q.todo, at |-> q.at,
         seen |-> q.seen, config |-> q.config, gen |-> q.gen, ver |-> q.ver,
         gone |-> q.gone, found |-> q.found, made |-> q.made]

IsRow(row) == row = [parse |-> row.parse, memory |-> row.memory,
                     mentions |-> row.mentions, unresolved |-> row.unresolved]

Shape ==
    /\ begun \in Nat
    /\ req = [r \in Request |-> req[r]]
    /\ \A r \in Request : IsRequest(req[r]) /\ req[r].id \in 0..begun
    /\ log = [c \in Content |-> log[c]]
    /\ \A c \in Content : IsRow(log[c])
    /\ gen \in [Content -> Nat]
    /\ mention = [c \in Content |-> mention[c]]
    /\ items = [c \in Content |-> items[c]]

\* Request q has yet to store its items of c.
Waiting(q, c) ==
    /\ q.kind = "ingest"
    /\ c \in q.todo \/ (q.at = {c} /\ q.pc \in {"replace", "ingest"})

Storing(q, c) == q.kind = "ingest" /\ q.pc = "ingest" /\ q.at = {c}

\* What q is about to store, and what it is about to delete.
Prepared(q, c) ==
    /\ \A item \in q.made : item.gen = q.gen /\ item.ing = q.id /\ item.name \in Named[c]
    /\ \A n \in Named[c] : \E item \in q.made : item.name = n
    /\ \A item \in q.gone : item.ing \in 1..begun
    /\ \A item, other \in items[c] :
        item.ing = other.ing /\ other \in q.gone => item \in q.gone

Local(q) ==
    /\ q.pc \in {"replace", "ingest"} => q.kind = "ingest"
    /\ q.pc \in {"rewrite", "refresh", "delete", "read", "store"} =>
        q.kind \in {"resolve", "reparse"}
    /\ q.kind = "ingest" => q.id # 0
    /\ q.kind = "upload" =>
        /\ q.todo \subseteq Content
        /\ q.at \subseteq archive \cap Content
        /\ \A pending \in q.made : pending[1] \in (archive \cap Content) \ Stored
    /\ q.kind \in {"resolve", "reparse", "ingest"} =>
        q.todo \subseteq Stored /\ q.at \subseteq Stored
    /\ q.kind = "ingest" => q.at \cap q.todo = {}
    /\ \A c \in Content : Waiting(q, c) => \A item \in items[c] : item.ing # q.id
    /\ \A c \in Content : Storing(q, c) => Prepared(q, c)

\* Two requests: their ids, their uploads, and that what one deletes is not
\* what the other has yet to store.
Apart(p, q) ==
    /\ q.id # 0 => p.id # q.id
    /\ p.kind = "upload" /\ q.kind = "upload" =>
        \A x \in p.made, y \in q.made : x[1] # y[1]
    /\ \A c \in Content : Storing(p, c) /\ Waiting(q, c) =>
        \A item \in p.gone : item.ing # q.id

Tables ==
    /\ Stored \subseteq archive
    /\ \A c \in Content :
        /\ gen[c] = 0 <=> c \notin Stored
        /\ gen[c] = 0 => mention[c] = NoMention
        /\ \A item \in items[c] :
            /\ item.gen = gen[c]
            /\ item.name \in Named[c]
            /\ item.ing \in 1..begun
            /\ c \in Stored

Inv ==
    /\ Shape
    /\ \A r \in Request : Local(req[r])
    /\ \A r, s \in Request : r # s => Apart(req[r], req[s])
    /\ Tables
    /\ WholeIngestions

LEMMA InvInit == Init => Inv
<1> SUFFICES ASSUME Init PROVE Inv
  OBVIOUS
<1> USE DEF Init
<1>1. Stored = {} /\ IsRequest(NoRequest) /\ IsRow(NoLog)
  BY DEF Stored, NoLog, IsRow, IsRequest, NoRequest
<1>2. Shape
  BY <1>1 DEF Shape, NoRequest
<1>3. \A r \in Request : Local(req[r])
  BY <1>1 DEF Local, NoRequest, Waiting, Storing
<1>4. \A r, s \in Request : Apart(req[r], req[s])
  BY DEF Apart, NoRequest, Storing
<1>5. Tables /\ WholeIngestions
  BY <1>1 DEF Tables, WholeIngestions
<1> QED
  BY <1>2, <1>3, <1>4, <1>5 DEF Inv

-----------------------------------------------------------------------------
(* A step of r that leaves the events and the items as they are.           *)

SameItems ==
    /\ UNCHANGED <<gen, items, begun>>
    /\ Stored' = Stored
    /\ log' = [c \in Content |-> log'[c]]
    /\ \A c \in Content : IsRow(log'[c])
    /\ mention' = [c \in Content |-> mention'[c]]
    /\ \A c \in Content : gen[c] = 0 => mention'[c] = NoMention

LEMMA SameRows ==
    ASSUME Inv, UNCHANGED <<rows, begun>>
    PROVE  SameItems
  BY DEF Inv, Shape, Tables, SameItems, rows, Stored

LEMMA OnlyRequest ==
    ASSUME Inv, NEW r \in Request, NEW q, IsRequest(q),
           req' = [req EXCEPT ![r] = q], SameItems,
           archive \subseteq archive', q.id \in 0..begun, Local(q)',
           \A s \in Request : s # r => Apart(q, req[s]) /\ Apart(req[s], q)
    PROVE  Inv'
<1> USE DEF Inv, SameItems
<1>1. Stored' = Stored
  OBVIOUS
<1>2. Shape'
  BY DEF Shape
<1>r. req'[r] = q /\ \A s \in Request : s # r => req'[s] = req[s]
  BY DEF Shape
<1>3. ASSUME NEW s \in Request, s # r PROVE Local(req[s])'
  <2>1. Local(req[s]) /\ req'[s] = req[s]
    BY <1>3, <1>r
  <2> QED
    BY <2>1, <1>1 DEF Local, Waiting, Storing, Prepared
<1>4. \A s, t \in Request : s # t => Apart(req[s], req[t])'
  BY <1>r DEF Apart, Waiting, Storing
<1>5. Tables' /\ WholeIngestions'
  BY <1>1 DEF Tables, WholeIngestions
<1>6. Local(req[r])'
  BY <1>1, <1>r DEF Local, Waiting, Storing, Prepared
<1> QED
  BY <1>2, <1>3, <1>4, <1>5, <1>6

LEMMA NewRequest ==
    ASSUME Inv, NEW r \in Request, NEW q, IsRequest(q), q.id = begun + 1,
           begun' = begun + 1, req' = [req EXCEPT ![r] = q], UNCHANGED <<archive, rows>>,
           q.pc \notin {"replace", "ingest"}, q.kind = "upload" => q.made = {}, Local(q)'
    PROVE  Inv'
<1> USE DEF Inv, rows
<1>1. Stored' = Stored
  BY DEF Stored
<1>2. Shape'
  BY DEF Shape
<1>r. req'[r] = q /\ \A s \in Request : s # r => req'[s] = req[s]
  BY DEF Shape
<1>3. ASSUME NEW s \in Request, s # r PROVE Local(req[s])'
  <2>1. Local(req[s]) /\ req'[s] = req[s]
    BY <1>3, <1>r
  <2>2. 1..begun \subseteq 1..begun'
    BY DEF Shape
  <2> QED
    BY <2>1, <2>2, <1>1 DEF Local, Waiting, Storing, Prepared
<1>4. ASSUME NEW s \in Request, s # r PROVE Apart(req[s], q) /\ Apart(q, req[s])
  <2>1. req[s].id \in 0..begun /\ Local(req[s]) /\ begun \in Nat
    BY <1>4 DEF Shape
  <2>2. \A c \in Content : Storing(req[s], c) => \A item \in req[s].gone : item.ing # q.id
    BY <2>1 DEF Local, Prepared
  <2> QED
    BY <2>1, <2>2 DEF Apart, Storing
<1>5. \A s, t \in Request : s # t => Apart(req[s], req[t])'
  BY <1>r, <1>4 DEF Apart, Waiting, Storing
<1>6. Tables' /\ WholeIngestions'
  <2>1. \A i \in 1..begun : i \in 1..begun'
    BY DEF Shape
  <2>2. ASSUME NEW c \in Content, NEW item \in items'[c]
        PROVE  /\ item.gen = gen'[c] /\ item.name \in Named[c]
               /\ item.ing \in 1..begun' /\ c \in Stored'
    BY <2>1, <1>1 DEF Tables
  <2>3. WholeIngestions'
    BY DEF WholeIngestions
  <2> QED
    BY <2>2, <2>3, <1>1 DEF Tables
<1>7. Local(req[r])'
  BY <1>r DEF Local, Waiting, Storing, Prepared, Stored
<1> QED
  BY <1>2, <1>3, <1>5, <1>6, <1>7

LEMMA OpenStep ==
    ASSUME Inv, NEW r \in Request, NEW kind, NEW todo, NEW config,
           Open(r, kind, "next", todo, config),
           kind \in {"upload", "resolve", "reparse", "ingest"},
           todo \subseteq IF kind = "upload" THEN Content ELSE Stored
    PROVE  Inv'
<1> PICK seen : seen = [c \in IF kind = "ingest" THEN todo ELSE {} |-> log[c]]
  OBVIOUS
<1> PICK q : q = [NoRequest EXCEPT !.kind = kind, !.id = begun + 1, !.pc = "next",
                                   !.todo = todo, !.config = config, !.seen = seen]
  OBVIOUS
<1>1. /\ IsRequest(q) /\ q.kind = kind /\ q.id = begun + 1 /\ q.pc = "next"
      /\ q.todo = todo /\ q.at = {} /\ q.made = {}
  BY DEF IsRequest, NoRequest
<1>2. /\ req' = [req EXCEPT ![r] = q] /\ begun' = begun + 1 /\ UNCHANGED <<archive, rows>>
  BY DEF Open
<1>3. Stored' = Stored /\ UNCHANGED <<items, archive>>
  BY <1>2 DEF Stored, rows
<1>4. \A c \in Content : \A item \in items[c] : item.ing # begun + 1
  BY DEF Inv, Tables, Shape
<1>n. begun + 1 # 0
  BY DEF Inv, Shape
<1>5. Local(q)'
  BY <1>1, <1>3, <1>4, <1>n DEF Local, Waiting, Storing
<1> QED
  BY <1>1, <1>2, <1>5, NewRequest

LEMMA AskStep ==
    ASSUME Inv, NEW r \in Request,
           \/ AskRule(r) \/ AskResolve(r) \/ AskUpload(r) \/ AskReparse(r)
           \/ AskReparseAll(r) \/ AskIngest(r) \/ AskIngestEligible(r)
    PROVE  Inv'
<1>1. CASE AskRule(r)
  <2>1. PICK n \in Name, action \in {"resolved", "ignored"} :
          /\ begun' = begun + 1
          /\ req' = [req EXCEPT ![r] =
                      [NoRequest EXCEPT !.kind = "rule", !.id = begun + 1, !.pc = "save",
                                        !.at = {n}, !.made = {action}]]
          /\ UNCHANGED <<archive, rows, rules>>
    BY <1>1 DEF AskRule
  <2> PICK q : q = [NoRequest EXCEPT !.kind = "rule", !.id = begun + 1, !.pc = "save",
                                     !.at = {n}, !.made = {action}]
    OBVIOUS
  <2>2. IsRequest(q) /\ q.kind = "rule" /\ q.id = begun + 1 /\ q.pc = "save"
    BY DEF IsRequest, NoRequest
  <2>3. Local(q)'
    BY <2>2 DEF Local, Waiting, Storing
  <2>4. req' = [req EXCEPT ![r] = q]
    BY <2>1
  <2> QED
    BY <2>1, <2>2, <2>3, <2>4, NewRequest
<1>2. CASE AskResolve(r)
  BY <1>2, OpenStep DEF AskResolve
<1>3. CASE AskUpload(r)
  BY <1>3, OpenStep DEF AskUpload
<1>4. CASE AskReparse(r)
  BY <1>4, OpenStep DEF AskReparse
<1>5. CASE AskReparseAll(r)
  BY <1>5, OpenStep DEF AskReparseAll
<1>6. CASE AskIngest(r)
  BY <1>6, OpenStep DEF AskIngest
<1>7. CASE AskIngestEligible(r)
  BY <1>7, OpenStep DEF AskIngestEligible
<1> QED
  BY <1>1, <1>2, <1>3, <1>4, <1>5, <1>6, <1>7

-----------------------------------------------------------------------------
(* The steps of an open request.                                           *)

\* A request that ends leaves nothing to keep.
LEMMA Ends ==
    ASSUME Inv, NEW r \in Request, req' = [req EXCEPT ![r] = NoRequest],
           SameItems, UNCHANGED archive
    PROVE  Inv'
<1> PICK q : q = NoRequest
  OBVIOUS
<1>1. IsRequest(q) /\ q.id = 0 /\ q.id \in 0..begun
  BY DEF IsRequest, NoRequest, Inv, Shape
<1>2. Local(q)'
  BY DEF NoRequest, Local, Waiting, Storing
<1>3. \A s \in Request : Apart(q, req[s]) /\ Apart(req[s], q)
  BY DEF NoRequest, Apart, Waiting, Storing, Inv, Shape
<1> QED
  BY <1>1, <1>2, <1>3, OnlyRequest

\* What Between makes of a request.
LEMMA BetweenIs ==
    ASSUME Inv, NEW r \in Request
    PROVE  \E q :
            /\ Between(r) = [req EXCEPT ![r] = q]
            /\ IsRequest(q)
            /\ \/ q = NoRequest /\ req[r].kind # "upload"
               \/ /\ q.kind = req[r].kind /\ q.id = req[r].id /\ q.pc = "next"
                  /\ q.todo = req[r].todo /\ q.at = {} /\ q.made = req[r].made
                  /\ q.config = req[r].config
                  /\ q.kind = "ingest" => q.seen = req[r].seen
<1> DEFINE q == IF req[r].todo = {} /\ req[r].kind # "upload" THEN NoRequest
                ELSE [req[r] EXCEPT !.pc = "next", !.at = {}, !.gen = 0, !.ver = 0,
                                    !.seen = IF req[r].kind = "ingest" THEN req[r].seen
                                             ELSE NoMention,
                                    !.gone = {}, !.found = NoMention]
<1>1. Between(r) = [req EXCEPT ![r] = q]
  BY DEF Between
<1>2. IsRequest(req[r]) /\ IsRequest(NoRequest)
  BY DEF Inv, Shape, IsRequest, NoRequest
<1>3. IsRequest(q)
  BY <1>2 DEF IsRequest, NoRequest
<1>4. \/ q = NoRequest /\ req[r].kind # "upload"
      \/ /\ q.kind = req[r].kind /\ q.id = req[r].id /\ q.pc = "next"
         /\ q.todo = req[r].todo /\ q.at = {} /\ q.made = req[r].made
         /\ q.config = req[r].config
         /\ q.kind = "ingest" => q.seen = req[r].seen
  BY <1>2 DEF IsRequest
<1> QED
  BY <1>1, <1>3, <1>4

\* A step after which r stands at a log of its todo, or has passed it by: it
\* keeps its id, deletes nothing yet, and uploads what it did before.
LEMMA Moves ==
    ASSUME Inv, NEW r \in Request, NEW q, IsRequest(q),
           req' = [req EXCEPT ![r] = q], SameItems, archive \subseteq archive',
           q.kind = req[r].kind, q.id = req[r].id, q.todo \subseteq req[r].todo,
           q.kind = "upload" => q.made = req[r].made /\ q.at \subseteq archive' \cap Content,
           q.pc \in {"rewrite", "refresh", "delete", "read", "store"} =>
            q.kind \in {"resolve", "reparse"},
           q.kind = "ingest" => q.pc \in {"next", "replace"},
           q.pc \in {"replace", "ingest"} => q.kind = "ingest",
           q.at \subseteq req[r].at \/ q.at \subseteq req[r].todo,
           q.kind = "ingest" => q.at \cap q.todo = {},
           \A c \in Content : Waiting(q, c) => Waiting(req[r], c)
    PROVE  Inv'
<1>1. Local(req[r]) /\ req[r].id \in 0..begun /\ Stored' = Stored
  BY DEF Inv, Shape, SameItems
<1>2. Local(q)'
  BY <1>1 DEF Local, Storing, SameItems, Waiting
<1>3. ASSUME NEW s \in Request, s # r PROVE Apart(q, req[s]) /\ Apart(req[s], q)
  <2>1. Apart(req[r], req[s]) /\ Apart(req[s], req[r])
    BY <1>3 DEF Inv
  <2> QED
    BY <2>1 DEF Apart, Storing
<1> QED
  BY <1>1, <1>2, <1>3, OnlyRequest

LEMMA QuietStep ==
    ASSUME Inv, NEW r \in Request, NEW c \in Content,
           \/ SaveRule(r) \/ Abort(r) \/ LoadLog(r, c) \/ DeleteMentions(r, c)
           \/ ReadMentions(r, c) \/ ArchiveFile(r, c) \/ DeleteEvents(r, c)
           \/ GiveUpMentions(r, c) \/ Judge(r, c)
    PROVE  Inv'
<1>0. IsRequest(req[r]) /\ Local(req[r])
  BY DEF Inv, Shape
<1>1. CASE SaveRule(r) \/ Abort(r)
  BY <1>1, Ends, SameRows DEF SaveRule, Abort, RolledBack
<1>2. CASE LoadLog(r, c)
  <2> PICK seen : seen = [d \in {c} |-> log[d]]
    OBVIOUS
  <2> PICK q : q = [req[r] EXCEPT !.pc = "delete", !.at = {c}, !.todo = req[r].todo \ {c},
                                  !.seen = seen]
    OBVIOUS
  <2>2. /\ IsRequest(q) /\ q.kind = req[r].kind /\ q.id = req[r].id /\ q.pc = "delete"
        /\ q.todo = req[r].todo \ {c} /\ q.at = {c}
    BY <1>0 DEF IsRequest
  <2>3. /\ req[r].kind \in {"resolve", "reparse"}
        /\ c \in req[r].todo \/ req[r].at = {c}
    BY <1>0, <1>2 DEF LoadLog, Takes, Local
  <2>4. UNCHANGED <<archive, rows, begun>> /\ req' = [req EXCEPT ![r] = q]
    BY <1>2 DEF LoadLog
  <2> QED
    BY <2>2, <2>3, <2>4, Moves, SameRows DEF Waiting
<1>7. CASE DeleteMentions(r, c)
  <2> PICK q : q = [req[r] EXCEPT !.pc = "read", !.ver = ver[c]]
    OBVIOUS
  <2>2. /\ IsRequest(q) /\ q.kind = req[r].kind /\ q.id = req[r].id /\ q.pc = "read"
        /\ q.todo = req[r].todo /\ q.at = req[r].at
    BY <1>0 DEF IsRequest
  <2>3. req[r].kind \in {"resolve", "reparse"}
    BY <1>0, <1>7 DEF DeleteMentions, Local
  <2>4. UNCHANGED <<archive, rows, begun>> /\ req' = [req EXCEPT ![r] = q]
    BY <1>7 DEF DeleteMentions
  <2> QED
    BY <2>2, <2>3, <2>4, Moves, SameRows DEF Waiting
<1>8. CASE ReadMentions(r, c)
  <2>1. PICK f :
          req' = [req EXCEPT ![r] = [@ EXCEPT !.pc = "store", !.gen = gen[c], !.found = f]]
    BY <1>8 DEF ReadMentions
  <2> PICK q : q = [req[r] EXCEPT !.pc = "store", !.gen = gen[c], !.found = f]
    OBVIOUS
  <2>2. /\ IsRequest(q) /\ q.kind = req[r].kind /\ q.id = req[r].id /\ q.pc = "store"
        /\ q.todo = req[r].todo /\ q.at = req[r].at
    BY <1>0 DEF IsRequest
  <2>3. req[r].kind \in {"resolve", "reparse"}
    BY <1>0, <1>8 DEF ReadMentions, Local
  <2>4. UNCHANGED <<archive, rows, begun>> /\ req' = [req EXCEPT ![r] = q]
    BY <1>8, <2>1 DEF ReadMentions
  <2> QED
    BY <2>2, <2>3, <2>4, Moves, SameRows DEF Waiting
<1>3. CASE ArchiveFile(r, c)
  <2>1. CASE /\ archive' = archive \cup {c}
             /\ req' = [req EXCEPT ![r] = [@ EXCEPT !.pc = "insert", !.at = {c}, !.todo = req[r].todo \ {c}]]
    <3> PICK q : q = [req[r] EXCEPT !.pc = "insert", !.at = {c}, !.todo = req[r].todo \ {c}]
      OBVIOUS
    <3>1. /\ IsRequest(q) /\ q.kind = req[r].kind /\ q.id = req[r].id /\ q.pc = "insert"
          /\ q.todo = req[r].todo \ {c} /\ q.at = {c} /\ q.made = req[r].made
      BY <1>0 DEF IsRequest
    <3>2. req[r].kind = "upload" /\ c \in req[r].todo /\ UNCHANGED <<rows, begun>>
      BY <1>3 DEF ArchiveFile, Takes
    <3> QED
      BY <2>1, <3>1, <3>2, Moves, SameRows DEF Waiting
  <2>2. CASE /\ req' = [req EXCEPT ![r] = [@ EXCEPT !.todo = req[r].todo \ {c}]]
             /\ UNCHANGED archive
    <3> PICK q : q = [req[r] EXCEPT !.todo = req[r].todo \ {c}]
      OBVIOUS
    <3>1. /\ IsRequest(q) /\ q.kind = req[r].kind /\ q.id = req[r].id /\ q.pc = req[r].pc
          /\ q.todo = req[r].todo \ {c} /\ q.at = req[r].at /\ q.made = req[r].made
      BY <1>0 DEF IsRequest
    <3>2. /\ req[r].kind = "upload" /\ c \in req[r].todo /\ req[r].pc = "next"
          /\ UNCHANGED <<rows, begun>>
      BY <1>3 DEF ArchiveFile, Takes
    <3>3. q.at \subseteq archive' \cap Content
      BY <1>0, <2>2, <3>1, <3>2 DEF Local
    <3> QED
      BY <2>2, <3>1, <3>2, <3>3, Moves, SameRows DEF Waiting
  <2> QED
    BY <1>3, <2>1, <2>2 DEF ArchiveFile
<1>4. CASE DeleteEvents(r, c)
  <2> PICK q : q = [req[r] EXCEPT !.pc = "rewrite", !.at = {c}, !.todo = req[r].todo \ {c}, !.gen = gen[c]]
    OBVIOUS
  <2>1. /\ IsRequest(q) /\ q.kind = req[r].kind /\ q.id = req[r].id /\ q.pc = "rewrite"
        /\ q.todo = req[r].todo \ {c} /\ q.at = {c}
    BY <1>0 DEF IsRequest
  <2>2. /\ req[r].kind = "reparse" /\ c \in req[r].todo
        /\ UNCHANGED <<archive, rows, begun>> /\ req' = [req EXCEPT ![r] = q]
    BY <1>4 DEF DeleteEvents, Takes
  <2> QED
    BY <2>1, <2>2, Moves, SameRows DEF Waiting
<1>5. CASE GiveUpMentions(r, c)
  <2>1. PICK q :
          /\ Between(r) = [req EXCEPT ![r] = q]
          /\ IsRequest(q)
          /\ \/ q = NoRequest
             \/ /\ q.kind = req[r].kind /\ q.id = req[r].id /\ q.pc = "next"
                /\ q.todo = req[r].todo /\ q.at = {} /\ q.made = req[r].made
    BY BetweenIs
  <2>2. /\ req[r].kind = "reparse" /\ UNCHANGED <<archive, rows, begun>>
        /\ req' = [req EXCEPT ![r] = q]
    BY <1>5, <2>1 DEF GiveUpMentions
  <2>3. CASE q = NoRequest
    BY <2>2, <2>3, Ends, SameRows
  <2> QED
    BY <2>1, <2>2, <2>3, Moves, SameRows DEF Waiting
<1>6. CASE Judge(r, c)
  <2>1. CASE req' = [req EXCEPT ![r] = [@ EXCEPT !.pc = "replace", !.at = {c}, !.todo = req[r].todo \ {c}]]
    <3> PICK q : q = [req[r] EXCEPT !.pc = "replace", !.at = {c}, !.todo = req[r].todo \ {c}]
      OBVIOUS
    <3>1. /\ IsRequest(q) /\ q.kind = req[r].kind /\ q.id = req[r].id /\ q.pc = "replace"
          /\ q.todo = req[r].todo \ {c} /\ q.at = {c}
      BY <1>0 DEF IsRequest
    <3>2. /\ req[r].kind = "ingest" /\ c \in req[r].todo
          /\ UNCHANGED <<archive, rows, begun>> /\ req' = [req EXCEPT ![r] = q]
      BY <1>6, <2>1 DEF Judge, Takes
    <3>3. \A d \in Content : Waiting(q, d) => Waiting(req[r], d)
      BY <3>1, <3>2 DEF Waiting
    <3> QED
      BY <3>1, <3>2, <3>3, Moves, SameRows
  <2>2. CASE RolledBack(r)
    BY <1>6, <2>2, Ends, SameRows DEF Judge, RolledBack
  <2> QED
    BY <1>6, <2>1, <2>2 DEF Judge
<1> QED
  BY <1>1, <1>2, <1>3, <1>4, <1>5, <1>6, <1>7, <1>8

LEMMA InsertLogStep ==
    ASSUME Inv, NEW r \in Request, NEW c \in Content, InsertLog(r, c)
    PROVE  Inv'
<1>1. CASE RolledBack(r)
  BY <1>1, Ends, SameRows DEF InsertLog, RolledBack
<1>2. ASSUME NEW f, c \notin Stored, req' = [Between(r) EXCEPT ![r].made = @ \cup {<<c, f>>}]
      PROVE  Inv'
  <2>1. PICK p :
          /\ Between(r) = [req EXCEPT ![r] = p]
          /\ IsRequest(p)
          /\ \/ p = NoRequest /\ req[r].kind # "upload"
             \/ /\ p.kind = req[r].kind /\ p.id = req[r].id /\ p.pc = "next"
                /\ p.todo = req[r].todo /\ p.at = {} /\ p.made = req[r].made
    BY BetweenIs
  <2>2. req[r].kind = "upload" /\ req[r].at = {c} /\ Local(req[r]) /\ req[r].id \in 0..begun
    BY DEF InsertLog, Inv, Shape
  <2> PICK q : q = [p EXCEPT !.made = @ \cup {<<c, f>>}]
    OBVIOUS
  <2>4. /\ IsRequest(q) /\ q.kind = "upload" /\ q.id = req[r].id /\ q.pc = "next"
        /\ q.todo = req[r].todo /\ q.at = {} /\ q.made = req[r].made \cup {<<c, f>>}
    BY <2>1, <2>2 DEF IsRequest
  <2>5. req' = [req EXCEPT ![r] = q] /\ UNCHANGED <<archive, rows, begun>>
    BY <1>2, <2>1 DEF InsertLog, Inv, Shape
  <2>6. Stored' = Stored
    BY <2>5 DEF rows, Stored
  <2>7. Local(q)'
    BY <1>2, <2>2, <2>4, <2>5, <2>6 DEF Local, Waiting, Storing
  <2>8. ASSUME NEW s \in Request, s # r PROVE Apart(q, req[s]) /\ Apart(req[s], q)
    <3>1. Apart(req[r], req[s]) /\ Apart(req[s], req[r])
      BY <2>8 DEF Inv
    <3>2. req[s].kind = "upload" => \A pending \in req[s].made : pending[1] # c
      BY <2>8 DEF InsertLog
    <3> QED
      BY <2>2, <2>4, <3>1, <3>2 DEF Apart, Storing, Waiting
  <2> QED
    BY <2>2, <2>4, <2>5, <2>7, <2>8, OnlyRequest, SameRows
<1> QED
  BY <1>1, <1>2 DEF InsertLog

LEMMA ReplaceStep ==
    ASSUME Inv, NEW r \in Request, NEW c \in Content, Replace(r, c)
    PROVE  Inv'
<1> PICK q : q = [req[r] EXCEPT !.pc = "ingest", !.gen = gen[c], !.gone = items[c],
                                !.made = ItemsOf(c, mention[c], r)]
  OBVIOUS
<1>0. /\ IsRequest(req[r]) /\ Local(req[r]) /\ req[r].id \in 0..begun
      /\ req[r].kind = "ingest" /\ req[r].pc = "replace" /\ req[r].at = {c}
  BY DEF Replace, Inv, Shape, Local
<1>1. /\ IsRequest(q) /\ q.kind = "ingest" /\ q.id = req[r].id /\ q.pc = "ingest"
      /\ q.todo = req[r].todo /\ q.at = {c} /\ q.gen = gen[c] /\ q.gone = items[c]
      /\ q.made = ItemsOf(c, mention[c], r)
  BY <1>0 DEF IsRequest
<1>2. /\ req' = [req EXCEPT ![r] = q] /\ UNCHANGED <<archive, rows, begun>>
  BY DEF Replace
<1>3. SameItems
  BY <1>2, SameRows
<1>4. /\ \A item \in q.made : item.gen = q.gen /\ item.ing = q.id /\ item.name \in Named[c]
      /\ \A n \in Named[c] : \E item \in q.made : item.name = n
  <2> DEFINE Told(n) == IF n \in DOMAIN mention[c] THEN mention[c][n] ELSE "missing"
             It(n) == [ing |-> req[r].id, gen |-> gen[c], name |-> n, status |-> Told(n),
                       card |-> CardFields(Told(n), req[r].config),
                       config |-> req[r].config]
  <2>1. q.made = {It(n) : n \in Named[c]}
    BY <1>1 DEF ItemsOf
  <2>2. \A n : It(n).gen = gen[c] /\ It(n).ing = req[r].id /\ It(n).name = n
    OBVIOUS
  <2> HIDE DEF It
  <2> QED
    BY <1>1, <2>1, <2>2
<1>5. Prepared(q, c)'
  BY <1>1, <1>3, <1>4 DEF Prepared, SameItems, Inv, Tables
<1>6. \A d \in Content : Waiting(q, d) => Waiting(req[r], d)
  BY <1>0, <1>1 DEF Waiting
<1>7. Local(q)'
  BY <1>0, <1>1, <1>3, <1>5, <1>6 DEF Local, Storing, SameItems, Waiting
<1>8. ASSUME NEW s \in Request, s # r PROVE Apart(q, req[s]) /\ Apart(req[s], q)
  <2>1. Apart(req[r], req[s]) /\ Apart(req[s], req[r]) /\ Local(req[s])
    BY <1>8 DEF Inv
  <2>2. \A d \in Content : Storing(q, d) => d = c
    BY <1>1 DEF Storing
  <2> QED
    BY <1>0, <1>1, <1>6, <2>1, <2>2 DEF Apart, Local
<1> QED
  BY <1>0, <1>1, <1>2, <1>3, <1>7, <1>8, OnlyRequest

-----------------------------------------------------------------------------
(* The commits.                                                            *)

\* What the UPDATE of a resolution makes of a row.
LEMMA WrittenIs ==
    ASSUME NEW row, IsRow(row), NEW seen, NEW f
    PROVE  LET new == Written(row, seen, f)
               m   == Cardinality(DOMAIN f)
               u   == Cardinality(Unresolved(f))
           IN  /\ IsRow(new) /\ new.parse = row.parse /\ new.memory = row.memory
               /\ new.mentions = IF m = seen.mentions THEN row.mentions ELSE m
               /\ new.unresolved = IF u = seen.unresolved THEN row.unresolved ELSE u
<1>1. PICK m, u : m = Cardinality(DOMAIN f) /\ u = Cardinality(Unresolved(f))
  OBVIOUS
<1>2. PICK new : new = [row EXCEPT !.mentions = m, !.unresolved = u]
  OBVIOUS
<1>3. Written(row, seen, f) =
        [new EXCEPT !.mentions = IF @ = seen.mentions THEN row.mentions ELSE @,
                    !.unresolved = IF @ = seen.unresolved THEN row.unresolved ELSE @]
  BY <1>1, <1>2 DEF Written, Counted
<1> QED
  BY <1>1, <1>2, <1>3 DEF IsRow

LEMMA StoreMentionsStep ==
    ASSUME Inv, NEW r \in Request, NEW c \in Content, StoreMentions(r, c)
    PROVE  Inv'
<1>0. /\ req[r].kind \in {"resolve", "reparse"} /\ c \in Stored /\ gen[c] # 0
  BY DEF StoreMentions, Inv, Local, Tables
<1>1. CASE RolledBack(r) /\ UNCHANGED rows
  BY <1>1, Ends, SameRows DEF StoreMentions, RolledBack
<1>2. CASE /\ mention' = [mention EXCEPT ![c] = req[r].found]
           /\ log' = [log EXCEPT ![c] = Written(@, req[r].seen[c], req[r].found)]
           /\ req' = Between(r)
           /\ UNCHANGED <<gen, items>>
  <2>2. /\ log' = [d \in Content |-> log'[d]]
        /\ \A d \in Content : IsRow(log'[d]) /\ log'[d].parse = log[d].parse
    <3>1. /\ log'[c] = Written(log[c], req[r].seen[c], req[r].found)
          /\ \A d \in Content \ {c} : log'[d] = log[d]
      BY <1>2 DEF Inv, Shape
    <3>2. log' = [d \in Content |-> log'[d]]
      BY <1>2 DEF Inv, Shape
    <3> QED
      BY <3>1, <3>2, WrittenIs DEF Inv, Shape
  <2>3. Stored' = Stored
    BY <2>2 DEF Stored
  <2>4. SameItems /\ UNCHANGED archive
    BY <1>0, <1>2, <2>2, <2>3 DEF SameItems, StoreMentions, Inv, Shape, Tables
  <2>5. PICK q :
          /\ Between(r) = [req EXCEPT ![r] = q]
          /\ IsRequest(q)
          /\ \/ q = NoRequest
             \/ /\ q.kind = req[r].kind /\ q.id = req[r].id /\ q.pc = "next"
                /\ q.todo = req[r].todo /\ q.at = {} /\ q.made = req[r].made
    BY BetweenIs
  <2>6. CASE q = NoRequest
    BY <1>2, <2>4, <2>5, <2>6, Ends
  <2> QED
    BY <1>0, <1>2, <2>4, <2>5, <2>6, Moves DEF Waiting
<1> QED
  BY <1>1, <1>2 DEF StoreMentions

LEMMA RewriteEventsStep ==
    ASSUME Inv, NEW r \in Request, NEW c \in Content, RewriteEvents(r, c)
    PROVE  Inv'
<1> USE DEF Inv
<1>0. /\ req[r].kind \in {"resolve", "reparse"} /\ req[r].at = {c} /\ c \in Stored
      /\ IsRequest(req[r]) /\ gen[c] \in Nat \ {0} /\ UNCHANGED <<archive, begun>>
  BY DEF RewriteEvents, Shape, Local, Tables
<1>1. CASE RolledBack(r) /\ UNCHANGED rows
  BY <1>1, Ends, SameRows DEF RewriteEvents, RolledBack
<1>2. CASE /\ gen' = [gen EXCEPT ![c] = @ + 1]
           /\ mention' = [mention EXCEPT ![c] = NoMention]
           /\ items' = [items EXCEPT ![c] = Cascaded(@, gen[c])]
           /\ req' = [req EXCEPT ![r].pc = "refresh"]
           /\ UNCHANGED log
  <2> PICK q : q = [req[r] EXCEPT !.pc = "refresh"]
    OBVIOUS
  <2>1. /\ IsRequest(q) /\ q.kind = req[r].kind /\ q.id = req[r].id /\ q.pc = "refresh"
        /\ q.todo = req[r].todo /\ q.at = {c} /\ q.gone = req[r].gone /\ q.made = req[r].made
    BY <1>0 DEF IsRequest
  <2>2. req' = [req EXCEPT ![r] = q]
    BY <1>2
  <2>3. req'[r] = q /\ \A s \in Request : s # r => req'[s] = req[s]
    BY <2>2 DEF Shape
  <2>4. /\ items'[c] = {} /\ \A d \in Content \ {c} : items'[d] = items[d]
        /\ gen'[c] # 0 /\ \A d \in Content \ {c} : gen'[d] = gen[d]
    BY <1>0, <1>2 DEF Shape, Tables, Cascaded
  <2>5. Stored' = Stored
    BY <1>2 DEF Stored
  <2>6. Shape'
    <3>1. gen' \in [Content -> Nat]
      BY <1>0, <1>2 DEF Shape
    <3>2. /\ mention' = [d \in Content |-> mention'[d]]
          /\ items' = [d \in Content |-> items'[d]]
      BY <1>2 DEF Shape
    <3>3. req' = [s \in Request |-> req'[s]]
      BY <2>2 DEF Shape
    <3>4. \A s \in Request : IsRequest(req'[s]) /\ req'[s].id \in 0..begun
      BY <2>1, <2>3 DEF Shape
    <3> QED
      BY <1>0, <1>2, <3>1, <3>2, <3>3, <3>4 DEF Shape
  <2>7. ASSUME NEW s \in Request PROVE Local(req[s])'
    <3>1. CASE s = r
      BY <1>0, <2>1, <2>3, <2>5, <3>1 DEF Local, Waiting, Storing
    <3>2. CASE s # r
      <4>1. Local(req[s]) /\ req'[s] = req[s]
        BY <3>2, <2>3
      <4>2. \A d \in Content : items'[d] \subseteq items[d]
        BY <2>4
      <4>3. \A d \in Content : Prepared(req[s], d) => Prepared(req[s], d)'
        BY <1>0, <4>1, <4>2 DEF Prepared
      <4> QED
        BY <1>0, <2>5, <4>1, <4>2, <4>3 DEF Local, Waiting, Storing
    <3> QED
      BY <3>1, <3>2
  <2>8. ASSUME NEW s \in Request, NEW t \in Request, s # t
        PROVE  Apart(req[s], req[t])'
    <3>1. Apart(req[s], req[t])
      BY <2>8
    <3>2. CASE s = r
      BY <1>0, <2>1, <2>3, <2>8, <3>1, <3>2 DEF Apart, Storing
    <3>3. CASE t = r
      BY <1>0, <2>1, <2>3, <2>8, <3>1, <3>3 DEF Apart, Waiting
    <3>4. CASE s # r /\ t # r
      BY <2>3, <3>1, <3>4 DEF Apart, Waiting, Storing
    <3> QED
      BY <3>2, <3>3, <3>4
  <2>9. Tables' /\ WholeIngestions'
    BY <1>0, <1>2, <2>4, <2>5 DEF Tables, WholeIngestions, Shape
  <2> QED
    BY <2>6, <2>7, <2>8, <2>9
<1> QED
  BY <1>1, <1>2 DEF RewriteEvents

LEMMA CommitUploadStep ==
    ASSUME Inv, NEW r \in Request, CommitUpload(r)
    PROVE  Inv'
<1> USE DEF Inv
<1> DEFINE new == {pending[1] : pending \in req[r].made}
<1>0. /\ req[r].kind = "upload" /\ Local(req[r])
      /\ req' = [req EXCEPT ![r] = NoRequest]
      /\ UNCHANGED <<archive, items, begun>>
  BY DEF CommitUpload
<1>1. new \subseteq (archive \cap Content) \ Stored
  BY <1>0 DEF Local
<1>2. /\ gen' = [c \in Content |-> IF c \in new THEN 1 ELSE gen[c]]
      /\ mention' = [c \in Content |-> mention'[c]]
      /\ \A c \in Content \ new : mention'[c] = mention[c]
  BY DEF CommitUpload
<1>3. /\ log' = [c \in Content |-> log'[c]]
      /\ \A c \in Content : IsRow(log'[c])
      /\ \A c \in new : log'[c].parse = "parsed"
      /\ \A c \in Content \ new : log'[c] = log[c]
  <2> DEFINE f(c) == (CHOOSE pending \in req[r].made : pending[1] = c)[2]
  <2>1. log' = [c \in Content |->
                 IF c \in new THEN Counted([NoLog EXCEPT !.parse = "parsed"], f(c))
                 ELSE log[c]]
    BY DEF CommitUpload
  <2>2. ASSUME NEW c PROVE
          /\ IsRow(Counted([NoLog EXCEPT !.parse = "parsed"], f(c)))
          /\ Counted([NoLog EXCEPT !.parse = "parsed"], f(c)).parse = "parsed"
    <3>1. PICK m, u : m = Cardinality(DOMAIN f(c)) /\ u = Cardinality(Unresolved(f(c)))
      OBVIOUS
    <3> PICK row : row = [NoLog EXCEPT !.parse = "parsed"]
      OBVIOUS
    <3>2. Counted(row, f(c)) = [row EXCEPT !.mentions = m, !.unresolved = u]
      BY <3>1 DEF Counted
    <3> QED
      BY <3>2 DEF IsRow, NoLog
  <2> HIDE DEF f, new
  <2>3. \A c \in Content : log'[c] = IF c \in new
                                     THEN Counted([NoLog EXCEPT !.parse = "parsed"], f(c))
                                     ELSE log[c]
    BY <2>1
  <2>4. log' = [c \in Content |-> log'[c]]
    BY <2>1
  <2> QED
    BY <1>1, <2>2, <2>3, <2>4 DEF Shape
<1> HIDE DEF new
<1>4. Stored' = Stored \cup new
  BY <1>1, <1>3 DEF Stored
<1>5. Shape'
  <2>1. IsRequest(NoRequest) /\ NoRequest.id = 0
    BY DEF IsRequest, NoRequest
  <2>2. gen' \in [Content -> Nat]
    BY <1>2 DEF Shape
  <2> QED
    BY <1>0, <1>2, <1>3, <2>1, <2>2 DEF Shape
<1>r. req'[r] = NoRequest /\ \A s \in Request : s # r => req'[s] = req[s]
  BY <1>0 DEF Shape
<1>6. ASSUME NEW s \in Request PROVE Local(req[s])'
  <2>1. CASE s = r
    BY <1>r, <2>1 DEF NoRequest, Local, Waiting, Storing
  <2>2. CASE s # r
    <3>1. Local(req[s]) /\ req'[s] = req[s]
      BY <2>2, <1>r
    <3>2. req[s].kind = "upload" => \A pending \in req[s].made : pending[1] \notin new
      BY <1>0, <2>2 DEF Apart, new
    <3> QED
      BY <1>0, <1>4, <3>1, <3>2 DEF Local, Waiting, Storing, Prepared
  <2> QED
    BY <2>1, <2>2
<1>7. ASSUME NEW s \in Request, NEW t \in Request, s # t
      PROVE  Apart(req[s], req[t])'
  <2>1. Apart(req[s], req[t])
    BY <1>7
  <2> QED
    BY <1>r, <1>7, <2>1 DEF Apart, Waiting, Storing, NoRequest, Shape
<1>8. Tables' /\ WholeIngestions'
  <2>1. \A c \in Content : c \in new => items[c] = {}
    BY <1>1 DEF Tables
  <2>2. \A c \in Content : gen'[c] = IF c \in new THEN 1 ELSE gen[c]
    BY <1>2
  <2>3. Stored' \subseteq archive'
    BY <1>0, <1>1, <1>4 DEF Tables
  <2>4. ASSUME NEW c \in Content
        PROVE  /\ gen'[c] = 0 <=> c \notin Stored'
               /\ gen'[c] = 0 => mention'[c] = NoMention
               /\ \A item \in items'[c] :
                    /\ item.gen = gen'[c]
                    /\ item.name \in Named[c]
                    /\ item.ing \in 1..begun'
                    /\ c \in Stored'
    BY <1>0, <1>1, <1>2, <1>4, <2>1, <2>2 DEF Tables
  <2>5. WholeIngestions'
    BY <1>0 DEF WholeIngestions
  <2> QED
    BY <2>3, <2>4, <2>5 DEF Tables
<1> QED
  BY <1>5, <1>6, <1>7, <1>8

LEMMA StoreItemsStep ==
    ASSUME Inv, NEW r \in Request, NEW c \in Content, StoreItems(r, c)
    PROVE  Inv'
<1> USE DEF Inv
<1>0. /\ IsRequest(req[r]) /\ Local(req[r]) /\ req[r].id \in 1..begun
      /\ Storing(req[r], c) /\ Waiting(req[r], c) /\ Prepared(req[r], c) /\ c \in Stored
      /\ c \notin req[r].todo /\ UNCHANGED <<archive, begun>>
  BY DEF StoreItems, Shape, Local, Storing, Waiting
<1>1. CASE RolledBack(r) /\ UNCHANGED rows
  BY <1>1, Ends, SameRows DEF StoreItems, RolledBack
<1>2. CASE /\ gen[c] = req[r].gen \/ Named[c] = {}
           /\ items' = [items EXCEPT ![c] = (@ \ req[r].gone) \cup req[r].made]
           /\ log' = [log EXCEPT ![c].memory = "ingested"]
           /\ req' = [Between(r) EXCEPT ![r].made = {}]
           /\ UNCHANGED <<gen, mention, ver>>
  <2>1. PICK p :
          /\ Between(r) = [req EXCEPT ![r] = p]
          /\ IsRequest(p)
          /\ \/ p = NoRequest /\ req[r].kind # "upload"
             \/ /\ p.kind = req[r].kind /\ p.id = req[r].id /\ p.pc = "next"
                /\ p.todo = req[r].todo /\ p.at = {} /\ p.made = req[r].made
    BY BetweenIs
  <2> PICK q : q = [p EXCEPT !.made = {}]
    OBVIOUS
  <2>2. /\ IsRequest(q) /\ q.pc \in {"idle", "next"} /\ q.at = {} /\ q.made = {}
        /\ \/ q.kind = "none" /\ q.id = 0 /\ q.todo = {}
           \/ q.kind = "ingest" /\ q.id = req[r].id /\ q.todo = req[r].todo
    BY <1>0, <2>1 DEF IsRequest, NoRequest, Storing
  <2>3. req' = [req EXCEPT ![r] = q]
    BY <1>2, <2>1 DEF Shape
  <2>4. req'[r] = q /\ \A s \in Request : s # r => req'[s] = req[s]
    BY <2>3 DEF Shape
  <2>5. /\ items'[c] = (items[c] \ req[r].gone) \cup req[r].made
        /\ \A d \in Content \ {c} : items'[d] = items[d]
    BY <1>2 DEF Shape
  <2>6. /\ log' = [d \in Content |-> log'[d]]
        /\ \A d \in Content : IsRow(log'[d]) /\ log'[d].parse = log[d].parse
    <3>1. /\ log'[c] = [log[c] EXCEPT !.memory = "ingested"]
          /\ \A d \in Content \ {c} : log'[d] = log[d]
      BY <1>2 DEF Shape
    <3>2. IsRow(log'[c]) /\ log'[c].parse = log[c].parse
      BY <3>1 DEF Shape, IsRow
    <3>3. log' = [d \in Content |-> log'[d]]
      BY <1>2 DEF Shape
    <3> QED
      BY <3>1, <3>2, <3>3 DEF Shape
  <2>7. Stored' = Stored
    BY <2>6 DEF Stored
  <2>8. Shape'
    <3>1. items' = [d \in Content |-> items'[d]]
      BY <1>2 DEF Shape
    <3>2. req' = [s \in Request |-> req'[s]]
      BY <2>3 DEF Shape
    <3>3. IsRequest(req'[r]) /\ req'[r].id \in 0..begun
      BY <1>0, <2>2, <2>4 DEF Shape
    <3>4. \A s \in Request : IsRequest(req'[s]) /\ req'[s].id \in 0..begun
      BY <2>4, <3>3 DEF Shape
    <3> QED
      BY <1>0, <1>2, <2>6, <3>1, <3>2, <3>4 DEF Shape
  <2>9. \A item \in req[r].made :
          /\ item.gen = gen[c] /\ item.name \in Named[c] /\ item.ing = req[r].id
    BY <1>0, <1>2 DEF Prepared
  <2>w. \A d \in Content : Waiting(q, d) => d # c /\ Waiting(req[r], d) /\ q.id = req[r].id
    BY <1>0, <2>2 DEF Waiting
  <2>10. ASSUME NEW s \in Request PROVE Local(req[s])'
    <3>1. CASE s = r
      <4>1. \A d \in Content : Waiting(q, d) => \A item \in items'[d] : item.ing # q.id
        BY <1>0, <2>5, <2>w DEF Local
      <4>2. \A d \in Content : ~Storing(q, d)
        BY <2>2 DEF Storing
      <4>3. q.kind = "ingest" => q.id # 0 /\ q.todo \subseteq Stored'
        BY <1>0, <2>2, <2>7 DEF Local, Storing
      <4> QED
        BY <2>2, <2>4, <2>7, <3>1, <4>1, <4>2, <4>3 DEF Local, Waiting, Storing
    <3>2. CASE s # r
      <4>1. /\ Local(req[s]) /\ req'[s] = req[s]
            /\ Apart(req[s], req[r]) /\ Apart(req[r], req[s])
        BY <3>2, <2>4
      <4>2. \A d \in Content : Waiting(req[s], d) => \A item \in items'[d] : item.ing # req[s].id
        BY <1>0, <2>5, <2>9, <4>1 DEF Local, Apart, Waiting
      <4>3. ASSUME Storing(req[s], c) PROVE Prepared(req[s], c)'
        <5>1. Prepared(req[s], c)
          BY <4>1, <4>3 DEF Local
        <5>2. \A item \in req[s].gone : item.ing # req[r].id
          BY <1>0, <4>1, <4>3 DEF Apart
        <5>3. ASSUME NEW item \in items'[c], NEW other \in items'[c],
                     item.ing = other.ing, other \in req[s].gone
              PROVE  item \in req[s].gone
          <6>1. other \in items[c] /\ other.ing # req[r].id
            BY <2>5, <2>9, <5>2, <5>3
          <6>2. item \in items[c]
            BY <2>5, <2>9, <5>3, <6>1
          <6> QED
            BY <5>1, <5>3, <6>1, <6>2 DEF Prepared
        <5> QED
          BY <1>0, <4>1, <5>1, <5>3 DEF Prepared
      <4>4. ASSUME NEW d \in Content, d # c, Storing(req[s], d) PROVE Prepared(req[s], d)'
        BY <1>0, <2>5, <4>1, <4>4 DEF Local, Prepared
      <4> QED
        BY <1>0, <2>7, <4>1, <4>2, <4>3, <4>4 DEF Local, Waiting, Storing
    <3> QED
      BY <3>1, <3>2
  <2>11. ASSUME NEW s \in Request, NEW t \in Request, s # t
         PROVE  Apart(req[s], req[t])'
    <3>1. Apart(req[s], req[t]) /\ req[s].id \in 0..begun
      BY <2>11 DEF Shape
    <3>2. CASE s = r
      BY <1>0, <2>2, <2>4, <2>11, <3>1, <3>2 DEF Apart, Storing, Local, Waiting
    <3>3. CASE t = r
      <4>1. Apart(req[s], q)
        BY <1>0, <2>2, <2>w, <3>1, <3>3 DEF Apart, Storing
      <4> QED
        BY <2>4, <2>11, <3>3, <4>1 DEF Apart, Waiting, Storing
    <3>4. CASE s # r /\ t # r
      BY <2>4, <3>1, <3>4 DEF Apart, Waiting, Storing
    <3> QED
      BY <3>2, <3>3, <3>4
  <2>12. Tables'
    BY <1>0, <1>2, <2>5, <2>7, <2>9 DEF Tables
  <2>13. WholeIngestions'
    <3>1. ASSUME NEW d \in Content, NEW item \in items'[d], NEW n \in Named[d]
          PROVE  \E other \in items'[d] : other.name = n /\ other.ing = item.ing
      <4>1. CASE d # c
        BY <2>5, <3>1, <4>1 DEF WholeIngestions
      <4>2. CASE d = c /\ item \in req[r].made
        BY <1>0, <2>5, <2>9, <3>1, <4>2 DEF Prepared
      <4>3. CASE d = c /\ item \in items[c] \ req[r].gone
        <5>1. PICK other \in items[c] : other.name = n /\ other.ing = item.ing
          BY <3>1, <4>3 DEF WholeIngestions
        <5>2. other \notin req[r].gone
          BY <1>0, <4>3, <5>1 DEF Prepared
        <5> QED
          BY <2>5, <4>3, <5>1, <5>2
      <4> QED
        BY <2>5, <3>1, <4>1, <4>2, <4>3
    <3> QED
      BY <3>1 DEF WholeIngestions
  <2> QED
    BY <2>8, <2>10, <2>11, <2>12, <2>13
<1> QED
  BY <1>1, <1>2 DEF StoreItems

-----------------------------------------------------------------------------
LEMMA InvNext == Inv /\ [Next]_vars => Inv'
<1> SUFFICES ASSUME Inv, [Next]_vars PROVE Inv'
  OBVIOUS
<1>1. CASE Next
  <2>1. PICK r \in Request :
          \/ AskRule(r) \/ AskResolve(r) \/ AskUpload(r) \/ AskReparse(r)
          \/ AskReparseAll(r) \/ AskIngest(r) \/ AskIngestEligible(r)
          \/ SaveRule(r) \/ CommitUpload(r) \/ Abort(r)
          \/ \E c \in Content :
              \/ LoadLog(r, c) \/ DeleteMentions(r, c)
              \/ ReadMentions(r, c) \/ StoreMentions(r, c) \/ ArchiveFile(r, c)
              \/ InsertLog(r, c) \/ DeleteEvents(r, c) \/ RewriteEvents(r, c)
              \/ GiveUpMentions(r, c) \/ Judge(r, c) \/ Replace(r, c) \/ StoreItems(r, c)
    BY <1>1 DEF Next
  <2>2. CASE SaveRule(r) \/ Abort(r)
    BY <2>2, Ends, SameRows DEF SaveRule, Abort, RolledBack
  <2> QED
    BY <2>1, <2>2, AskStep, CommitUploadStep, QuietStep, InsertLogStep, ReplaceStep,
       StoreMentionsStep, RewriteEventsStep, StoreItemsStep
<1>2. CASE UNCHANGED vars
  <2>1. UNCHANGED <<archive, log, gen, mention, items, begun, req>>
    BY <1>2 DEF vars
  <2>2. Stored' = Stored
    BY <2>1 DEF Stored
  <2>3. Shape' /\ Tables' /\ WholeIngestions'
    BY <2>1, <2>2 DEF Inv, Shape, Tables, WholeIngestions
  <2>4. ASSUME NEW r \in Request PROVE Local(req[r])'
    <3>1. Local(req[r]) /\ req'[r] = req[r]
      BY <2>1 DEF Inv
    <3> QED
      BY <2>1, <2>2, <3>1 DEF Local, Waiting, Storing, Prepared
  <2>5. \A r, s \in Request : r # s => Apart(req[r], req[s])'
    BY <2>1 DEF Inv, Apart, Waiting, Storing
  <2> QED
    BY <2>3, <2>4, <2>5 DEF Inv
<1> QED
  BY <1>1, <1>2

\* What the open requests and the tables keep to between the steps.
THEOREM Invariant == Spec => []Inv
  BY InvInit, InvNext, PTL DEF Spec

\* Every log row's file is on disk, whatever became of the uploads.
THEOREM Archived == Spec => []ArchivedFirst
<1>1. Inv => ArchivedFirst
  BY DEF Inv, Tables, ArchivedFirst
<1> QED
  BY <1>1, Invariant, PTL

\* Memory items and mentions are those of the events a log has.
THEOREM EventsThere == Spec => []ItemsHaveEvents
<1>1. Inv => ItemsHaveEvents
  BY DEF Inv, Tables, ItemsHaveEvents
<1> QED
  BY <1>1, Invariant, PTL

\* Memory holds all of an ingestion or none of it, however many requests
\* ingest, reparse and break off at once.
THEOREM IngestionsWhole == Spec => []WholeIngestions
<1>1. Inv => WholeIngestions
  BY DEF Inv
<1> QED
  BY <1>1, Invariant, PTL

\* Memory gives way to replaced events or to a new ingestion only: nothing but
\* the commit of an ingestion deletes items and leaves the events, and it
\* brings items of its own, whose id no item had.
THEOREM MemoryStays == Spec => MemoryKept
<1>1. ASSUME Inv, [Next]_vars, NEW c \in Content, gen'[c] = gen[c], ~(items[c] \subseteq items'[c])
      PROVE  items'[c] \ items[c] # {}
  <2>1. PICK r \in Request, d \in Content : RewriteEvents(r, d) \/ StoreItems(r, d)
    <3>1. UNCHANGED items => FALSE
      BY <1>1
    <3>2. PICK r \in Request :
            \/ AskRule(r) \/ AskResolve(r) \/ AskUpload(r) \/ AskReparse(r)
            \/ AskReparseAll(r) \/ AskIngest(r) \/ AskIngestEligible(r)
            \/ SaveRule(r) \/ CommitUpload(r) \/ Abort(r)
            \/ \E e \in Content :
                \/ LoadLog(r, e) \/ DeleteMentions(r, e)
                \/ ReadMentions(r, e) \/ StoreMentions(r, e) \/ ArchiveFile(r, e)
                \/ InsertLog(r, e) \/ DeleteEvents(r, e) \/ RewriteEvents(r, e)
                \/ GiveUpMentions(r, e) \/ Judge(r, e) \/ Replace(r, e) \/ StoreItems(r, e)
      BY <1>1, <3>1 DEF Next, vars
    <3>3. \/ AskRule(r) \/ AskResolve(r) \/ AskUpload(r) \/ AskReparse(r)
          \/ AskReparseAll(r) \/ AskIngest(r) \/ AskIngestEligible(r)
          \/ SaveRule(r) \/ CommitUpload(r) \/ Abort(r)
          => UNCHANGED items
      BY DEF AskRule, AskResolve, AskUpload, AskReparse, AskReparseAll, AskIngest,
             AskIngestEligible, Open, SaveRule, CommitUpload, Abort, rows
    <3>4. \A e \in Content :
            \/ LoadLog(r, e) \/ DeleteMentions(r, e) \/ ReadMentions(r, e)
            \/ StoreMentions(r, e) \/ ArchiveFile(r, e) \/ InsertLog(r, e) \/ DeleteEvents(r, e) \/ GiveUpMentions(r, e)
            \/ Judge(r, e) \/ Replace(r, e)
            => UNCHANGED items
      BY DEF LoadLog, DeleteMentions, ReadMentions, StoreMentions, ArchiveFile, InsertLog, DeleteEvents,
             GiveUpMentions, Judge, Replace, rows
    <3> QED
      BY <3>1, <3>2, <3>3, <3>4
  <2>2. UNCHANGED items => FALSE
    BY <1>1
  <2>3. ~RewriteEvents(r, d)
    <3>1. RewriteEvents(r, d) => /\ gen' = [gen EXCEPT ![d] = @ + 1]
                                 /\ items' = [items EXCEPT ![d] = Cascaded(@, gen[d])]
      BY <2>2 DEF RewriteEvents, rows
    <3>2. RewriteEvents(r, d) => d = c
      BY <1>1, <3>1 DEF Inv, Shape
    <3> QED
      BY <1>1, <3>1, <3>2 DEF Inv, Shape
  <2>4. /\ items' = [items EXCEPT ![d] = (@ \ req[r].gone) \cup req[r].made]
        /\ Local(req[r]) /\ Storing(req[r], d) /\ Waiting(req[r], d)
    <3>1. StoreItems(r, d)
      BY <2>1, <2>3
    <3>2. items' = [items EXCEPT ![d] = (@ \ req[r].gone) \cup req[r].made]
      BY <2>2, <3>1 DEF StoreItems, rows
    <3>3. req[r].pc = "ingest" /\ req[r].at = {d}
      BY <3>1 DEF StoreItems
    <3>4. Local(req[r])
      BY <1>1 DEF Inv
    <3> QED
      BY <3>2, <3>3, <3>4 DEF Local, Storing, Waiting
  <2>5. d = c /\ items'[c] = (items[c] \ req[r].gone) \cup req[r].made
    BY <1>1, <2>4 DEF Inv, Shape
  <2>6. Named[c] # {}
    BY <1>1 DEF Inv, Tables
  <2>7. PICK item \in req[r].made : item.ing = req[r].id
    BY <2>4, <2>5, <2>6 DEF Local, Prepared
  <2>8. item \notin items[c]
    BY <2>4, <2>5, <2>7 DEF Local
  <2> QED
    BY <2>5, <2>7, <2>8
<1>2. Inv /\ [Next]_vars =>
        [\A c \in Content :
          gen'[c] = gen[c] /\ ~(items[c] \subseteq items'[c]) =>
            items'[c] \ items[c] # {}]_vars
  BY <1>1
<1> QED
  BY <1>2, Invariant, PTL DEF Spec, MemoryKept

=============================================================================
