----------------------------- MODULE MentionProofs -----------------------------
(***************************************************************************)
(* What ObservedPlay promises of the mentions of a log, CountersCover and  *)
(* ResolutionKept, and of what comes of them in memory, Gated; and its     *)
(* types.  A resolution holds on to rules it read some steps ago; that is  *)
(* harmless because rules are never taken back and because a commit whose  *)
(* mentions are not those it deleted fails, so what it found is never      *)
(* behind the mentions it replaces.  The row it loaded, by which it leaves *)
(* counters out of its UPDATE, is older still: what it says was said of at *)
(* least as many unresolved names as there are when it is read again.      *)
(***************************************************************************)
EXTENDS ObservedPlayProofs, FiniteSetTheorems

\* Rules and catalogue have something to say about name n.
Known(n) == rules[n] # {} \/ Listed[n] # "unresolved"

Earned(f) == \A n \in DOMAIN f : n \in Name /\ (f[n] # "unresolved" => Known(n))

Complete(f, c) == f = NoMention \/ DOMAIN f = Named[c]

\* f is behind nothing that the mentions of c say.
UpToDate(f, c) ==
    \A n \in DOMAIN mention[c] : mention[c][n] # "unresolved" => f[n] # "unresolved"

\* The commit of q still finds the events it read, and no mentions but those
\* it deleted.
Timely(q, c) == gen[c] = q.gen /\ (ver[c] = q.ver \/ mention[c] = NoMention)

\* The names of c that are unresolved whoever resolves them now.
Undecided(c) == {n \in Named[c] : ~Known(n)}

\* A row of c counts all of its mentions or, no one having resolved c, none.
Tally(row, c) ==
    /\ row.unresolved \in Nat
    /\ row.mentions \in {0, Cardinality(Named[c])}
    /\ row.mentions = 0 => row.unresolved = 0

Covers(row, names) == row.mentions # 0 => row.unresolved >= Cardinality(names)

Counts(row, c) == Tally(row, c) /\ Covers(row, Undecided(c))

Finding(q) ==
    /\ q.pc = "save" => q.at \subseteq Name /\ q.made \subseteq {"resolved", "ignored"}
    /\ q.kind = "upload" =>
        \A pending \in q.made : Earned(pending[2]) /\ Complete(pending[2], pending[1])
    /\ \A c \in Content : q.pc \in {"delete", "read", "store"} /\ q.at = {c} =>
        Tally(q.seen[c], c) /\ (q.seen[c].mentions # 0 => log[c].mentions # 0)
    /\ \A c \in Content : q.pc \in {"read", "store"} /\ q.at = {c} =>
        q.ver \in Nat /\ q.ver <= ver[c]
    /\ \A c \in Content : q.pc = "store" /\ q.at = {c} =>
        /\ DOMAIN q.found = Named[c]
        /\ Earned(q.found)
        /\ q.gen \in Nat /\ q.gen <= gen[c]
        /\ Timely(q, c) => UpToDate(q.found, c) /\ Covers(log[c], Unresolved(q.found))

MentionInv ==
    /\ ver \in [Content -> Nat]
    /\ rules \in [Name -> SUBSET {"resolved", "ignored"}]
    /\ \A c \in Content :
        Earned(mention[c]) /\ Complete(mention[c], c) /\ Counts(log[c], c)
    /\ \A r \in Request : Finding(req[r])
    /\ CountersCover

\* The sizes the counters compare.
LEMMA Sizes ==
    ASSUME NEW c \in Content
    PROVE  /\ Cardinality(Named[c]) \in Nat /\ Cardinality(Undecided(c)) \in Nat
           /\ Cardinality(Named[c]) = 0 <=> Named[c] = {}
           /\ \A f : DOMAIN f = Named[c] =>
                /\ Cardinality(Unresolved(f)) \in Nat
                /\ Cardinality(Unresolved(f)) <= Cardinality(Named[c])
                /\ Earned(f) => Cardinality(Undecided(c)) <= Cardinality(Unresolved(f))
                /\ (\A n \in Named[c] : f[n] = "unresolved" <=> ~Known(n))
                    => Unresolved(f) = Undecided(c)
<1>1. IsFiniteSet(Named[c])
  BY ObservedAssumption
<1>2. Undecided(c) \subseteq Named[c] /\ IsFiniteSet(Undecided(c))
  BY <1>1, FS_Subset DEF Undecided
<1>3. ASSUME NEW f, DOMAIN f = Named[c]
      PROVE  /\ Cardinality(Unresolved(f)) \in Nat
             /\ Cardinality(Unresolved(f)) <= Cardinality(Named[c])
             /\ Earned(f) => Cardinality(Undecided(c)) <= Cardinality(Unresolved(f))
             /\ (\A n \in Named[c] : f[n] = "unresolved" <=> ~Known(n))
                 => Unresolved(f) = Undecided(c)
  <2>1. Unresolved(f) \subseteq Named[c]
    BY <1>3 DEF Unresolved
  <2>2. IsFiniteSet(Unresolved(f)) /\ Cardinality(Unresolved(f)) <= Cardinality(Named[c])
    BY <1>1, <2>1, FS_Subset
  <2>3. Earned(f) => Undecided(c) \subseteq Unresolved(f)
    BY <1>3 DEF Earned, Undecided, Unresolved
  <2>4. Earned(f) => Cardinality(Undecided(c)) <= Cardinality(Unresolved(f))
    BY <2>2, <2>3, FS_Subset
  <2>5. (\A n \in Named[c] : f[n] = "unresolved" <=> ~Known(n)) => Unresolved(f) = Undecided(c)
    BY <1>3 DEF Undecided, Unresolved
  <2> QED
    BY <2>2, <2>4, <2>5, FS_CardinalityType
<1> QED
  BY <1>1, <1>2, <1>3, FS_CardinalityType, FS_EmptySet

LEMMA MentionInit == Init => MentionInv
<1> SUFFICES ASSUME Init PROVE MentionInv
  OBVIOUS
<1>1. DOMAIN NoMention = {}
  BY DEF NoMention
<1>2. \A r \in Request : Finding(req[r])
  BY DEF Init, Finding, NoRequest
<1>3. CountersCover
  BY DEF Init, CountersCover
<1>4. \A c \in Content : Counts(log[c], c)
  BY DEF Init, NoLog, Counts, Tally, Covers
<1> QED
  BY <1>1, <1>2, <1>3, <1>4 DEF Init, MentionInv, Earned, Complete

\* What a resolution finds is earned, and up to date when it is read.
LEMMA Found ==
    ASSUME MentionInv, NEW c \in Content, NEW f \in Resolutions(c)
    PROVE  DOMAIN f = Named[c] /\ Earned(f) /\ UpToDate(f, c) /\ Unresolved(f) = Undecided(c)
<1>1. f \in [Named[c] -> Status] /\ \A n \in Named[c] : f[n] \in Findings(n)
  BY DEF Resolutions
<1>2. Named[c] \subseteq Name
  BY ObservedAssumption
<1>3. \A n \in Named[c] : f[n] = "unresolved" <=> ~Known(n)
  BY <1>1, <1>2 DEF Findings, Known, MentionInv
<1>4. DOMAIN mention[c] \subseteq Named[c]
  BY DEF MentionInv, Complete, NoMention
<1>5. Unresolved(f) = Undecided(c)
  BY <1>1, <1>3, Sizes
<1> QED
  BY <1>1, <1>2, <1>3, <1>4, <1>5 DEF Earned, UpToDate, MentionInv

-----------------------------------------------------------------------------
\* What a request that goes on resolving relies on, said of its fields.
LEMMA SameFields ==
    ASSUME NEW s \in Request, req'[s] = req[s]
    PROVE  \A c \in Content :
            /\ Tally(req[s].seen[c], c)' <=> Tally(req[s].seen[c], c)
            /\ Covers(log[c], Unresolved(req[s].found))' <=>
                Covers(log'[c], Unresolved(req[s].found))
            /\ Timely(req[s], c)' <=>
                /\ gen'[c] = req[s].gen
                /\ ver'[c] = req[s].ver \/ mention'[c] = NoMention
<1>1. Unresolved(req[s].found)' = Unresolved(req[s].found)
  BY DEF Unresolved
<1> QED
  BY <1>1 DEF Tally, Covers, Timely

\* No table changes, and no name is less known.
LEMMA SameFinding ==
    ASSUME NEW s \in Request, req'[s] = req[s], UNCHANGED <<log, gen, mention, ver>>,
           \A f : Earned(f) => Earned(f)', Finding(req[s])
    PROVE  Finding(req[s])'
<1>1. \A c \in Content : Timely(req[s], c)' <=> Timely(req[s], c)
  BY SameFields DEF Timely
<1>2. \A c \in Content : Covers(log[c], Unresolved(req[s].found))' <=>
        Covers(log[c], Unresolved(req[s].found))
  BY SameFields DEF Covers
<1>3. \A c \in Content : UpToDate(req[s].found, c)' <=> UpToDate(req[s].found, c)
  BY DEF UpToDate
<1> QED
  BY <1>1, <1>2, <1>3, SameFields DEF Finding, Complete

\* A step of r that changes neither tables nor rules.
LEMMA FindingKept ==
    ASSUME Inv, MentionInv, NEW r \in Request, NEW q, Finding(q),
           req' = [req EXCEPT ![r] = q], UNCHANGED <<rows, rules>>
    PROVE  MentionInv'
<1>1. req'[r] = q /\ \A s \in Request : s # r => req'[s] = req[s]
  BY DEF Inv, Shape
<1>2. UNCHANGED <<log, gen, mention, ver, rules>>
  BY DEF rows
<1>3. \A s \in Request : Finding(req'[s])
  BY <1>1 DEF MentionInv
<1>4. \A s \in Request : Finding(req[s])'
  BY <1>2, <1>3 DEF Finding, Earned, Known, Complete, UpToDate, Timely, Tally, Covers, Unresolved
<1>5. \A c \in Content : (Earned(mention[c]) /\ Complete(mention[c], c) /\ Counts(log[c], c))'
  BY <1>2 DEF MentionInv, Earned, Known, Complete, Counts, Tally, Covers, Undecided
<1> QED
  BY <1>2, <1>4, <1>5 DEF MentionInv, CountersCover, Unresolved

LEMMA FindingEnds ==
    ASSUME Inv, MentionInv, NEW r \in Request,
           req' = [req EXCEPT ![r] = NoRequest], UNCHANGED <<rows, rules>>
    PROVE  MentionInv'
<1> PICK q : q = NoRequest
  OBVIOUS
<1>1. Finding(q)
  BY DEF Finding, NoRequest
<1> QED
  BY <1>1, FindingKept

\* The steps that only open a request or move it on.
LEMMA FindingQuiet ==
    ASSUME Inv, MentionInv, NEW r \in Request, NEW q,
           req' = [req EXCEPT ![r] = q], UNCHANGED <<rows, rules>>,
           q.pc \notin {"save", "delete", "read", "store"},
           q.kind = "upload" => q.made = {} \/ (req[r].kind = "upload" /\ q.made = req[r].made)
    PROVE  MentionInv'
<1>1. Finding(q)
  BY DEF Finding, MentionInv
<1> QED
  BY <1>1, FindingKept

LEMMA FindingOpens ==
    ASSUME Inv, MentionInv, NEW r \in Request, NEW kind, NEW todo, NEW config,
           Open(r, kind, "next", todo, config)
    PROVE  MentionInv'
<1> PICK seen : seen = [c \in IF kind = "ingest" THEN todo ELSE {} |-> log[c]]
  OBVIOUS
<1> PICK q : q = [NoRequest EXCEPT !.kind = kind, !.id = begun + 1, !.pc = "next",
                                   !.todo = todo, !.config = config, !.seen = seen]
  OBVIOUS
<1>1. q.pc = "next" /\ q.made = {}
  BY DEF NoRequest
<1>2. req' = [req EXCEPT ![r] = q] /\ UNCHANGED <<rows, rules>>
  BY DEF Open
<1> QED
  BY <1>1, <1>2, FindingQuiet

LEMMA FindingBetween ==
    ASSUME Inv, MentionInv, NEW r \in Request, NEW q,
           req' = [req EXCEPT ![r] = q], UNCHANGED <<rows, rules>>,
           \/ q = NoRequest
           \/ q.kind = req[r].kind /\ q.pc = "next" /\ q.made = req[r].made
    PROVE  MentionInv'
  BY FindingEnds, FindingQuiet

LEMMA FindingSteps ==
    ASSUME Inv, MentionInv, NEW r \in Request, NEW c \in Content,
           \/ LoadLog(r, c) \/ DeleteMentions(r, c) \/ ReadMentions(r, c)
           \/ ArchiveFile(r, c) \/ InsertLog(r, c) \/ DeleteEvents(r, c)
           \/ GiveUpMentions(r, c) \/ Judge(r, c) \/ Replace(r, c)
    PROVE  MentionInv'
<1>0. IsRequest(req[r]) /\ Local(req[r]) /\ Finding(req[r])
  BY DEF Inv, Shape, MentionInv
<1>b. PICK p :
        /\ Between(r) = [req EXCEPT ![r] = p]
        /\ IsRequest(p)
        /\ \/ p = NoRequest /\ req[r].kind # "upload"
           \/ /\ p.kind = req[r].kind /\ p.id = req[r].id /\ p.pc = "next"
              /\ p.todo = req[r].todo /\ p.at = {} /\ p.made = req[r].made
  BY BetweenIs
<1>8. CASE LoadLog(r, c)
  <2> PICK seen : seen = [d \in {c} |-> log[d]]
    OBVIOUS
  <2> PICK q : q = [req[r] EXCEPT !.pc = "delete", !.at = {c}, !.todo = req[r].todo \ {c},
                                  !.seen = seen]
    OBVIOUS
  <2>2. /\ q.kind = req[r].kind /\ q.pc = "delete" /\ q.at = {c}
        /\ q.seen[c] = log[c]
    BY <1>0 DEF IsRequest
  <2>3. req[r].kind \in {"resolve", "reparse"}
    BY <1>0, <1>8 DEF LoadLog, Takes, Local
  <2>4. Tally(log[c], c)
    BY DEF MentionInv, Counts
  <2>5. Finding(q)
    BY <2>2, <2>3, <2>4 DEF Finding
  <2>6. req' = [req EXCEPT ![r] = q] /\ UNCHANGED <<rows, rules>>
    BY <1>8 DEF LoadLog
  <2> QED
    BY <2>5, <2>6, FindingKept
<1>9. CASE DeleteMentions(r, c)
  <2> PICK q : q = [req[r] EXCEPT !.pc = "read", !.ver = ver[c]]
    OBVIOUS
  <2>2. /\ q.kind = req[r].kind /\ q.pc = "read" /\ q.at = {c} /\ q.seen = req[r].seen
        /\ q.ver = ver[c]
    BY <1>0, <1>9 DEF DeleteMentions, IsRequest
  <2>3. req[r].kind \in {"resolve", "reparse"} /\ req[r].pc = "delete" /\ req[r].at = {c}
    BY <1>0, <1>9 DEF DeleteMentions, Local
  <2>4. ver[c] \in Nat
    BY DEF MentionInv
  <2>5. Finding(q)
    BY <1>0, <2>2, <2>3, <2>4 DEF Finding
  <2>6. req' = [req EXCEPT ![r] = q] /\ UNCHANGED <<rows, rules>>
    BY <1>9 DEF DeleteMentions
  <2> QED
    BY <2>5, <2>6, FindingKept
<1>1. CASE ReadMentions(r, c)
  <2>1. PICK f \in Resolutions(c) :
          req' = [req EXCEPT ![r] = [@ EXCEPT !.pc = "store", !.gen = gen[c], !.found = f]]
    BY <1>1 DEF ReadMentions
  <2> PICK q : q = [req[r] EXCEPT !.pc = "store", !.gen = gen[c], !.found = f]
    OBVIOUS
  <2>2. /\ q.kind = req[r].kind /\ q.pc = "store" /\ q.at = {c} /\ q.seen = req[r].seen
        /\ q.ver = req[r].ver /\ q.gen = gen[c] /\ q.found = f
    BY <1>0, <1>1 DEF ReadMentions, IsRequest
  <2>3. req[r].kind \in {"resolve", "reparse"} /\ req[r].pc = "read" /\ req[r].at = {c}
    BY <1>0, <1>1 DEF ReadMentions, Local
  <2>4. DOMAIN f = Named[c] /\ Earned(f) /\ UpToDate(f, c) /\ Unresolved(f) = Undecided(c)
    BY Found
  <2>5. Covers(log[c], Unresolved(f)) /\ gen[c] \in Nat
    BY <2>4 DEF MentionInv, Counts, Inv, Shape
  <2>6. Finding(q)
    BY <1>0, <2>2, <2>3, <2>4, <2>5 DEF Finding
  <2> QED
    BY <1>1, <2>1, <2>6, FindingKept DEF ReadMentions
<1>2. CASE ArchiveFile(r, c)
  <2> PICK q : q = [req[r] EXCEPT !.pc = "insert", !.at = {c}, !.todo = req[r].todo \ {c}]
    OBVIOUS
  <2> PICK o : o = [req[r] EXCEPT !.todo = req[r].todo \ {c}]
    OBVIOUS
  <2>1. /\ q.kind = req[r].kind /\ q.pc = "insert" /\ q.made = req[r].made
        /\ o.kind = req[r].kind /\ o.pc = req[r].pc /\ o.made = req[r].made
    BY <1>0 DEF IsRequest
  <2>2. /\ req[r].kind = "upload" /\ req[r].pc = "next" /\ UNCHANGED <<rows, rules>>
        /\ req' = [req EXCEPT ![r] = q] \/ req' = [req EXCEPT ![r] = o]
    BY <1>2 DEF ArchiveFile, Takes
  <2> QED
    BY <2>1, <2>2, FindingQuiet
<1>3. CASE InsertLog(r, c)
  <2>1. CASE RolledBack(r)
    BY <1>3, <2>1, FindingEnds DEF InsertLog, RolledBack
  <2>2. ASSUME NEW f \in Resolutions(c) \cup {NoMention},
               req' = [Between(r) EXCEPT ![r].made = @ \cup {<<c, f>>}]
        PROVE  MentionInv'
    <3> PICK q : q = [p EXCEPT !.made = p.made \cup {<<c, f>>}]
      OBVIOUS
    <3>1. req[r].kind = "upload" /\ UNCHANGED <<rows, rules>>
      BY <1>3 DEF InsertLog
    <3>2. /\ q.kind = "upload" /\ q.pc = "next"
          /\ q.made = req[r].made \cup {<<c, f>>}
      BY <1>b, <3>1 DEF IsRequest
    <3>3. req' = [req EXCEPT ![r] = q]
      BY <1>b, <2>2 DEF Inv, Shape
    <3>4. Earned(f) /\ Complete(f, c)
      BY <2>2, Found DEF Earned, Complete, NoMention
    <3>5. Finding(q)
      BY <1>0, <3>1, <3>2, <3>4 DEF Finding
    <3> QED
      BY <3>1, <3>3, <3>5, FindingKept
  <2> QED
    BY <1>3, <2>1, <2>2 DEF InsertLog
<1>4. CASE DeleteEvents(r, c)
  <2> PICK q : q = [req[r] EXCEPT !.pc = "rewrite", !.at = {c},
                                  !.todo = req[r].todo \ {c}, !.gen = gen[c]]
    OBVIOUS
  <2>1. q.kind = req[r].kind /\ q.pc = "rewrite" /\ q.made = req[r].made
    BY <1>0 DEF IsRequest
  <2>2. UNCHANGED <<rows, rules>> /\ req' = [req EXCEPT ![r] = q]
    BY <1>4 DEF DeleteEvents
  <2> QED
    BY <2>1, <2>2, FindingQuiet
<1>5. CASE GiveUpMentions(r, c)
  BY <1>5, <1>b, FindingBetween DEF GiveUpMentions
<1>6. CASE Judge(r, c)
  <2>1. CASE RolledBack(r)
    BY <1>6, <2>1, FindingEnds DEF Judge, RolledBack
  <2>2. CASE req' = [req EXCEPT ![r] =
                      [@ EXCEPT !.pc = "replace", !.at = {c}, !.todo = req[r].todo \ {c}]]
    <3> PICK q : q = [req[r] EXCEPT !.pc = "replace", !.at = {c}, !.todo = req[r].todo \ {c}]
      OBVIOUS
    <3>1. q.kind = req[r].kind /\ q.pc = "replace" /\ q.made = req[r].made
      BY <1>0 DEF IsRequest
    <3>2. UNCHANGED <<rows, rules>> /\ req' = [req EXCEPT ![r] = q]
      BY <1>6, <2>2 DEF Judge
    <3> QED
      BY <3>1, <3>2, FindingQuiet
  <2> QED
    BY <1>6, <2>1, <2>2 DEF Judge
<1>7. CASE Replace(r, c)
  <2> PICK q : q = [req[r] EXCEPT !.pc = "ingest", !.gen = gen[c], !.gone = items[c],
                                  !.made = ItemsOf(c, mention[c], r)]
    OBVIOUS
  <2>1. q.kind = req[r].kind /\ q.pc = "ingest"
    BY <1>0 DEF IsRequest
  <2>2. UNCHANGED <<rows, rules>> /\ req' = [req EXCEPT ![r] = q] /\ req[r].kind = "ingest"
    BY <1>0, <1>7 DEF Replace, Local
  <2> QED
    BY <2>1, <2>2, FindingQuiet
<1> QED
  BY <1>1, <1>2, <1>3, <1>4, <1>5, <1>6, <1>7, <1>8, <1>9

LEMMA FindingAsks ==
    ASSUME Inv, MentionInv, NEW r \in Request,
           \/ AskRule(r) \/ AskResolve(r) \/ AskUpload(r) \/ AskReparse(r)
           \/ AskReparseAll(r) \/ AskIngest(r) \/ AskIngestEligible(r)
    PROVE  MentionInv'
<1>1. CASE AskRule(r)
  <2>1. PICK n \in Name, action \in {"resolved", "ignored"} :
          /\ req' = [req EXCEPT ![r] =
                      [NoRequest EXCEPT !.kind = "rule", !.id = begun + 1, !.pc = "save",
                                        !.at = {n}, !.made = {action}]]
          /\ UNCHANGED <<rows, rules>>
    BY <1>1 DEF AskRule
  <2> PICK q : q = [NoRequest EXCEPT !.kind = "rule", !.id = begun + 1, !.pc = "save",
                                     !.at = {n}, !.made = {action}]
    OBVIOUS
  <2>2. q.kind = "rule" /\ q.pc = "save" /\ q.at = {n} /\ q.made = {action}
    BY DEF NoRequest
  <2>3. Finding(q)
    BY <2>2 DEF Finding
  <2> QED
    BY <2>1, <2>3, FindingKept
<1>2. CASE AskResolve(r)
  BY <1>2, FindingOpens DEF AskResolve
<1>3. CASE AskUpload(r)
  BY <1>3, FindingOpens DEF AskUpload
<1>4. CASE AskReparse(r)
  BY <1>4, FindingOpens DEF AskReparse
<1>5. CASE AskReparseAll(r)
  BY <1>5, FindingOpens DEF AskReparseAll
<1>6. CASE AskIngest(r)
  BY <1>6, FindingOpens DEF AskIngest
<1>7. CASE AskIngestEligible(r)
  BY <1>7, FindingOpens DEF AskIngestEligible
<1> QED
  BY <1>1, <1>2, <1>3, <1>4, <1>5, <1>6, <1>7

\* A rule more makes no name less known.
LEMMA FindingSaves ==
    ASSUME Inv, MentionInv, NEW r \in Request, SaveRule(r)
    PROVE  MentionInv'
<1>1. /\ req[r].pc = "save" /\ req' = [req EXCEPT ![r] = NoRequest]
      /\ UNCHANGED <<log, gen, mention, ver>>
  BY DEF SaveRule, rows
<1>2. PICK n \in req[r].at : rules' = [rules EXCEPT ![n] = @ \cup req[r].made]
  BY DEF SaveRule
<1>3. n \in Name /\ req[r].made \subseteq {"resolved", "ignored"}
  BY <1>1 DEF MentionInv, Finding
<1>4. rules' \in [Name -> SUBSET {"resolved", "ignored"}]
  BY <1>2, <1>3 DEF MentionInv
<1>5. \A m \in Name : Known(m) => Known(m)'
  BY <1>2, <1>3 DEF Known, MentionInv
<1>6. \A s \in Request : req'[s] = NoRequest \/ req'[s] = req[s]
  BY <1>1 DEF Inv, Shape
<1>7. \A f : Earned(f) => Earned(f)'
  BY <1>5 DEF Earned
<1>8. ASSUME NEW s \in Request PROVE Finding(req[s])'
  <2>1. CASE req'[s] = NoRequest
    BY <2>1 DEF Finding, NoRequest
  <2>2. CASE req'[s] = req[s]
    <3>1. Finding(req[s])
      BY DEF MentionInv
    <3> QED
      BY <1>1, <1>7, <2>2, <3>1, SameFinding
  <2> QED
    BY <1>6, <2>1, <2>2
<1>9. \A c \in Content : (Earned(mention[c]) /\ Complete(mention[c], c))'
  BY <1>1, <1>7 DEF MentionInv, Complete
<1>10. ASSUME NEW c \in Content PROVE Counts(log[c], c)'
  <2>1. Undecided(c)' \subseteq Undecided(c) /\ Undecided(c) \subseteq Named[c]
    BY <1>5, ObservedAssumption DEF Undecided
  <2>2. IsFiniteSet(Undecided(c))
    BY <2>1, FS_Subset, ObservedAssumption
  <2> PICK fewer : fewer = Undecided(c)'
    OBVIOUS
  <2>3. /\ Cardinality(fewer) <= Cardinality(Undecided(c))
        /\ Cardinality(fewer) \in Nat /\ Cardinality(Undecided(c)) \in Nat
    BY <2>1, <2>2, FS_Subset, FS_CardinalityType
  <2>4. Tally(log[c], c) /\ Covers(log[c], Undecided(c))
    BY DEF MentionInv, Counts
  <2>5. Covers(log[c], fewer)
    BY <2>3, <2>4 DEF Covers, Tally
  <2> QED
    BY <1>1, <2>4, <2>5 DEF Counts, Tally, Covers
<1> QED
  BY <1>1, <1>4, <1>8, <1>9, <1>10 DEF MentionInv, CountersCover, Unresolved

-----------------------------------------------------------------------------
(* The commits.                                                            *)

\* The counters of c cover the mentions f there are.
Tallied(row, f, c) == f # NoMention =>
    /\ row.mentions = Cardinality(Named[c])
    /\ row.unresolved >= Cardinality(Unresolved(f))

\* A commit of r that gives the logs of changed new events or mentions:
\* whoever still resolves one of them comes too late.
LEMMA FindingCommits ==
    ASSUME Inv, MentionInv, NEW r \in Request, NEW q, NEW changed,
           req' = [req EXCEPT ![r] = q], q.pc \notin {"save", "delete", "read", "store"},
           q.kind = "upload" => q.made = {}, rules' = rules,
           ver' \in [Content -> Nat], gen' \in [Content -> Nat],
           \A c \in Content :
            /\ ver[c] <= ver'[c] /\ gen[c] <= gen'[c]
            /\ c \in Stored /\ log[c].mentions # 0 => log'[c].mentions # 0,
           \A c \in Content \ changed :
            /\ mention'[c] = mention[c] /\ ver'[c] = ver[c] /\ gen'[c] = gen[c]
            /\ log'[c].mentions = log[c].mentions /\ log'[c].unresolved = log[c].unresolved,
           \A c \in Content \cap changed :
            /\ Earned(mention'[c]) /\ Complete(mention'[c], c)
            /\ Counts(log'[c], c) /\ Tallied(log'[c], mention'[c], c),
           \A c \in Content \cap changed : \A s \in Request \ {r} :
            (req[s].pc = "store" /\ req[s].at = {c}) =>
                \/ Named[c] = {}
                \/ gen'[c] # req[s].gen
                \/ ver'[c] # req[s].ver /\ mention'[c] # NoMention
    PROVE  MentionInv'
<1>1. req'[r] = q /\ \A s \in Request : s # r => req'[s] = req[s]
  BY DEF Inv, Shape
<1>2. \A f : Earned(f) => Earned(f)'
  BY DEF Earned, Known
<1>3. ASSUME NEW c \in Content
      PROVE  /\ Earned(mention'[c]) /\ Complete(mention'[c], c)
             /\ Counts(log'[c], c) /\ Tallied(log'[c], mention'[c], c)
  <2>1. CASE c \in changed
    BY <2>1
  <2>2. CASE c \notin changed
    BY <2>2 DEF MentionInv, CountersCover, Tallied, Counts, Tally, Covers
  <2> QED
    BY <2>1, <2>2
<1>4. ASSUME NEW s \in Request PROVE Finding(req[s])'
  <2>1. CASE s = r
    BY <1>1, <2>1 DEF Finding
  <2>2. CASE s # r
    <3>1. Finding(req[s]) /\ req'[s] = req[s] /\ Local(req[s])
      BY <1>1, <2>2 DEF MentionInv, Inv
    <3>2. ASSUME NEW c \in Content, req[s].pc \in {"delete", "read", "store"},
                 req[s].at = {c}
          PROVE  /\ Tally(req[s].seen[c], c)
                 /\ req[s].seen[c].mentions # 0 => log'[c].mentions # 0
      BY <3>1, <3>2 DEF Finding, Local
    <3>3. ASSUME NEW c \in Content, req[s].pc \in {"read", "store"}, req[s].at = {c}
          PROVE  req[s].ver \in Nat /\ req[s].ver <= ver'[c]
      <4>1. req[s].ver \in Nat /\ req[s].ver <= ver[c] /\ ver[c] \in Nat /\ ver'[c] \in Nat
        BY <3>1, <3>3 DEF Finding, MentionInv
      <4> QED
        BY <4>1
    <3>4. ASSUME NEW c \in Content, req[s].pc = "store", req[s].at = {c}
          PROVE  /\ DOMAIN req[s].found = Named[c]
                 /\ Earned(req[s].found)
                 /\ req[s].gen \in Nat /\ req[s].gen <= gen'[c]
                 /\ Timely(req[s], c)' =>
                     UpToDate(req[s].found, c)' /\ Covers(log'[c], Unresolved(req[s].found))
      <4>1. /\ DOMAIN req[s].found = Named[c]
            /\ Earned(req[s].found)
            /\ req[s].gen \in Nat /\ req[s].gen <= gen[c] /\ gen[c] \in Nat /\ gen'[c] \in Nat
            /\ Timely(req[s], c) =>
                UpToDate(req[s].found, c) /\ Covers(log[c], Unresolved(req[s].found))
        BY <3>1, <3>4 DEF Finding, Inv, Shape
      <4>2. CASE Named[c] = {}
        <5>1. DOMAIN mention'[c] = {}
          BY <1>3, <4>2 DEF Complete, NoMention
        <5>3. log'[c].mentions = 0
          <6>1. Tally(log'[c], c)
            BY <1>3 DEF Counts
          <6>2. Cardinality(Named[c]) = 0
            BY <4>2, FS_EmptySet
          <6> QED
            BY <6>1, <6>2 DEF Tally
        <5> QED
          BY <4>1, <5>1, <5>3 DEF UpToDate, Covers
      <4>3. CASE c \in changed /\ Named[c] # {}
        BY <2>2, <3>1, <3>4, <4>1, <4>3 DEF Timely
      <4>4. CASE c \notin changed
        BY <3>1, <4>1, <4>4 DEF UpToDate, Timely, Covers
      <4> QED
        BY <4>2, <4>3, <4>4
    <3> QED
      BY <1>2, <3>1, <3>2, <3>3, <3>4, SameFields DEF Finding, Complete
  <2> QED
    BY <2>1, <2>2
<1>5. \A c \in Content :
        (Earned(mention[c]) /\ Complete(mention[c], c) /\ Counts(log[c], c))'
  BY <1>2, <1>3 DEF Complete, Counts, Tally, Covers, Undecided, Known
<1>6. CountersCover'
  BY <1>3 DEF CountersCover, Tallied, Unresolved
<1>7. rules' \in [Name -> SUBSET {"resolved", "ignored"}]
  BY DEF MentionInv
<1> QED
  BY <1>4, <1>5, <1>6, <1>7 DEF MentionInv

\* Counted counts.
LEMMA CountedIs ==
    ASSUME NEW row, IsRow(row), NEW f
    PROVE  /\ Counted(row, f).mentions = Cardinality(DOMAIN f)
           /\ Counted(row, f).unresolved = Cardinality(Unresolved(f))
<1>1. PICK m, u : m = Cardinality(DOMAIN f) /\ u = Cardinality(Unresolved(f))
  OBVIOUS
<1>2. Counted(row, f) = [row EXCEPT !.mentions = m, !.unresolved = u]
  BY <1>1 DEF Counted
<1> QED
  BY <1>1, <1>2 DEF IsRow

\* What a resolution of c finds for its counters: those of the row are left
\* as they are only where they cover it.
LEMMA StoredCounts ==
    ASSUME Inv, MentionInv, NEW r \in Request, NEW c \in Content,
           req[r].pc = "store", req[r].at = {c}, Insertable(r, c)
    PROVE  LET new == Written(log[c], req[r].seen[c], req[r].found)
           IN  /\ Counts(new, c)
               /\ new.mentions = Cardinality(Named[c])
               /\ new.unresolved >= Cardinality(Unresolved(req[r].found))
               /\ new.unresolved \in {log[c].unresolved, Cardinality(Unresolved(req[r].found))}
<1> PICK row, seen, f : row = log[c] /\ seen = req[r].seen[c] /\ f = req[r].found
  OBVIOUS
<1> PICK m, u : m = Cardinality(Named[c]) /\ u = Cardinality(Unresolved(f))
  OBVIOUS
<1>1. /\ DOMAIN f = Named[c] /\ Earned(f) /\ Tally(seen, c)
      /\ seen.mentions # 0 => row.mentions # 0
      /\ Timely(req[r], c) => Covers(row, Unresolved(f))
  BY DEF MentionInv, Finding
<1>2. IsRow(row) /\ Tally(row, c)
  BY DEF Inv, Shape, MentionInv, Counts
<1>3. /\ m \in Nat /\ u \in Nat /\ u <= m /\ (m = 0 <=> Named[c] = {})
      /\ Cardinality(Undecided(c)) \in Nat /\ Cardinality(Undecided(c)) <= u
  BY <1>1, Sizes
<1> PICK new : new = Written(row, seen, f)
  OBVIOUS
<1>4. /\ new.mentions = IF m = seen.mentions THEN row.mentions ELSE m
      /\ new.unresolved = IF u = seen.unresolved THEN row.unresolved ELSE u
  BY <1>1, <1>2, WrittenIs
<1>5. new.mentions = m
  BY <1>1, <1>2, <1>3, <1>4 DEF Tally
<1>6. m # 0 => Timely(req[r], c)
  BY <1>3 DEF Insertable, Timely
<1>7. new.unresolved \in Nat /\ new.unresolved >= u
  BY <1>1, <1>2, <1>3, <1>4, <1>6 DEF Tally, Covers
<1>8. m = 0 => new.unresolved = 0
  BY <1>2, <1>3, <1>4 DEF Tally
<1>9. Counts(new, c)
  BY <1>3, <1>5, <1>7, <1>8 DEF Counts, Tally, Covers
<1> QED
  BY <1>4, <1>5, <1>7, <1>9

LEMMA FindingStores ==
    ASSUME Inv, MentionInv, NEW r \in Request, NEW c \in Content, StoreMentions(r, c)
    PROVE  MentionInv'
<1>0. /\ req[r].kind \in {"resolve", "reparse"} /\ rules' = rules
      /\ req[r].pc = "store" /\ req[r].at = {c}
      /\ DOMAIN req[r].found = Named[c] /\ Earned(req[r].found)
  BY DEF StoreMentions, Inv, Local, MentionInv, Finding
<1>1. CASE RolledBack(r) /\ UNCHANGED rows
  BY <1>0, <1>1, FindingEnds DEF RolledBack
<1>2. CASE /\ Insertable(r, c)
           /\ mention' = [mention EXCEPT ![c] = req[r].found]
           /\ ver' = [ver EXCEPT ![c] = @ + 1]
           /\ log' = [log EXCEPT ![c] = Written(@, req[r].seen[c], req[r].found)]
           /\ req' = Between(r)
           /\ UNCHANGED <<gen, items>>
  <2>1. PICK q :
          /\ Between(r) = [req EXCEPT ![r] = q]
          /\ \/ q = NoRequest
             \/ q.kind = req[r].kind /\ q.pc = "next"
    BY BetweenIs
  <2>2. q.pc \notin {"save", "delete", "read", "store"} /\ q.kind # "upload"
    BY <1>0, <2>1 DEF NoRequest
  <2>3. /\ ver' \in [Content -> Nat] /\ ver'[c] = ver[c] + 1 /\ ver[c] \in Nat
        /\ gen' \in [Content -> Nat]
    BY <1>2 DEF MentionInv, Inv, Shape
  <2>4. \A d \in Content \ {c} :
          mention'[d] = mention[d] /\ ver'[d] = ver[d] /\ log'[d] = log[d]
    BY <1>2 DEF MentionInv, Inv, Shape
  <2>5. /\ mention'[c] = req[r].found
        /\ log'[c] = Written(log[c], req[r].seen[c], req[r].found)
    BY <1>2 DEF Inv, Shape
  <2>6. Counts(log'[c], c) /\ Tallied(log'[c], mention'[c], c)
    BY <1>0, <1>2, <2>5, StoredCounts DEF Tallied
  <2>7. Earned(mention'[c]) /\ Complete(mention'[c], c)
    BY <1>0, <2>5 DEF Complete
  <2>8. log[c].mentions # 0 => log'[c].mentions # 0
    <3>1. Tally(log[c], c) /\ log'[c].mentions = Cardinality(Named[c])
      BY <1>0, <1>2, <2>5, StoredCounts DEF MentionInv, Counts
    <3> QED
      BY <3>1 DEF Tally
  <2>9. \A s \in Request : (req[s].pc = "store" /\ req[s].at = {c}) =>
          \/ Named[c] = {}
          \/ ver'[c] # req[s].ver /\ mention'[c] # NoMention
    <3>1. Named[c] # {} => mention'[c] # NoMention
      BY <1>0, <2>5 DEF NoMention
    <3>2. \A s \in Request : (req[s].pc = "store" /\ req[s].at = {c}) =>
            req[s].ver \in Nat /\ req[s].ver <= ver[c]
      BY DEF MentionInv, Finding
    <3> QED
      BY <2>3, <3>1, <3>2
  <2> PICK changed : changed = {c}
    OBVIOUS
  <2>10. \A d \in Content :
          /\ ver[d] <= ver'[d] /\ gen[d] <= gen'[d]
          /\ d \in Stored /\ log[d].mentions # 0 => log'[d].mentions # 0
    BY <1>2, <2>3, <2>4, <2>8 DEF MentionInv, Inv, Shape
  <2>11. /\ \A d \in Content \ changed :
               /\ mention'[d] = mention[d] /\ ver'[d] = ver[d] /\ gen'[d] = gen[d]
               /\ log'[d].mentions = log[d].mentions /\ log'[d].unresolved = log[d].unresolved
         /\ \A d \in Content \cap changed :
               /\ Earned(mention'[d]) /\ Complete(mention'[d], d)
               /\ Counts(log'[d], d) /\ Tallied(log'[d], mention'[d], d)
         /\ \A d \in Content \cap changed : \A s \in Request \ {r} :
               (req[s].pc = "store" /\ req[s].at = {d}) =>
                  \/ Named[d] = {}
                  \/ gen'[d] # req[s].gen
                  \/ ver'[d] # req[s].ver /\ mention'[d] # NoMention
    BY <1>2, <2>4, <2>6, <2>7, <2>9
  <2>12. req' = [req EXCEPT ![r] = q] /\ rules' = rules
    BY <1>0, <1>2, <2>1
  <2> QED
    BY <2>2, <2>3, <2>10, <2>11, <2>12, FindingCommits
<1> QED
  BY <1>1, <1>2 DEF StoreMentions

LEMMA FindingRewrites ==
    ASSUME Inv, MentionInv, NEW r \in Request, NEW c \in Content, RewriteEvents(r, c)
    PROVE  MentionInv'
<1>0. /\ req[r].kind \in {"resolve", "reparse"} /\ rules' = rules /\ IsRequest(req[r])
  BY DEF RewriteEvents, Inv, Local, Shape
<1>1. CASE RolledBack(r) /\ UNCHANGED rows
  BY <1>0, <1>1, FindingEnds DEF RolledBack
<1>2. CASE /\ gen' = [gen EXCEPT ![c] = @ + 1]
           /\ mention' = [mention EXCEPT ![c] = NoMention]
           /\ ver' = [ver EXCEPT ![c] = @ + 1]
           /\ req' = [req EXCEPT ![r].pc = "refresh"]
           /\ UNCHANGED log
  <2> PICK q : q = [req[r] EXCEPT !.pc = "refresh"]
    OBVIOUS
  <2>1. q.pc = "refresh" /\ q.kind = req[r].kind /\ req' = [req EXCEPT ![r] = q]
    BY <1>0, <1>2 DEF IsRequest
  <2>2. /\ ver' \in [Content -> Nat] /\ gen' \in [Content -> Nat]
        /\ ver'[c] = ver[c] + 1 /\ gen'[c] = gen[c] + 1 /\ ver[c] \in Nat /\ gen[c] \in Nat
    BY <1>2 DEF MentionInv, Inv, Shape
  <2>3. \A d \in Content \ {c} :
          mention'[d] = mention[d] /\ ver'[d] = ver[d] /\ gen'[d] = gen[d]
    BY <1>2 DEF MentionInv, Inv, Shape
  <2>4. mention'[c] = NoMention
    BY <1>2 DEF Inv, Shape
  <2>5. /\ Earned(mention'[c]) /\ Complete(mention'[c], c)
        /\ Counts(log'[c], c) /\ Tallied(log'[c], mention'[c], c)
    BY <1>2, <2>4 DEF Earned, Complete, Tallied, NoMention, MentionInv
  <2>6. \A s \in Request : (req[s].pc = "store" /\ req[s].at = {c}) => gen'[c] # req[s].gen
    <3>1. \A s \in Request : (req[s].pc = "store" /\ req[s].at = {c}) =>
            req[s].gen \in Nat /\ req[s].gen <= gen[c]
      BY DEF MentionInv, Finding
    <3> QED
      BY <2>2, <3>1
  <2>7. \A d \in Content :
          /\ ver[d] <= ver'[d] /\ gen[d] <= gen'[d]
          /\ d \in Stored /\ log[d].mentions # 0 => log'[d].mentions # 0
    BY <1>2, <2>2, <2>3 DEF MentionInv, Inv, Shape
  <2> PICK changed : changed = {c}
    OBVIOUS
  <2>10. /\ \A d \in Content \ changed :
               /\ mention'[d] = mention[d] /\ ver'[d] = ver[d] /\ gen'[d] = gen[d]
               /\ log'[d].mentions = log[d].mentions /\ log'[d].unresolved = log[d].unresolved
         /\ \A d \in Content \cap changed :
               /\ Earned(mention'[d]) /\ Complete(mention'[d], d)
               /\ Counts(log'[d], d) /\ Tallied(log'[d], mention'[d], d)
         /\ \A d \in Content \cap changed : \A s \in Request \ {r} :
               (req[s].pc = "store" /\ req[s].at = {d}) =>
                  \/ Named[d] = {}
                  \/ gen'[d] # req[s].gen
                  \/ ver'[d] # req[s].ver /\ mention'[d] # NoMention
    BY <1>2, <2>3, <2>5, <2>6
  <2>11. q.pc \notin {"save", "delete", "read", "store"} /\ q.kind # "upload"
    BY <1>0, <2>1
  <2> QED
    BY <1>0, <2>1, <2>2, <2>7, <2>10, <2>11, FindingCommits
<1> QED
  BY <1>1, <1>2 DEF RewriteEvents

LEMMA FindingUploads ==
    ASSUME Inv, MentionInv, NEW r \in Request, CommitUpload(r)
    PROVE  MentionInv'
<1> DEFINE new  == {pending[1] : pending \in req[r].made}
           f(c) == (CHOOSE pending \in req[r].made : pending[1] = c)[2]
<1>0. /\ req[r].kind = "upload" /\ Local(req[r]) /\ Finding(req[r])
      /\ req' = [req EXCEPT ![r] = NoRequest]
      /\ UNCHANGED <<ver, rules>>
  BY DEF CommitUpload, Inv, MentionInv
<1>1. new \cap Stored = {}
  BY <1>0 DEF Local
<1>2. \A c \in Content :
        /\ log'[c] = IF c \in new THEN Counted([NoLog EXCEPT !.parse = "parsed"], f(c))
                     ELSE log[c]
        /\ mention'[c] = IF c \in new THEN f(c) ELSE mention[c]
        /\ gen'[c] = IF c \in new THEN 1 ELSE gen[c]
  BY DEF CommitUpload
<1>3. ASSUME NEW c \in Content, c \in new
      PROVE  Earned(f(c)) /\ Complete(f(c), c)
  <2>1. \E pending \in req[r].made : pending[1] = c
    BY <1>3
  <2>2. PICK pending \in req[r].made : pending[1] = c /\ f(c) = pending[2]
    BY <2>1
  <2> QED
    BY <1>0, <2>2 DEF Finding
<1>4. \A s \in Request \ {r} : \A c \in Content :
        req[s].pc = "store" /\ req[s].at = {c} => c \in Stored
  BY DEF Inv, Local
<1>5. IsRow([NoLog EXCEPT !.parse = "parsed"])
  BY DEF IsRow, NoLog
<1> HIDE DEF new, f
<1>6. ASSUME NEW c \in Content, c \in new
      PROVE  Counts(log'[c], c) /\ Tallied(log'[c], mention'[c], c)
  <2> PICK g : g = f(c)
    OBVIOUS
  <2>1. log'[c] = Counted([NoLog EXCEPT !.parse = "parsed"], g) /\ mention'[c] = g
    BY <1>2, <1>6
  <2>2. /\ log'[c].mentions = Cardinality(DOMAIN g)
        /\ log'[c].unresolved = Cardinality(Unresolved(g))
    BY <1>5, <2>1, CountedIs
  <2>3. CASE DOMAIN g = Named[c]
    <3>1. Earned(g)
      BY <1>3, <1>6
    <3>2. /\ Cardinality(Named[c]) \in Nat /\ Cardinality(Undecided(c)) \in Nat
          /\ Cardinality(Unresolved(g)) \in Nat
          /\ Cardinality(Unresolved(g)) <= Cardinality(Named[c])
          /\ Cardinality(Undecided(c)) <= Cardinality(Unresolved(g))
      BY <2>3, <3>1, Sizes
    <3> QED
      BY <2>1, <2>2, <2>3, <3>2 DEF Counts, Tally, Covers, Tallied
  <2>4. CASE g = NoMention
    <3>1. DOMAIN g = {} /\ Unresolved(g) = {}
      BY <2>4 DEF NoMention, Unresolved
    <3>2. log'[c].mentions = 0 /\ log'[c].unresolved = 0
      BY <2>2, <3>1, FS_EmptySet
    <3> QED
      BY <2>1, <2>4, <3>2 DEF Counts, Tally, Covers, Tallied
  <2> QED
    BY <1>3, <1>6, <2>3, <2>4 DEF Complete
<1>7. NoRequest.pc = "idle" /\ NoRequest.kind = "none"
  BY DEF NoRequest
<1>8. ver' \in [Content -> Nat] /\ gen' \in [Content -> Nat]
  <2>1. gen' = [c \in Content |-> IF c \in new THEN 1 ELSE gen[c]]
    BY DEF CommitUpload, new
  <2> QED
    BY <1>0, <2>1 DEF MentionInv, Inv, Shape
<1>9. /\ \A c \in Content \ new :
            mention'[c] = mention[c] /\ ver'[c] = ver[c] /\ gen'[c] = gen[c] /\ log'[c] = log[c]
      /\ \A c \in Content \cap new : Earned(mention'[c]) /\ Complete(mention'[c], c)
      /\ \A c \in Content \cap new : \A s \in Request \ {r} :
            ~(req[s].pc = "store" /\ req[s].at = {c})
  BY <1>0, <1>1, <1>2, <1>3, <1>4
<1>w. ASSUME NEW c \in Content
      PROVE  /\ ver[c] <= ver'[c] /\ gen[c] <= gen'[c]
             /\ c \in Stored /\ log[c].mentions # 0 => log'[c].mentions # 0
  <2>1. c \in new => c \notin Stored /\ gen[c] = 0
    BY <1>1 DEF Inv, Tables
  <2>2. ver[c] \in Nat /\ gen[c] \in Nat
    BY DEF MentionInv, Inv, Shape
  <2> QED
    BY <1>0, <1>2, <2>1, <2>2
<1> PICK q : q = NoRequest
  OBVIOUS
<1> PICK changed : changed = new
  OBVIOUS
<1>10. /\ \A c \in Content \ changed :
             /\ mention'[c] = mention[c] /\ ver'[c] = ver[c] /\ gen'[c] = gen[c]
             /\ log'[c].mentions = log[c].mentions /\ log'[c].unresolved = log[c].unresolved
       /\ \A c \in Content \cap changed :
             /\ Earned(mention'[c]) /\ Complete(mention'[c], c)
             /\ Counts(log'[c], c) /\ Tallied(log'[c], mention'[c], c)
       /\ \A c \in Content \cap changed : \A s \in Request \ {r} :
             (req[s].pc = "store" /\ req[s].at = {c}) =>
                \/ Named[c] = {}
                \/ gen'[c] # req[s].gen
                \/ ver'[c] # req[s].ver /\ mention'[c] # NoMention
  BY <1>6, <1>9
<1>11. q.pc \notin {"save", "delete", "read", "store"} /\ q.kind # "upload"
  BY <1>7
<1> QED
  BY <1>0, <1>8, <1>10, <1>11, <1>w, FindingCommits

LEMMA FindingIngests ==
    ASSUME Inv, MentionInv, NEW r \in Request, NEW c \in Content, StoreItems(r, c)
    PROVE  MentionInv'
<1>0. req[r].kind = "ingest" /\ rules' = rules
  BY DEF StoreItems, Inv, Local
<1>1. CASE RolledBack(r) /\ UNCHANGED rows
  BY <1>0, <1>1, FindingEnds DEF RolledBack
<1>2. CASE /\ log' = [log EXCEPT ![c].memory = "ingested"]
           /\ req' = [Between(r) EXCEPT ![r].made = {}]
           /\ UNCHANGED <<gen, mention, ver>>
  <2>1. PICK p :
          /\ Between(r) = [req EXCEPT ![r] = p]
          /\ IsRequest(p)
          /\ \/ p = NoRequest
             \/ p.kind = req[r].kind /\ p.pc = "next"
    BY BetweenIs
  <2> PICK q : q = [p EXCEPT !.made = {}]
    OBVIOUS
  <2>2. q.pc \notin {"save", "delete", "read", "store"} /\ q.made = {}
    BY <2>1 DEF IsRequest, NoRequest
  <2>3. req' = [req EXCEPT ![r] = q]
    BY <1>2, <2>1 DEF Inv, Shape
  <2>4. \A d \in Content :
          log'[d].mentions = log[d].mentions /\ log'[d].unresolved = log[d].unresolved
    <3>1. /\ log'[c] = [log[c] EXCEPT !.memory = "ingested"]
          /\ \A d \in Content \ {c} : log'[d] = log[d]
      BY <1>2 DEF Inv, Shape
    <3>2. IsRow(log[c])
      BY DEF Inv, Shape
    <3> QED
      BY <3>1, <3>2 DEF IsRow
  <2>5. ver' \in [Content -> Nat] /\ gen' \in [Content -> Nat]
    BY <1>2 DEF MentionInv, Inv, Shape
  <2>6. \A d \in Content :
          /\ ver[d] <= ver'[d] /\ gen[d] <= gen'[d]
          /\ d \in Stored /\ log[d].mentions # 0 => log'[d].mentions # 0
    BY <1>2, <2>4 DEF MentionInv, Inv, Shape
  <2> PICK changed : changed = {}
    OBVIOUS
  <2>10. /\ \A d \in Content \ changed :
               /\ mention'[d] = mention[d] /\ ver'[d] = ver[d] /\ gen'[d] = gen[d]
               /\ log'[d].mentions = log[d].mentions /\ log'[d].unresolved = log[d].unresolved
         /\ Content \cap changed = {}
    BY <1>2, <2>4
  <2> QED
    BY <1>0, <2>2, <2>3, <2>5, <2>6, <2>10, FindingCommits
<1> QED
  BY <1>1, <1>2 DEF StoreItems

-----------------------------------------------------------------------------
LEMMA MentionNext == Inv /\ MentionInv /\ [Next]_vars => MentionInv'
<1> SUFFICES ASSUME Inv, MentionInv, [Next]_vars PROVE MentionInv'
  OBVIOUS
<1>1. CASE Next
  <2>1. PICK r \in Request :
          \/ AskRule(r) \/ AskResolve(r) \/ AskUpload(r) \/ AskReparse(r)
          \/ AskReparseAll(r) \/ AskIngest(r) \/ AskIngestEligible(r)
          \/ SaveRule(r) \/ CommitUpload(r) \/ Abort(r)
          \/ \E c \in Content :
              \/ LoadLog(r, c) \/ DeleteMentions(r, c)
              \/ ReadMentions(r, c) \/ StoreMentions(r, c) \/ ArchiveFile(r, c)
              \/ InsertLog(r, c) \/ DeleteEvents(r, c) \/ RewriteEvents(r, c)
              \/ GiveUpMentions(r, c) \/ Judge(r, c) \/ Replace(r, c) \/ StoreItems(r, c)
    BY <1>1 DEF Next
  <2>2. CASE Abort(r)
    BY <2>2, FindingEnds DEF Abort, RolledBack
  <2> QED
    BY <2>1, <2>2, FindingAsks, FindingSaves, FindingUploads, FindingSteps,
       FindingStores, FindingRewrites, FindingIngests
<1>2. CASE UNCHANGED vars
  <2>1. UNCHANGED <<log, gen, mention, ver, rules, req>>
    BY <1>2 DEF vars
  <2>2. ASSUME NEW r \in Request PROVE Finding(req[r])'
    <3>1. \A f : Earned(f) => Earned(f)'
      BY <2>1 DEF Earned, Known
    <3>2. Finding(req[r]) /\ req'[r] = req[r]
      BY <2>1 DEF MentionInv
    <3> QED
      BY <2>1, <3>1, <3>2, SameFinding
  <2>3. \A c \in Content : (Earned(mention[c]) /\ Complete(mention[c], c) /\ Counts(log[c], c))'
    BY <2>1 DEF MentionInv, Earned, Known, Complete, Counts, Tally, Covers, Undecided
  <2> QED
    BY <2>1, <2>2, <2>3 DEF MentionInv, CountersCover, Unresolved
<1> QED
  BY <1>1, <1>2

\* The counters the gate goes by never understate what the mentions stored
\* leave unresolved, however uploads, resolutions and reparses of the log
\* cross, although a resolution writes only the counters that differ from
\* those of the row it loaded, which another may have written since.
THEOREM CountersRight == Spec => []CountersCover
<1>1. Inv /\ MentionInv => CountersCover
  BY DEF MentionInv
<1> QED
  BY <1>1, InvInit, InvNext, MentionInit, MentionNext, PTL DEF Spec

\* A card once resolved stays resolved: the commit of a resolution that read
\* its rules before another's finds other mentions than it deleted, and fails.
THEOREM ResolutionStays == Spec => ResolutionKept
<1>1. ASSUME Inv, MentionInv, [Next]_vars, NEW c \in Content,
             NEW n \in DOMAIN mention[c] \cap DOMAIN mention'[c],
             mention[c][n] # "unresolved"
      PROVE  mention'[c][n] # "unresolved"
  <2>1. CASE UNCHANGED mention
    BY <1>1, <2>1
  <2>2. ASSUME NEW r \in Request, CommitUpload(r)
        PROVE  mention'[c] = mention[c]
    <3>1. mention'[c] = mention[c] \/ \E pending \in req[r].made : pending[1] = c
      BY <2>2 DEF CommitUpload
    <3>2. ASSUME NEW pending \in req[r].made, pending[1] = c PROVE DOMAIN mention[c] = {}
      <4>1. c \notin Stored
        BY <1>1, <2>2, <3>2 DEF CommitUpload, Inv, Local
      <4>2. mention[c] = NoMention
        BY <1>1, <4>1 DEF Inv, Tables
      <4> QED
        BY <4>2 DEF NoMention
    <3> QED
      BY <1>1, <3>1, <3>2
  <2>3. ASSUME NEW r \in Request, NEW d \in Content, RewriteEvents(r, d)
        PROVE  mention'[c] = mention[c]
    <3>1. mention' = mention \/ mention' = [mention EXCEPT ![d] = NoMention]
      BY <2>3 DEF RewriteEvents, rows
    <3>2. mention'[c] = mention[c] \/ mention'[c] = NoMention
      BY <1>1, <3>1 DEF Inv, Shape
    <3> QED
      BY <1>1, <3>2 DEF NoMention
  <2>4. ASSUME NEW r \in Request, NEW d \in Content, StoreMentions(r, d)
        PROVE  mention'[c][n] # "unresolved"
    <3>1. \/ mention' = mention
          \/ /\ mention' = [mention EXCEPT ![d] = req[r].found]
             /\ Timely(req[r], d) \/ Named[d] = {}
      BY <2>4 DEF StoreMentions, Insertable, Timely, rows
    <3>2. /\ DOMAIN req[r].found = Named[d]
          /\ Timely(req[r], d) => UpToDate(req[r].found, d)
      BY <1>1, <2>4 DEF StoreMentions, MentionInv, Finding
    <3>3. CASE mention'[c] = mention[c]
      BY <1>1, <3>3
    <3>4. CASE mention'[c] # mention[c]
      <4>1. /\ d = c /\ mention'[c] = req[r].found
            /\ Timely(req[r], c) \/ Named[c] = {}
        BY <1>1, <3>1, <3>4 DEF Inv, Shape
      <4>2. n \in Named[c]
        BY <1>1, <3>2, <4>1
      <4> QED
        BY <1>1, <3>2, <4>1, <4>2 DEF UpToDate
    <3> QED
      BY <3>3, <3>4
  <2>5. CASE Next
    <3>1. PICK r \in Request :
            \/ AskRule(r) \/ AskResolve(r) \/ AskUpload(r) \/ AskReparse(r)
            \/ AskReparseAll(r) \/ AskIngest(r) \/ AskIngestEligible(r)
            \/ SaveRule(r) \/ CommitUpload(r) \/ Abort(r)
            \/ \E d \in Content :
                \/ LoadLog(r, d) \/ DeleteMentions(r, d)
                \/ ReadMentions(r, d) \/ StoreMentions(r, d) \/ ArchiveFile(r, d)
                \/ InsertLog(r, d) \/ DeleteEvents(r, d) \/ RewriteEvents(r, d)
                \/ GiveUpMentions(r, d) \/ Judge(r, d) \/ Replace(r, d) \/ StoreItems(r, d)
      BY <2>5 DEF Next
    <3>2. \/ AskRule(r) \/ AskResolve(r) \/ AskUpload(r) \/ AskReparse(r)
          \/ AskReparseAll(r) \/ AskIngest(r) \/ AskIngestEligible(r)
          \/ SaveRule(r) \/ Abort(r)
          => UNCHANGED mention
      <4>1. AskRule(r) \/ AskResolve(r) \/ AskUpload(r) => UNCHANGED mention
        BY DEF AskRule, AskResolve, AskUpload, Open, rows
      <4>2. AskReparse(r) \/ AskReparseAll(r) => UNCHANGED mention
        BY DEF AskReparse, AskReparseAll, Open, rows
      <4>3. AskIngest(r) \/ AskIngestEligible(r) => UNCHANGED mention
        BY DEF AskIngest, AskIngestEligible, Open, rows
      <4>4. SaveRule(r) \/ Abort(r) => UNCHANGED mention
        BY DEF SaveRule, Abort, rows
      <4> QED
        BY <4>1, <4>2, <4>3, <4>4
    <3>3. \A d \in Content :
            \/ LoadLog(r, d) \/ DeleteMentions(r, d) \/ ReadMentions(r, d)
            \/ ArchiveFile(r, d) \/ InsertLog(r, d) \/ DeleteEvents(r, d)
            \/ GiveUpMentions(r, d) \/ Judge(r, d) \/ Replace(r, d) \/ StoreItems(r, d)
            => UNCHANGED mention
      BY DEF LoadLog, DeleteMentions, ReadMentions, ArchiveFile, InsertLog, DeleteEvents,
             GiveUpMentions, Judge, Replace, StoreItems, rows
    <3> QED
      BY <1>1, <2>1, <2>2, <2>3, <2>4, <3>1, <3>2, <3>3
  <2> QED
    BY <1>1, <2>1, <2>5 DEF vars
<1>2. Inv /\ MentionInv /\ [Next]_vars =>
        [\A c \in Content : \A n \in DOMAIN mention[c] \cap DOMAIN mention'[c] :
          mention[c][n] # "unresolved" => mention'[c][n] # "unresolved"]_vars
  BY <1>1
<1> QED
  BY <1>2, InvInit, InvNext, MentionInit, MentionNext, PTL DEF Spec, ResolutionKept

-----------------------------------------------------------------------------
(* The gate.  A request judges the log by the row it loaded, which may be  *)
(* out of date, and reads the mentions again when it has replaced the      *)
(* items.  A row that counts no unresolved mention stays right all the     *)
(* same: every name of its log is known from then on, and no resolution    *)
(* that could still be stored has missed one.                              *)

\* No name of c can be unresolved again.
Settled(c) ==
    /\ c \in Stored
    /\ \A n \in Named[c] : Known(n)
    /\ Unresolved(mention[c]) = {}
    /\ \A s \in Request :
        req[s].pc = "store" /\ req[s].at = {c} /\ Timely(req[s], c) =>
            Unresolved(req[s].found) = {}

\* The counters of row are those of mentions there were of c.
Vouched(row, c) ==
    /\ row.mentions \in 0..Cardinality(Named[c])
    /\ row.unresolved \in 0..Cardinality(Named[c])
    /\ row.mentions > 0 /\ row.unresolved = 0 => Settled(c)

Logged(row, c) ==
    /\ row.parse \in {"absent", "parsed"} /\ row.memory \in {"not_ingested", "ingested"}
    /\ Vouched(row, c)

\* Configuration config lets c pass, now and as long as the request takes.
Admitted(c, config) ==
    \/ config.force /\ config.allow
    \/ /\ Confident(c, config)
       /\ config.allow \/ config.maxUnresolved > 0 \/ Settled(c)

\* What Gated says of an item of c.
Passed(c, item) ==
    /\ (item.config.force /\ item.config.allow) \/ Confident(c, item.config)
    /\ item.status = "unresolved" =>
        item.config.allow \/ (item.config.maxUnresolved > 0 /\ item.card = "none")

\* An item of c but for the number of its request.
ItemOf(c, item) ==
    /\ item = [ing |-> item.ing, gen |-> item.gen, name |-> item.name,
               status |-> item.status, card |-> item.card, config |-> item.config]
    /\ item.gen \in Nat /\ item.name \in Named[c]
    /\ item.status \in Status \cup {"missing"} /\ item.card \in {"id", "raw", "none"}
    /\ item.config \in Config
    /\ Passed(c, item)

Statuses(c) == [Named[c] -> Status] \cup {NoMention}

Gate(q) ==
    /\ q.config \in Config
    /\ q.kind = "upload" =>
        \A pending \in q.made : pending[2] \in Statuses(pending[1])
    /\ \A c \in Content : q.pc = "store" /\ q.at = {c} => q.found \in Statuses(c)
    /\ \A c \in Content : q.kind = "ingest" /\ c \in q.todo => Vouched(q.seen[c], c)
    /\ \A c \in Content :
        q.pc \in {"replace", "ingest"} /\ q.at = {c} => Admitted(c, q.config)
    /\ \A c \in Content : Storing(q, c) => \A item \in q.made : ItemOf(c, item)

GateInv ==
    /\ begun \in 0..MaxRequests
    /\ archive \subseteq Content
    /\ \A c \in Content :
        /\ Logged(log[c], c)
        /\ mention[c] \in Statuses(c)
        /\ \A item \in items[c] : ItemOf(c, item)
    /\ \A r \in Request : Gate(req[r])

LEMMA GateInit == Init => GateInv
<1> SUFFICES ASSUME Init PROVE GateInv
  OBVIOUS
<1> USE DEF Init
<1>1. \A c \in Content : Cardinality(Named[c]) \in Nat
  BY ObservedAssumption, FS_CardinalityType
<1>2. \A c \in Content : Logged(log[c], c)
  BY <1>1 DEF Logged, Vouched, NoLog
<1>3. \A r \in Request : Gate(req[r])
  BY ObservedAssumption DEF Gate, NoRequest, Storing
<1>4. 0 \in 0..MaxRequests
  BY ObservedAssumption
<1> QED
  BY <1>2, <1>3, <1>4 DEF GateInv, Statuses

\* What the counters of mentions f of c are.
LEMMA Tallies ==
    ASSUME NEW c \in Content, NEW f \in Statuses(c)
    PROVE  /\ Cardinality(DOMAIN f) \in 0..Cardinality(Named[c])
           /\ Cardinality(Unresolved(f)) \in 0..Cardinality(Named[c])
           /\ Cardinality(Unresolved(f)) = 0 => Unresolved(f) = {}
           /\ Cardinality(DOMAIN f) > 0 => DOMAIN f = Named[c]
<1>1. IsFiniteSet(Named[c])
  BY ObservedAssumption
<1>2. DOMAIN f = Named[c] \/ DOMAIN f = {}
  BY DEF Statuses, NoMention
<1>3. Unresolved(f) \subseteq DOMAIN f /\ DOMAIN f \subseteq Named[c]
  BY <1>2 DEF Unresolved
<1>4. IsFiniteSet(DOMAIN f) /\ IsFiniteSet(Unresolved(f))
  BY <1>1, <1>3, FS_Subset
<1>5. /\ Cardinality(Named[c]) \in Nat /\ Cardinality(DOMAIN f) \in Nat
      /\ Cardinality(Unresolved(f)) \in Nat
  BY <1>1, <1>4, FS_CardinalityType
<1>6. Cardinality(DOMAIN f) <= Cardinality(Named[c])
  BY <1>1, <1>3, FS_Subset
<1>7. Cardinality(Unresolved(f)) <= Cardinality(DOMAIN f)
  BY <1>3, <1>4, FS_Subset
<1>8. Cardinality(Unresolved(f)) = 0 => Unresolved(f) = {}
  BY <1>4, FS_EmptySet
<1>9. Cardinality(DOMAIN f) > 0 => DOMAIN f # {}
  BY FS_EmptySet
<1> QED
  BY <1>2, <1>5, <1>6, <1>7, <1>8, <1>9

\* A step of r after which every settled log is settled still: the other
\* requests may rely on what they relied on before.
LEMMA GateCarried ==
    ASSUME Inv, GateInv, NEW r \in Request, NEW q, req' = [req EXCEPT ![r] = q],
           \A c \in Content : Settled(c) => Settled(c)',
           Gate(q), begun' \in 0..MaxRequests, archive' \subseteq Content,
           \A c \in Content :
            /\ Logged(log[c], c)'
            /\ mention'[c] \in Statuses(c)
            /\ \A item \in items'[c] : ItemOf(c, item)
    PROVE  GateInv'
<1>1. req'[r] = q /\ \A s \in Request : s # r => req'[s] = req[s]
  BY DEF Inv, Shape
<1>2. \A s \in Request : Gate(req'[s])
  BY <1>1 DEF GateInv
<1>3. \A s \in Request : Gate(req[s])'
  BY <1>2 DEF Gate, Vouched, Admitted, Storing
<1> QED
  BY <1>3 DEF GateInv

\* What has to be kept for a log to be settled after a step.
LEMMA Settling ==
    ASSUME NEW c, c \in Stored', \A n \in Named[c] : Known(n)',
           Unresolved(mention'[c]) = {},
           \A s \in Request :
            req'[s].pc = "store" /\ req'[s].at = {c} /\ Timely(req[s], c)' =>
                Unresolved(req'[s].found) = {}
    PROVE  Settled(c)'
  BY DEF Settled, Unresolved

\* A step of r that commits nothing.
LEMMA GateKept ==
    ASSUME Inv, GateInv, NEW r \in Request, NEW q, req' = [req EXCEPT ![r] = q],
           UNCHANGED <<rows, rules>>, Gate(q),
           \A c \in Content : q.pc = "store" /\ q.at = {c} /\ Settled(c) =>
            Unresolved(q.found) = {},
           begun' \in 0..MaxRequests, archive' \subseteq Content
    PROVE  GateInv'
<1>1. req'[r] = q /\ \A s \in Request : s # r => req'[s] = req[s]
  BY DEF Inv, Shape
<1>2. UNCHANGED <<log, gen, mention, ver, items, rules>>
  BY DEF rows
<1>3. ASSUME NEW c \in Content, Settled(c) PROVE Settled(c)'
  <2>1. c \in Stored'
    BY <1>2, <1>3 DEF Settled, Stored
  <2>2. \A n \in Named[c] : Known(n)'
    BY <1>2, <1>3 DEF Settled, Known
  <2>3. \A s \in Request :
          req'[s].pc = "store" /\ req'[s].at = {c} /\ Timely(req[s], c)' =>
            Unresolved(req'[s].found) = {}
    BY <1>1, <1>2, <1>3 DEF Settled, Timely
  <2>4. Unresolved(mention[c]) = {}
    BY <1>3 DEF Settled
  <2> QED
    BY <1>2, <2>1, <2>2, <2>3, <2>4, Settling
<1>4. \A c \in Content : Logged(log[c], c)'
  BY <1>2, <1>3 DEF GateInv, Logged, Vouched
<1>5. \A c \in Content : mention'[c] \in Statuses(c) /\ \A item \in items'[c] : ItemOf(c, item)
  BY <1>2 DEF GateInv
<1> QED
  BY <1>3, <1>4, <1>5, GateCarried

LEMMA GateEnds ==
    ASSUME Inv, GateInv, NEW r \in Request,
           req' = [req EXCEPT ![r] = NoRequest], UNCHANGED <<archive, rows, rules, begun>>
    PROVE  GateInv'
<1> PICK q : q = NoRequest
  OBVIOUS
<1>1. Gate(q) /\ q.pc = "idle"
  BY ObservedAssumption DEF Gate, NoRequest, Storing
<1>2. begun' \in 0..MaxRequests /\ archive' \subseteq Content
  BY DEF GateInv
<1> QED
  BY <1>1, <1>2, GateKept

\* The steps that open a request or move it on, and judge nothing.
LEMMA GateQuiet ==
    ASSUME Inv, GateInv, NEW r \in Request, NEW q, req' = [req EXCEPT ![r] = q],
           UNCHANGED <<rows, rules, begun>>, archive' \subseteq Content,
           q.kind = req[r].kind, q.config = req[r].config,
           q.kind = "ingest" => q.seen = req[r].seen,
           q.todo \subseteq req[r].todo, q.kind = "upload" => q.made = req[r].made,
           q.pc \notin {"store", "replace", "ingest"}
    PROVE  GateInv'
<1>1. Gate(req[r])
  BY DEF GateInv
<1>2. Gate(q)
  BY <1>1 DEF Gate, Storing
<1>3. begun' \in 0..MaxRequests
  BY DEF GateInv
<1> QED
  BY <1>2, <1>3, GateKept

\* A request that begins knows the rows of its logs.
LEMMA GateOpens ==
    ASSUME Inv, GateInv, NEW r \in Request, NEW kind, NEW todo, NEW config \in Config,
           Open(r, kind, "next", todo, config), todo \subseteq Content
    PROVE  GateInv'
<1> PICK seen : seen = [c \in IF kind = "ingest" THEN todo ELSE {} |-> log[c]]
  OBVIOUS
<1> PICK q : q = [NoRequest EXCEPT !.kind = kind, !.id = begun + 1, !.pc = "next",
                                   !.todo = todo, !.config = config, !.seen = seen]
  OBVIOUS
<1>1. /\ q.kind = kind /\ q.pc = "next" /\ q.todo = todo /\ q.made = {}
      /\ q.config = config /\ q.seen = seen
  BY DEF NoRequest
<1>2. /\ req' = [req EXCEPT ![r] = q] /\ UNCHANGED <<archive, rows, rules>>
      /\ begun' = begun + 1 /\ begun < MaxRequests
  BY DEF Open
<1>3. begun' \in 0..MaxRequests /\ archive' \subseteq Content
  BY <1>2, ObservedAssumption DEF GateInv
<1>4. \A c \in Content : Vouched(log[c], c)
  BY DEF GateInv, Logged
<1>5. \A c \in Content : q.kind = "ingest" /\ c \in q.todo => q.seen[c] = log[c]
  BY <1>1
<1>6. Gate(q)
  BY <1>1, <1>4, <1>5 DEF Gate, Storing
<1> QED
  BY <1>1, <1>2, <1>3, <1>6, GateKept

LEMMA GateAsks ==
    ASSUME Inv, GateInv, NEW r \in Request,
           \/ AskRule(r) \/ AskResolve(r) \/ AskUpload(r) \/ AskReparse(r)
           \/ AskReparseAll(r) \/ AskIngest(r) \/ AskIngestEligible(r)
    PROVE  GateInv'
<1>0. Default \in Config /\ Stored \subseteq Content
  BY ObservedAssumption DEF Stored
<1>1. CASE AskRule(r)
  <2>1. PICK n \in Name, action \in {"resolved", "ignored"} :
          /\ req' = [req EXCEPT ![r] =
                      [NoRequest EXCEPT !.kind = "rule", !.id = begun + 1, !.pc = "save",
                                        !.at = {n}, !.made = {action}]]
          /\ UNCHANGED <<archive, rows, rules>>
          /\ begun' = begun + 1 /\ begun < MaxRequests
    BY <1>1 DEF AskRule
  <2> PICK q : q = [NoRequest EXCEPT !.kind = "rule", !.id = begun + 1, !.pc = "save",
                                     !.at = {n}, !.made = {action}]
    OBVIOUS
  <2>2. q.kind = "rule" /\ q.pc = "save" /\ q.config = Default
    BY DEF NoRequest
  <2>3. Gate(q)
    BY <1>0, <2>2 DEF Gate, Storing
  <2>4. begun' \in 0..MaxRequests /\ archive' \subseteq Content
    BY <2>1, ObservedAssumption DEF GateInv
  <2> QED
    BY <2>1, <2>2, <2>3, <2>4, GateKept
<1>2. CASE AskResolve(r)
  BY <1>0, <1>2, GateOpens DEF AskResolve
<1>3. CASE AskUpload(r)
  BY <1>0, <1>3, GateOpens DEF AskUpload
<1>4. CASE AskReparse(r)
  BY <1>0, <1>4, GateOpens DEF AskReparse
<1>5. CASE AskReparseAll(r)
  BY <1>0, <1>5, GateOpens DEF AskReparseAll
<1>6. CASE AskIngest(r)
  BY <1>0, <1>6, GateOpens DEF AskIngest
<1>7. CASE AskIngestEligible(r)
  BY <1>0, <1>7, GateOpens DEF AskIngestEligible
<1> QED
  BY <1>1, <1>2, <1>3, <1>4, <1>5, <1>6, <1>7

\* A rule more settles no log less.
LEMMA GateSaves ==
    ASSUME Inv, MentionInv, GateInv, NEW r \in Request, SaveRule(r)
    PROVE  GateInv'
<1>1. /\ req[r].pc = "save" /\ UNCHANGED <<archive, log, gen, mention, ver, items, begun>>
      /\ req' = [req EXCEPT ![r] = NoRequest]
  BY DEF SaveRule, rows
<1>2. PICK n \in req[r].at : rules' = [rules EXCEPT ![n] = @ \cup req[r].made]
  BY DEF SaveRule
<1>3. \A m \in Name : Known(m) => Known(m)'
  BY <1>2 DEF Known, MentionInv
<1> PICK q : q = NoRequest
  OBVIOUS
<1>4. Gate(q) /\ q.pc = "idle"
  BY ObservedAssumption DEF Gate, NoRequest, Storing
<1>5. req'[r] = q /\ \A s \in Request : s # r => req'[s] = req[s]
  BY <1>1 DEF Inv, Shape
<1>6. ASSUME NEW c \in Content, Settled(c) PROVE Settled(c)'
  <2>1. c \in Stored' /\ Unresolved(mention'[c]) = {}
    BY <1>1, <1>6 DEF Settled, Stored
  <2>2. \A m \in Named[c] : Known(m)'
    BY <1>3, <1>6, ObservedAssumption DEF Settled
  <2>3. \A s \in Request :
          req'[s].pc = "store" /\ req'[s].at = {c} /\ Timely(req[s], c)' =>
            Unresolved(req'[s].found) = {}
    BY <1>1, <1>4, <1>5, <1>6 DEF Settled, Timely
  <2> QED
    BY <2>1, <2>2, <2>3, Settling
<1>7. \A c \in Content :
        /\ Logged(log[c], c)'
        /\ mention'[c] \in Statuses(c)
        /\ \A item \in items'[c] : ItemOf(c, item)
  BY <1>1, <1>6 DEF GateInv, Logged, Vouched
<1>8. begun' \in 0..MaxRequests /\ archive' \subseteq Content
  BY <1>1 DEF GateInv
<1> QED
  BY <1>1, <1>4, <1>6, <1>7, <1>8, GateCarried

\* The rules say no more of a known name that it is unresolved.
LEMMA FoundSettled ==
    ASSUME MentionInv, NEW c \in Content, NEW f \in Resolutions(c)
    PROVE  f \in Statuses(c) /\ (Settled(c) => Unresolved(f) = {})
<1>1. f \in [Named[c] -> Status] /\ \A n \in Named[c] : f[n] \in Findings(n)
  BY DEF Resolutions
<1>2. \A n \in Named[c] : n \in Name /\ rules[n] \subseteq {"resolved", "ignored"}
  BY ObservedAssumption DEF MentionInv
<1>3. \A n \in Named[c] : Known(n) => f[n] # "unresolved"
  BY <1>1, <1>2 DEF Findings, Known
<1> QED
  BY <1>1, <1>3 DEF Statuses, Settled, Unresolved

LEMMA GateSteps ==
    ASSUME Inv, MentionInv, GateInv, NEW r \in Request, NEW c \in Content,
           \/ LoadLog(r, c) \/ DeleteMentions(r, c) \/ ReadMentions(r, c)
           \/ ArchiveFile(r, c) \/ InsertLog(r, c) \/ DeleteEvents(r, c)
           \/ GiveUpMentions(r, c)
    PROVE  GateInv'
<1>0. /\ IsRequest(req[r]) /\ Local(req[r]) /\ Gate(req[r])
      /\ begun \in 0..MaxRequests /\ archive \subseteq Content
  BY DEF Inv, Shape, GateInv
<1>b. PICK p :
        /\ Between(r) = [req EXCEPT ![r] = p]
        /\ IsRequest(p)
        /\ \/ p = NoRequest /\ req[r].kind # "upload"
           \/ /\ p.kind = req[r].kind /\ p.id = req[r].id /\ p.pc = "next"
              /\ p.todo = req[r].todo /\ p.at = {} /\ p.made = req[r].made
              /\ p.config = req[r].config
              /\ p.kind = "ingest" => p.seen = req[r].seen
  BY BetweenIs
<1>6. CASE LoadLog(r, c)
  <2> PICK seen : seen = [d \in {c} |-> log[d]]
    OBVIOUS
  <2> PICK q : q = [req[r] EXCEPT !.pc = "delete", !.at = {c}, !.todo = req[r].todo \ {c},
                                  !.seen = seen]
    OBVIOUS
  <2>1. /\ q.kind = req[r].kind /\ q.pc = "delete" /\ q.made = req[r].made
        /\ q.config = req[r].config /\ q.todo \subseteq req[r].todo
    BY <1>0 DEF IsRequest
  <2>2. req[r].kind \in {"resolve", "reparse"}
    BY <1>0, <1>6 DEF LoadLog, Takes, Local
  <2>3. UNCHANGED <<archive, rows, rules, begun>> /\ req' = [req EXCEPT ![r] = q]
    BY <1>6 DEF LoadLog
  <2> QED
    BY <1>0, <2>1, <2>2, <2>3, GateQuiet
<1>7. CASE DeleteMentions(r, c)
  <2> PICK q : q = [req[r] EXCEPT !.pc = "read", !.ver = ver[c]]
    OBVIOUS
  <2>1. /\ q.kind = req[r].kind /\ q.pc = "read" /\ q.made = req[r].made
        /\ q.config = req[r].config /\ q.todo = req[r].todo
    BY <1>0 DEF IsRequest
  <2>2. req[r].kind \in {"resolve", "reparse"}
    BY <1>0, <1>7 DEF DeleteMentions, Local
  <2>3. UNCHANGED <<archive, rows, rules, begun>> /\ req' = [req EXCEPT ![r] = q]
    BY <1>7 DEF DeleteMentions
  <2> QED
    BY <1>0, <2>1, <2>2, <2>3, GateQuiet
<1>1. CASE ReadMentions(r, c)
  <2>1. PICK f \in Resolutions(c) :
          req' = [req EXCEPT ![r] = [@ EXCEPT !.pc = "store", !.gen = gen[c], !.found = f]]
    BY <1>1 DEF ReadMentions
  <2> PICK q : q = [req[r] EXCEPT !.pc = "store", !.gen = gen[c], !.found = f]
    OBVIOUS
  <2>2. /\ q.kind = req[r].kind /\ q.pc = "store" /\ q.at = {c} /\ q.found = f
        /\ q.config = req[r].config
    BY <1>0, <1>1 DEF ReadMentions, IsRequest
  <2>3. req[r].kind \in {"resolve", "reparse"}
    BY <1>0, <1>1 DEF ReadMentions, Local
  <2>4. f \in Statuses(c) /\ (Settled(c) => Unresolved(f) = {})
    BY FoundSettled
  <2>5. Gate(q)
    BY <1>0, <2>2, <2>3, <2>4 DEF Gate, Storing
  <2>6. UNCHANGED <<archive, rows, rules, begun>> /\ req' = [req EXCEPT ![r] = q]
    BY <1>1, <2>1 DEF ReadMentions
  <2>7. \A d \in Content : q.pc = "store" /\ q.at = {d} /\ Settled(d) =>
          Unresolved(q.found) = {}
    BY <2>2, <2>4
  <2>8. begun' \in 0..MaxRequests /\ archive' \subseteq Content
    BY <1>0, <2>6
  <2> QED
    BY <2>5, <2>6, <2>7, <2>8, GateKept
<1>2. CASE ArchiveFile(r, c)
  <2> PICK q : q = [req[r] EXCEPT !.pc = "insert", !.at = {c}, !.todo = req[r].todo \ {c}]
    OBVIOUS
  <2> PICK o : o = [req[r] EXCEPT !.todo = req[r].todo \ {c}]
    OBVIOUS
  <2>1. /\ q.kind = req[r].kind /\ q.pc = "insert" /\ q.made = req[r].made
        /\ q.config = req[r].config /\ q.seen = req[r].seen /\ q.todo \subseteq req[r].todo
        /\ o.kind = req[r].kind /\ o.pc = req[r].pc /\ o.made = req[r].made
        /\ o.config = req[r].config /\ o.seen = req[r].seen /\ o.todo \subseteq req[r].todo
    BY <1>0 DEF IsRequest
  <2>2. /\ req[r].pc = "next" /\ UNCHANGED <<rows, rules, begun>>
        /\ archive' \subseteq Content
        /\ req' = [req EXCEPT ![r] = q] \/ req' = [req EXCEPT ![r] = o]
    BY <1>0, <1>2 DEF ArchiveFile, Takes
  <2> QED
    BY <2>1, <2>2, GateQuiet
<1>3. CASE InsertLog(r, c)
  <2>0. req[r].kind = "upload" /\ UNCHANGED <<archive, rows, rules, begun>>
    BY <1>3 DEF InsertLog
  <2>1. CASE RolledBack(r)
    BY <2>0, <2>1, GateEnds DEF RolledBack
  <2>2. ASSUME NEW f \in Resolutions(c) \cup {NoMention},
               req' = [Between(r) EXCEPT ![r].made = @ \cup {<<c, f>>}]
        PROVE  GateInv'
    <3> PICK q : q = [p EXCEPT !.made = p.made \cup {<<c, f>>}]
      OBVIOUS
    <3>1. /\ q.kind = "upload" /\ q.pc = "next" /\ q.config = req[r].config
          /\ q.made = req[r].made \cup {<<c, f>>}
      BY <1>b, <2>0 DEF IsRequest
    <3>2. req' = [req EXCEPT ![r] = q]
      BY <1>b, <2>2 DEF Inv, Shape
    <3>3. f \in Statuses(c)
      BY <2>2, FoundSettled DEF Statuses
    <3>4. Gate(q)
      BY <1>0, <2>0, <3>1, <3>3 DEF Gate, Storing
    <3> QED
      BY <1>0, <2>0, <3>1, <3>2, <3>4, GateKept
  <2> QED
    BY <1>3, <2>1, <2>2 DEF InsertLog
<1>4. CASE DeleteEvents(r, c)
  <2> PICK q : q = [req[r] EXCEPT !.pc = "rewrite", !.at = {c},
                                  !.todo = req[r].todo \ {c}, !.gen = gen[c]]
    OBVIOUS
  <2>1. /\ q.kind = req[r].kind /\ q.pc = "rewrite" /\ q.made = req[r].made
        /\ q.config = req[r].config /\ q.seen = req[r].seen /\ q.todo \subseteq req[r].todo
    BY <1>0 DEF IsRequest
  <2>2. UNCHANGED <<archive, rows, rules, begun>> /\ req' = [req EXCEPT ![r] = q]
    BY <1>4 DEF DeleteEvents
  <2> QED
    BY <1>0, <2>1, <2>2, GateQuiet
<1>5. CASE GiveUpMentions(r, c)
  <2>1. UNCHANGED <<archive, rows, rules, begun>> /\ req' = [req EXCEPT ![r] = p]
    BY <1>5, <1>b DEF GiveUpMentions
  <2>2. CASE p = NoRequest
    BY <2>1, <2>2, GateEnds
  <2>3. CASE p # NoRequest
    BY <1>0, <1>b, <2>1, <2>3, GateQuiet
  <2> QED
    BY <2>2, <2>3
<1> QED
  BY <1>1, <1>2, <1>3, <1>4, <1>5, <1>6, <1>7

\* A log that is judged eligible stays admitted until its items are stored.
LEMMA GateJudges ==
    ASSUME Inv, GateInv, NEW r \in Request, NEW c \in Content, Judge(r, c)
    PROVE  GateInv'
<1>0. /\ IsRequest(req[r]) /\ Local(req[r]) /\ Gate(req[r])
      /\ begun \in 0..MaxRequests /\ archive \subseteq Content
      /\ req[r].kind = "ingest" /\ c \in req[r].todo
      /\ UNCHANGED <<archive, rows, rules, begun>>
  BY DEF Inv, Shape, GateInv, Judge, Takes
<1>1. CASE RolledBack(r)
  BY <1>0, <1>1, GateEnds DEF RolledBack
<1>2. CASE /\ Eligible(c, req[r].seen[c], mention[c], req[r].config)
           /\ req' = [req EXCEPT ![r] =
                      [@ EXCEPT !.pc = "replace", !.at = {c}, !.todo = req[r].todo \ {c}]]
  <2> PICK q : q = [req[r] EXCEPT !.pc = "replace", !.at = {c}, !.todo = req[r].todo \ {c}]
    OBVIOUS
  <2>1. /\ q.kind = "ingest" /\ q.pc = "replace" /\ q.at = {c}
        /\ q.todo = req[r].todo \ {c} /\ q.config = req[r].config /\ q.seen = req[r].seen
    BY <1>0 DEF IsRequest
  <2>2. Vouched(req[r].seen[c], c) /\ req[r].config \in Config
    BY <1>0 DEF Gate
  <2>3. req[r].config.maxUnresolved \in Nat /\ Cardinality(Named[c]) \in Nat
    BY <2>2, ObservedAssumption, FS_CardinalityType
  <2> PICK row, config : row = req[r].seen[c] /\ config = req[r].config
    OBVIOUS
  <2>4. Admitted(c, config)
    BY <1>2, <2>2, <2>3 DEF Eligible, Resolved, Admitted, Vouched
  <2>5. Gate(q)
    BY <1>0, <2>1, <2>4 DEF Gate, Storing
  <2> QED
    BY <1>0, <1>2, <2>1, <2>5, GateKept
<1> QED
  BY <1>1, <1>2 DEF Judge

\* The items an ingestion has prepared pass the gate they were judged by.
LEMMA GateReplaces ==
    ASSUME Inv, GateInv, NEW r \in Request, NEW c \in Content, Replace(r, c)
    PROVE  GateInv'
<1>0. /\ IsRequest(req[r]) /\ Local(req[r]) /\ Gate(req[r]) /\ req[r].kind = "ingest"
      /\ req[r].pc = "replace" /\ req[r].at = {c}
      /\ UNCHANGED <<archive, rows, rules, begun>>
      /\ begun' \in 0..MaxRequests /\ archive' \subseteq Content
  BY DEF Inv, Shape, GateInv, Replace, Local
<1> PICK config : config = req[r].config
  OBVIOUS
<1>1. config \in Config /\ Admitted(c, config) /\ gen[c] \in Nat
  BY <1>0 DEF Gate, Inv, Shape
<1>2. \A n \in Named[c] : n \in DOMAIN mention[c] => mention[c][n] \in Status
  BY DEF GateInv, Statuses, NoMention
<1>3. mention[c] # NoMention => DOMAIN mention[c] = Named[c]
  BY DEF GateInv, Statuses
<1>4. Settled(c) => \A n \in Named[c] : n \in DOMAIN mention[c] => mention[c][n] # "unresolved"
  BY DEF Settled, Unresolved
<1>5. ASSUME NEW item \in ItemsOf(c, mention[c], r) PROVE ItemOf(c, item)
  <2>1. PICK n, status :
          /\ n \in Named[c]
          /\ status = IF n \in DOMAIN mention[c] THEN mention[c][n] ELSE "missing"
          /\ item = [ing |-> req[r].id, gen |-> gen[c], name |-> n, status |-> status,
                     card |-> CardFields(status, config), config |-> config]
    BY <1>5 DEF ItemsOf
  <2>2. status \in Status \cup {"missing"}
    BY <1>2, <2>1
  <2>3. Settled(c) => status # "unresolved"
    BY <1>4, <2>1
  <2>4. /\ CardFields(status, config) \in {"id", "raw", "none"}
        /\ status = "unresolved" => config.allow \/ CardFields(status, config) = "none"
    BY <2>2 DEF CardFields, Status
  <2> QED
    BY <1>1, <2>1, <2>2, <2>3, <2>4 DEF ItemOf, Passed, Admitted
<1> PICK made : made = ItemsOf(c, mention[c], r)
  OBVIOUS
<1> PICK q : q = [req[r] EXCEPT !.pc = "ingest", !.gen = gen[c], !.gone = items[c],
                                !.made = made]
  OBVIOUS
<1>6. /\ q.kind = "ingest" /\ q.pc = "ingest" /\ q.at = {c} /\ q.made = made
      /\ q.todo = req[r].todo /\ q.config = config /\ q.seen = req[r].seen
  BY <1>0 DEF IsRequest
<1>7. req' = [req EXCEPT ![r] = q]
  BY DEF Replace
<1>8. Gate(q)
  <2>1. \A d \in Content : q.at = {d} => d = c
    BY <1>6
  <2> QED
    BY <1>0, <1>1, <1>5, <1>6, <2>1 DEF Gate, Storing
<1> QED
  BY <1>0, <1>6, <1>7, <1>8, GateKept

LEMMA GateIngests ==
    ASSUME Inv, GateInv, NEW r \in Request, NEW c \in Content, StoreItems(r, c)
    PROVE  GateInv'
<1>0. /\ IsRequest(req[r]) /\ Local(req[r]) /\ Gate(req[r]) /\ req[r].kind = "ingest"
      /\ req[r].pc = "ingest" /\ req[r].at = {c}
      /\ UNCHANGED <<archive, rules, begun>>
      /\ begun' \in 0..MaxRequests /\ archive' \subseteq Content
  BY DEF Inv, Shape, GateInv, StoreItems, Local
<1>1. CASE RolledBack(r) /\ UNCHANGED rows
  BY <1>0, <1>1, GateEnds DEF RolledBack
<1>2. CASE /\ items' = [items EXCEPT ![c] = (@ \ req[r].gone) \cup req[r].made]
           /\ log' = [log EXCEPT ![c].memory = "ingested"]
           /\ req' = [Between(r) EXCEPT ![r].made = {}]
           /\ UNCHANGED <<gen, mention, ver>>
  <2>1. PICK p :
          /\ Between(r) = [req EXCEPT ![r] = p]
          /\ IsRequest(p)
          /\ \/ p = NoRequest
             \/ /\ p.kind = req[r].kind /\ p.pc = "next" /\ p.todo = req[r].todo
                /\ p.config = req[r].config
                /\ p.kind = "ingest" => p.seen = req[r].seen
    BY BetweenIs
  <2> PICK q : q = [p EXCEPT !.made = {}]
    OBVIOUS
  <2>2. /\ q.made = {} /\ q.pc = p.pc /\ q.kind = p.kind /\ q.todo = p.todo
        /\ q.config = p.config /\ (q.kind = "ingest" => q.seen = p.seen)
    BY <2>1 DEF IsRequest
  <2>3. Gate(q) /\ q.pc \in {"idle", "next"}
    <3>1. CASE p = NoRequest
      BY <2>2, <3>1, ObservedAssumption DEF Gate, NoRequest, Storing
    <3>2. CASE p # NoRequest
      BY <1>0, <2>1, <2>2, <3>2 DEF Gate, Storing
    <3> QED
      BY <3>1, <3>2
  <2>4. req' = [req EXCEPT ![r] = q]
    BY <1>2, <2>1 DEF Inv, Shape
  <2>5. req'[r] = q /\ \A s \in Request : s # r => req'[s] = req[s]
    BY <2>4 DEF Inv, Shape
  <2>6. ASSUME NEW d \in Content
        PROVE  /\ log'[d].parse = log[d].parse
               /\ log'[d].memory = log[d].memory \/ log'[d].memory = "ingested"
               /\ log'[d].mentions = log[d].mentions
               /\ log'[d].unresolved = log[d].unresolved
    <3>1. log'[d] = log[d] \/ log'[d] = [log[d] EXCEPT !.memory = "ingested"]
      BY <1>2 DEF Inv, Shape
    <3>2. IsRow(log[d])
      BY DEF Inv, Shape
    <3> QED
      BY <3>1, <3>2 DEF IsRow
  <2>7. ASSUME NEW d \in Content, Settled(d) PROVE Settled(d)'
    <3>1. d \in Stored' /\ Unresolved(mention'[d]) = {}
      BY <1>2, <2>6, <2>7 DEF Settled, Stored
    <3>2. \A n \in Named[d] : Known(n)'
      BY <1>0, <2>7 DEF Settled, Known
    <3>3. \A s \in Request :
            req'[s].pc = "store" /\ req'[s].at = {d} /\ Timely(req[s], d)' =>
              Unresolved(req'[s].found) = {}
      BY <1>2, <2>3, <2>5, <2>7 DEF Settled, Timely
    <3> QED
      BY <3>1, <3>2, <3>3, Settling
  <2>8. ASSUME NEW d \in Content PROVE \A item \in items'[d] : ItemOf(d, item)
    <3>1. items'[d] = items[d] \/ (d = c /\ items'[d] \subseteq items[d] \cup req[r].made)
      BY <1>2 DEF Inv, Shape
    <3>2. \A item \in items[d] : ItemOf(d, item)
      BY DEF GateInv
    <3>3. \A item \in req[r].made : ItemOf(c, item)
      BY <1>0 DEF Gate, Storing
    <3> QED
      BY <3>1, <3>2, <3>3
  <2>9. \A d \in Content : Logged(log[d], d)'
    BY <2>6, <2>7 DEF GateInv, Logged, Vouched
  <2>10. \A d \in Content : mention'[d] \in Statuses(d)
    BY <1>2 DEF GateInv
  <2> QED
    BY <1>0, <2>3, <2>4, <2>7, <2>8, <2>9, <2>10, GateCarried
<1> QED
  BY <1>1, <1>2 DEF StoreItems

\* What counting the mentions f makes of the row of c: it vouches for no more
\* than they say.
LEMMA CountedVouches ==
    ASSUME NEW c \in Content, NEW row, IsRow(row), NEW f \in Statuses(c), Earned(f)
    PROVE  /\ Counted(row, f).parse = row.parse /\ Counted(row, f).memory = row.memory
           /\ Counted(row, f).mentions \in 0..Cardinality(Named[c])
           /\ Counted(row, f).unresolved \in 0..Cardinality(Named[c])
           /\ Counted(row, f).mentions > 0 /\ Counted(row, f).unresolved = 0 =>
                Unresolved(f) = {} /\ \A n \in Named[c] : Known(n)
<1>1. Counted(row, f).parse = row.parse /\ Counted(row, f).memory = row.memory
  <2>1. PICK m, u : m = Cardinality(DOMAIN f) /\ u = Cardinality(Unresolved(f))
    OBVIOUS
  <2>2. Counted(row, f) = [row EXCEPT !.mentions = m, !.unresolved = u]
    BY <2>1 DEF Counted
  <2> QED
    BY <2>2 DEF IsRow
<1>2. /\ Counted(row, f).mentions = Cardinality(DOMAIN f)
      /\ Counted(row, f).unresolved = Cardinality(Unresolved(f))
  BY CountedIs
<1>3. DOMAIN f = Named[c] /\ Unresolved(f) = {} => \A n \in Named[c] : Known(n)
  BY DEF Earned, Unresolved
<1> QED
  BY <1>1, <1>2, <1>3, Tallies

\* The commit of a resolution settles its log or leaves it as settled as it
\* was; whoever resolves it too has read mentions that are gone.
LEMMA GateStores ==
    ASSUME Inv, MentionInv, GateInv, NEW r \in Request, NEW c \in Content,
           StoreMentions(r, c)
    PROVE  GateInv'
<1>0. /\ IsRequest(req[r]) /\ Gate(req[r]) /\ req[r].kind \in {"resolve", "reparse"}
      /\ req[r].pc = "store" /\ req[r].at = {c} /\ IsRow(log[c])
      /\ UNCHANGED <<archive, rules, begun>>
      /\ begun' \in 0..MaxRequests /\ archive' \subseteq Content
  BY DEF Inv, Shape, GateInv, StoreMentions, Local
<1>1. CASE RolledBack(r) /\ UNCHANGED rows
  BY <1>0, <1>1, GateEnds DEF RolledBack
<1>2. CASE /\ Insertable(r, c)
           /\ mention' = [mention EXCEPT ![c] = req[r].found]
           /\ ver' = [ver EXCEPT ![c] = @ + 1]
           /\ log' = [log EXCEPT ![c] = Written(@, req[r].seen[c], req[r].found)]
           /\ req' = Between(r)
           /\ UNCHANGED <<gen, items>>
  <2> PICK f : f = req[r].found
    OBVIOUS
  <2>1. DOMAIN f = Named[c] /\ Earned(f) /\ f \in Statuses(c)
    BY <1>0 DEF MentionInv, Finding, Gate
  <2>2. PICK q :
          /\ Between(r) = [req EXCEPT ![r] = q]
          /\ \/ q = NoRequest
             \/ q.kind = req[r].kind /\ q.pc = "next" /\ q.config = req[r].config
    BY BetweenIs
  <2>3. Gate(q) /\ q.pc # "store"
    <3>1. CASE q = NoRequest
      BY <3>1, ObservedAssumption DEF Gate, NoRequest, Storing
    <3>2. CASE q # NoRequest
      BY <1>0, <2>2, <3>2 DEF Gate, Storing
    <3> QED
      BY <3>1, <3>2
  <2>4. req'[r] = q /\ \A s \in Request : s # r => req'[s] = req[s]
    BY <1>2, <2>2 DEF Inv, Shape
  <2>5. /\ mention'[c] = f /\ ver'[c] = ver[c] + 1
        /\ log'[c] = Written(log[c], req[r].seen[c], f)
        /\ \A d \in Content : d # c =>
            mention'[d] = mention[d] /\ ver'[d] = ver[d] /\ log'[d] = log[d]
    BY <1>2 DEF MentionInv, Inv, Shape
  <2>6. \A d \in Content : log'[d].parse = log[d].parse /\ log'[d].memory = log[d].memory
    BY <1>0, <2>5, WrittenIs
  <2>v. /\ log'[c].mentions \in 0..Cardinality(Named[c])
        /\ log'[c].unresolved \in 0..Cardinality(Named[c])
        /\ log'[c].unresolved = 0 => Unresolved(f) = {} /\ \A n \in Named[c] : Known(n)
    <3>1. /\ log'[c].mentions = Cardinality(Named[c])
          /\ log'[c].unresolved >= Cardinality(Unresolved(f))
          /\ log'[c].unresolved \in {log[c].unresolved, Cardinality(Unresolved(f))}
      BY <1>0, <1>2, <2>5, StoredCounts
    <3>2. log[c].unresolved \in 0..Cardinality(Named[c])
      BY DEF GateInv, Logged, Vouched
    <3>3. /\ Cardinality(Unresolved(f)) \in 0..Cardinality(Named[c])
          /\ Cardinality(Unresolved(f)) = 0 => Unresolved(f) = {}
          /\ Cardinality(Named[c]) \in Nat
      BY <2>1, Tallies, Sizes
    <3>4. Unresolved(f) = {} => \A n \in Named[c] : Known(n)
      BY <2>1 DEF Earned, Unresolved
    <3> QED
      BY <3>1, <3>2, <3>3, <3>4
  <2>7. Named[c] # {} => \A s \in Request :
          ~(req'[s].pc = "store" /\ req'[s].at = {c} /\ Timely(req[s], c)')
    <3>1. \A s \in Request : req[s].pc = "store" /\ req[s].at = {c} =>
            req[s].ver \in Nat /\ req[s].ver <= ver[c]
      BY DEF MentionInv, Finding
    <3>2. ver[c] \in Nat
      BY DEF MentionInv
    <3>3. Named[c] # {} => mention'[c] # NoMention
      BY <2>1, <2>5 DEF NoMention
    <3> QED
      BY <2>3, <2>4, <2>5, <3>1, <3>2, <3>3 DEF Timely
  <2>z. Named[c] = {} => \A s \in Request :
          req'[s].pc = "store" /\ req'[s].at = {c} => Unresolved(req'[s].found) = {}
    <3>1. \A s \in Request : req[s].pc = "store" /\ req[s].at = {c} =>
            DOMAIN req[s].found = Named[c]
      BY DEF MentionInv, Finding
    <3> QED
      BY <2>3, <2>4, <3>1 DEF Unresolved
  <2>8. c \in Stored /\ Stored' = Stored
    BY <1>0, <2>6 DEF Inv, Local, Stored
  <2>9. ASSUME Unresolved(f) = {}, \A n \in Named[c] : Known(n) PROVE Settled(c)'
    <3>1. \A n \in Named[c] : Known(n)'
      BY <1>0, <2>9 DEF Known
    <3> QED
      BY <2>5, <2>7, <2>8, <2>9, <2>z, <3>1, Settling
  <2>10. ASSUME NEW d \in Content, Settled(d) PROVE Settled(d)'
    <3>1. CASE d = c
      <4>1. Unresolved(f) = {}
        <5>1. CASE Timely(req[r], c)
          BY <1>0, <2>10, <3>1, <5>1 DEF Settled
        <5>2. CASE Named[c] = {}
          BY <2>1, <5>2 DEF Unresolved
        <5> QED
          BY <1>2, <5>1, <5>2 DEF Insertable, Timely
      <4> QED
        BY <2>9, <2>10, <3>1, <4>1 DEF Settled
    <3>2. CASE d # c
      <4>1. d \in Stored' /\ Unresolved(mention'[d]) = {}
        BY <2>5, <2>8, <2>10, <3>2 DEF Settled
      <4>2. \A n \in Named[d] : Known(n)'
        BY <1>0, <2>10 DEF Settled, Known
      <4>3. \A s \in Request :
              req'[s].pc = "store" /\ req'[s].at = {d} /\ Timely(req[s], d)' =>
                Unresolved(req'[s].found) = {}
        BY <1>2, <2>3, <2>4, <2>5, <2>10, <3>2 DEF Settled, Timely
      <4> QED
        BY <4>1, <4>2, <4>3, Settling
    <3> QED
      BY <3>1, <3>2
  <2>11. ASSUME NEW d \in Content PROVE Logged(log[d], d)'
    <3>0. Logged(log[d], d)
      BY DEF GateInv
    <3>1. CASE d = c
      BY <2>6, <2>9, <2>v, <3>0, <3>1 DEF Logged, Vouched
    <3>2. CASE d # c
      BY <2>5, <2>10, <3>0, <3>2 DEF Logged, Vouched
    <3> QED
      BY <3>1, <3>2
  <2>12. \A d \in Content : mention'[d] \in Statuses(d) /\ \A item \in items'[d] : ItemOf(d, item)
    BY <1>2, <2>1, <2>5 DEF GateInv
  <2>13. req' = [req EXCEPT ![r] = q]
    BY <1>2, <2>2
  <2> QED
    BY <1>0, <2>3, <2>10, <2>11, <2>12, <2>13, GateCarried
<1> QED
  BY <1>1, <1>2 DEF StoreMentions

\* New events take the mentions with them, and whoever was about to store
\* mentions of the old ones fails.
LEMMA GateRewrites ==
    ASSUME Inv, MentionInv, GateInv, NEW r \in Request, NEW c \in Content,
           RewriteEvents(r, c)
    PROVE  GateInv'
<1>0. /\ IsRequest(req[r]) /\ Gate(req[r]) /\ req[r].kind \in {"resolve", "reparse"}
      /\ req[r].pc = "rewrite" /\ req[r].at = {c}
      /\ UNCHANGED <<archive, rules, begun>>
      /\ begun' \in 0..MaxRequests /\ archive' \subseteq Content
  BY DEF Inv, Shape, GateInv, RewriteEvents, Local
<1>1. CASE RolledBack(r) /\ UNCHANGED rows
  BY <1>0, <1>1, GateEnds DEF RolledBack
<1>2. CASE /\ gen' = [gen EXCEPT ![c] = @ + 1]
           /\ mention' = [mention EXCEPT ![c] = NoMention]
           /\ ver' = [ver EXCEPT ![c] = @ + 1]
           /\ items' = [items EXCEPT ![c] = Cascaded(@, gen[c])]
           /\ req' = [req EXCEPT ![r].pc = "refresh"]
           /\ UNCHANGED log
  <2> PICK q : q = [req[r] EXCEPT !.pc = "refresh"]
    OBVIOUS
  <2>1. /\ q.pc = "refresh" /\ q.kind = req[r].kind /\ q.config = req[r].config
        /\ req' = [req EXCEPT ![r] = q]
    BY <1>0, <1>2 DEF IsRequest
  <2>2. Gate(q)
    BY <1>0, <2>1 DEF Gate, Storing
  <2>3. req'[r] = q /\ \A s \in Request : s # r => req'[s] = req[s]
    BY <2>1 DEF Inv, Shape
  <2>4. /\ mention'[c] = NoMention /\ gen'[c] = gen[c] + 1 /\ gen[c] \in Nat
        /\ \A d \in Content : d # c =>
            mention'[d] = mention[d] /\ ver'[d] = ver[d] /\ gen'[d] = gen[d]
    BY <1>2 DEF MentionInv, Inv, Shape
  <2>5. \A s \in Request :
          ~(req'[s].pc = "store" /\ req'[s].at = {c} /\ Timely(req[s], c)')
    <3>1. \A s \in Request : req[s].pc = "store" /\ req[s].at = {c} =>
            req[s].gen \in Nat /\ req[s].gen <= gen[c]
      BY DEF MentionInv, Finding
    <3> QED
      BY <2>1, <2>3, <2>4, <3>1 DEF Timely
  <2>6. Unresolved(NoMention) = {}
    BY DEF Unresolved, NoMention
  <2>7. ASSUME NEW d \in Content, Settled(d) PROVE Settled(d)'
    <3>1. d \in Stored' /\ Unresolved(mention'[d]) = {}
      BY <1>2, <2>4, <2>6, <2>7 DEF Settled, Stored
    <3>2. \A n \in Named[d] : Known(n)'
      BY <1>0, <2>7 DEF Settled, Known
    <3>3. \A s \in Request :
            req'[s].pc = "store" /\ req'[s].at = {d} /\ Timely(req[s], d)' =>
              Unresolved(req'[s].found) = {}
      <4>1. CASE d = c
        BY <2>5, <4>1
      <4>2. CASE d # c
        BY <2>1, <2>3, <2>4, <2>7, <4>2 DEF Settled, Timely
      <4> QED
        BY <4>1, <4>2
    <3> QED
      BY <3>1, <3>2, <3>3, Settling
  <2>8. \A d \in Content : items'[d] \subseteq items[d]
    BY <1>2 DEF Cascaded, Inv, Shape
  <2>9. \A d \in Content :
          /\ Logged(log[d], d)'
          /\ mention'[d] \in Statuses(d)
          /\ \A item \in items'[d] : ItemOf(d, item)
    BY <1>2, <2>4, <2>7, <2>8 DEF GateInv, Logged, Vouched, Statuses
  <2> QED
    BY <1>0, <2>1, <2>2, <2>7, <2>9, GateCarried
<1> QED
  BY <1>1, <1>2 DEF RewriteEvents

\* An upload brings new logs, which no request has judged or resolved yet.
LEMMA GateUploads ==
    ASSUME Inv, MentionInv, GateInv, NEW r \in Request, CommitUpload(r)
    PROVE  GateInv'
<1> DEFINE new  == {pending[1] : pending \in req[r].made}
           f(c) == (CHOOSE pending \in req[r].made : pending[1] = c)[2]
<1>0. /\ req[r].kind = "upload" /\ Local(req[r]) /\ Finding(req[r]) /\ Gate(req[r])
      /\ req' = [req EXCEPT ![r] = NoRequest]
      /\ UNCHANGED <<archive, ver, items, rules, begun>>
      /\ begun' \in 0..MaxRequests /\ archive' \subseteq Content
  BY DEF CommitUpload, Inv, MentionInv, GateInv
<1>1. new \cap Stored = {}
  BY <1>0 DEF Local
<1>2. \A c \in Content :
        /\ log'[c] = IF c \in new THEN Counted([NoLog EXCEPT !.parse = "parsed"], f(c))
                     ELSE log[c]
        /\ mention'[c] = IF c \in new THEN f(c) ELSE mention[c]
        /\ gen'[c] = IF c \in new THEN 1 ELSE gen[c]
  BY DEF CommitUpload
<1>3. ASSUME NEW c \in Content, c \in new
      PROVE  Earned(f(c)) /\ f(c) \in Statuses(c)
  <2>1. \E pending \in req[r].made : pending[1] = c
    BY <1>3
  <2>2. PICK pending \in req[r].made : pending[1] = c /\ f(c) = pending[2]
    BY <2>1
  <2> QED
    BY <1>0, <2>2 DEF Finding, Gate
<1>4. \A s \in Request \ {r} : \A c \in Content :
        req[s].pc = "store" /\ req[s].at = {c} => c \in Stored
  BY DEF Inv, Local
<1> HIDE DEF new, f
<1> PICK fresh : fresh = [NoLog EXCEPT !.parse = "parsed"]
  OBVIOUS
<1>5. IsRow(fresh) /\ fresh.parse = "parsed" /\ fresh.memory = "not_ingested"
  BY DEF IsRow, NoLog
<1>v. ASSUME NEW c \in Content, c \in new
      PROVE  LET row == Counted(fresh, f(c))
             IN  /\ row.parse = "parsed" /\ row.memory = "not_ingested"
                 /\ row.mentions \in 0..Cardinality(Named[c])
                 /\ row.unresolved \in 0..Cardinality(Named[c])
                 /\ row.mentions > 0 /\ row.unresolved = 0 =>
                     Unresolved(f(c)) = {} /\ \A n \in Named[c] : Known(n)
  <2> PICK g : g = f(c)
    OBVIOUS
  <2>1. g \in Statuses(c) /\ Earned(g)
    BY <1>3, <1>v
  <2> QED
    BY <1>5, <2>1, CountedVouches
<1> PICK q : q = NoRequest
  OBVIOUS
<1>6. Gate(q) /\ q.pc = "idle"
  BY ObservedAssumption DEF Gate, NoRequest, Storing
<1>7. req'[r] = q /\ \A s \in Request : s # r => req'[s] = req[s]
  BY <1>0 DEF Inv, Shape
<1>8. \A c \in Content :
        /\ c \in new => log'[c] = Counted(fresh, f(c)) /\ mention'[c] = f(c)
        /\ c \notin new =>
            log'[c] = log[c] /\ mention'[c] = mention[c] /\ gen'[c] = gen[c]
  BY <1>2
<1>9. ASSUME NEW c \in Content, Settled(c) PROVE Settled(c)'
  <2>1. c \in Stored /\ c \notin new
    BY <1>1, <1>9 DEF Settled
  <2>2. c \in Stored' /\ Unresolved(mention'[c]) = {}
    BY <1>8, <1>9, <2>1 DEF Settled, Stored
  <2>3. \A n \in Named[c] : Known(n)'
    BY <1>0, <1>9 DEF Settled, Known
  <2>4. \A s \in Request :
          req'[s].pc = "store" /\ req'[s].at = {c} /\ Timely(req[s], c)' =>
            Unresolved(req'[s].found) = {}
    BY <1>0, <1>6, <1>7, <1>8, <1>9, <2>1 DEF Settled, Timely
  <2> QED
    BY <2>2, <2>3, <2>4, Settling
<1>10. ASSUME NEW c \in Content, c \in new, Unresolved(f(c)) = {},
              \A n \in Named[c] : Known(n)
       PROVE  Settled(c)'
  <2>1. log'[c].parse = "parsed"
    BY <1>8, <1>10, <1>v
  <2>2. c \in Stored' /\ Unresolved(mention'[c]) = {}
    BY <1>8, <1>10, <2>1 DEF Stored
  <2>3. \A n \in Named[c] : Known(n)'
    BY <1>0, <1>10 DEF Known
  <2>4. c \notin Stored
    BY <1>1, <1>10
  <2>5. \A s \in Request : ~(req'[s].pc = "store" /\ req'[s].at = {c})
    BY <1>4, <1>6, <1>7, <2>4
  <2> QED
    BY <2>2, <2>3, <2>5, Settling
<1>11. ASSUME NEW c \in Content
       PROVE  Logged(log[c], c)' /\ mention'[c] \in Statuses(c)
  <2>0. Logged(log[c], c) /\ mention[c] \in Statuses(c)
    BY DEF GateInv
  <2>1. CASE c \in new
    BY <1>3, <1>8, <1>10, <1>v, <2>1 DEF Logged, Vouched
  <2>2. CASE c \notin new
    BY <1>8, <1>9, <2>0, <2>2 DEF Logged, Vouched
  <2> QED
    BY <2>1, <2>2
<1>12. \A c \in Content : \A item \in items'[c] : ItemOf(c, item)
  BY <1>0 DEF GateInv
<1>13. req' = [req EXCEPT ![r] = q]
  BY <1>0
<1> QED
  BY <1>0, <1>6, <1>9, <1>11, <1>12, <1>13, GateCarried

LEMMA GateNext == Inv /\ MentionInv /\ GateInv /\ [Next]_vars => GateInv'
<1> SUFFICES ASSUME Inv, MentionInv, GateInv, [Next]_vars PROVE GateInv'
  OBVIOUS
<1>1. CASE Next
  <2>1. PICK r \in Request :
          \/ AskRule(r) \/ AskResolve(r) \/ AskUpload(r) \/ AskReparse(r)
          \/ AskReparseAll(r) \/ AskIngest(r) \/ AskIngestEligible(r)
          \/ SaveRule(r) \/ CommitUpload(r) \/ Abort(r)
          \/ \E c \in Content :
              \/ LoadLog(r, c) \/ DeleteMentions(r, c)
              \/ ReadMentions(r, c) \/ StoreMentions(r, c) \/ ArchiveFile(r, c)
              \/ InsertLog(r, c) \/ DeleteEvents(r, c) \/ RewriteEvents(r, c)
              \/ GiveUpMentions(r, c) \/ Judge(r, c) \/ Replace(r, c) \/ StoreItems(r, c)
    BY <1>1 DEF Next
  <2>2. CASE Abort(r)
    BY <2>2, GateEnds DEF Abort, RolledBack
  <2> QED
    BY <2>1, <2>2, GateAsks, GateSaves, GateUploads, GateSteps, GateJudges,
       GateReplaces, GateIngests, GateStores, GateRewrites
<1>2. CASE UNCHANGED vars
  <2>1. UNCHANGED <<archive, log, gen, mention, ver, items, rules, begun, req>>
    BY <1>2 DEF vars
  <2>2. \A c \in Content : Settled(c)' <=> Settled(c)
    BY <2>1 DEF Settled, Timely, Stored, Known, Unresolved
  <2>3. \A r \in Request : Gate(req[r])'
    BY <2>1, <2>2 DEF GateInv, Gate, Vouched, Admitted, Storing
  <2>4. \A c \in Content : Logged(log[c], c)'
    BY <2>1, <2>2 DEF GateInv, Logged, Vouched
  <2> QED
    BY <2>1, <2>3, <2>4 DEF GateInv
<1> QED
  BY <1>1, <1>2

\* Every row keeps the columns its table has, and its counters count no more
\* mentions than the log has events.
THEOREM ImportTyped == Spec => []TypeOK
<1>1. ASSUME Inv, MentionInv, GateInv PROVE TypeOK
  <2>1. ASSUME NEW c \in Content PROVE items[c] \subseteq Item(c)
    <3>1. ASSUME NEW item \in items[c] PROVE item \in Item(c)
      <4>1. ItemOf(c, item)
        BY <1>1 DEF GateInv
      <4>2. item.ing \in 1..begun /\ begun \in 0..MaxRequests /\ MaxRequests \in Nat
        BY <1>1, ObservedAssumption DEF Inv, Tables, GateInv
      <4>3. item.ing \in 1..MaxRequests
        BY <4>2
      <4> QED
        BY <4>1, <4>3 DEF ItemOf, Item
    <3> QED
      BY <3>1
  <2>2. ASSUME NEW c \in Content
        PROVE  log[c] \in [parse : {"absent", "parsed"},
                           memory : {"not_ingested", "ingested"},
                           mentions : 0..Cardinality(Named[c]),
                           unresolved : 0..Cardinality(Named[c])]
    <3>1. IsRow(log[c]) /\ Logged(log[c], c)
      BY <1>1 DEF Inv, Shape, GateInv
    <3> QED
      BY <3>1 DEF IsRow, Logged, Vouched
  <2>3. \A c \in Content : gen[c] \in Nat /\ ver[c] \in Nat
    BY <1>1 DEF Inv, Shape, MentionInv
  <2>4. \A c \in Content : mention[c] \in Statuses(c)
    BY <1>1 DEF GateInv
  <2> QED
    BY <1>1, <2>1, <2>2, <2>3, <2>4 DEF TypeOK, GateInv, MentionInv, Statuses
<1> QED
  BY <1>1, InvInit, InvNext, MentionInit, MentionNext, GateInit, GateNext, PTL DEF Spec

\* What is in memory passed the gate of the configuration it was ingested
\* under, although the row, the critical mentions and the mentions that make
\* the items are read at three different times: what a row without unresolved
\* mentions has promised cannot be taken back.
THEOREM MemoryGated == Spec => []Gated
<1>1. GateInv => Gated
  BY DEF GateInv, ItemOf, Passed, Gated
<1> QED
  BY <1>1, InvInit, InvNext, MentionInit, MentionNext, GateInit, GateNext, PTL DEF Spec

=============================================================================
