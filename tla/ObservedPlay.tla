------------------------------ MODULE ObservedPlay ------------------------------
(***************************************************************************)
(* The observed-play import (observed_play/ and api/observed_play.py):     *)
(* battle logs are uploaded and archived, parsed to events, the cards the  *)
(* events mention are resolved, and the events become memory items.        *)
(*                                                                         *)
(* Several requests run at once, each in a session of its own under        *)
(* READ COMMITTED.  An action is one transaction's reads, or its commit:   *)
(* what a request read before may be gone when it commits.  Abort is an    *)
(* exception, a lost connection or a killed server in between.             *)
(*                                                                         *)
(* A log stands for its content, which the unique sha256_hash makes its    *)
(* name; it has one event, with one mention, for each name in Named, and   *)
(* none at all when parse_log fails on it, which it reports as no events.  *)
(***************************************************************************)
EXTENDS Integers, FiniteSets, TLC

CONSTANTS
    Content,      \* contents of log files
    Name,         \* normalized card names
    Named,        \* the names a content mentions, one event each
    Critical,     \* names mentioned in one of _CRITICAL_MENTION_ROLES
    Listed,       \* what the card catalogue makes of a name, no rule given
    Confidence,   \* confidence_score the parser gives a content
    Config,       \* ingestion configurations that are posted
    Default,      \* IngestionConfig()
    Request,      \* sessions that can be open at once
    MaxRequests   \* bound: requests posted

Status == {"resolved", "ambiguous", "unresolved", "ignored"}

ASSUME ObservedAssumption ==
    /\ Named \in [Content -> SUBSET Name]
    /\ \A c \in Content : IsFiniteSet(Named[c])
    /\ Critical \subseteq Name
    /\ Listed \in [Name -> Status \ {"ignored"}]
    /\ Confidence \in [Content -> Nat]
    /\ Config \subseteq [allow : BOOLEAN, force : BOOLEAN,
                         maxUnresolved : Nat, minConfidence : Nat]
    /\ Default \in Config
    /\ MaxRequests \in Nat

VARIABLES
    archive,   \* contents written below OBSERVED_PLAY_ROOT/archive
    log,       \* observed_play_logs
    gen,       \* events of a log: how often they were replaced, 0 if none
    mention,   \* observed_card_mentions: the status of each name, or none
    ver,       \* how often the mentions of a log were replaced
    items,     \* observed_play_memory_items of a log
    rules,     \* actions of the resolution rules of a name
    begun,     \* requests posted so far
    req        \* what each open session is doing

rows == <<log, gen, mention, ver, items>>
vars == <<archive, log, gen, mention, ver, items, rules, begun, req>>

NoLog     == [parse |-> "absent", memory |-> "not_ingested",
              mentions |-> 0, unresolved |-> 0]
NoMention == [n \in {} |-> "unresolved"]
NoRequest == [kind |-> "none", id |-> 0, pc |-> "idle", todo |-> {}, at |-> {},
              seen |-> NoMention, config |-> Default, gen |-> 0, ver |-> 0,
              gone |-> {}, found |-> NoMention, made |-> {}]

Init ==
    /\ archive = {}
    /\ log = [c \in Content |-> NoLog]
    /\ gen = [c \in Content |-> 0]
    /\ mention = [c \in Content |-> NoMention]
    /\ ver = [c \in Content |-> 0]
    /\ items = [c \in Content |-> {}]
    /\ rules = [n \in Name |-> {}]
    /\ begun = 0
    /\ req = [r \in Request |-> NoRequest]

----------------------------------------------------------------------------
(* Requests.  A request works through the logs of todo, one for the single *)
(* endpoints; seen are the log rows it has loaded, which the identity map  *)
(* of the session keeps serving (expire_on_commit=False): an ingestion     *)
(* loads them when it begins, a resolution loads the one it works on.      *)

Stored == {c \in Content : log[c].parse # "absent"}

Open(r, kind, first, todo, config) ==
    /\ req[r] = NoRequest
    /\ begun < MaxRequests
    /\ begun' = begun + 1
    /\ req' = [req EXCEPT ![r] =
                [NoRequest EXCEPT !.kind = kind, !.id = begun + 1, !.pc = first,
                                  !.todo = todo, !.config = config,
                                  !.seen = [c \in IF kind = "ingest" THEN todo ELSE {}
                                            |-> log[c]]]]
    /\ UNCHANGED <<archive, rows, rules>>

\* Request r goes on with content c of its todo.
Takes(r, kind, c) ==
    /\ req[r].kind = kind
    /\ req[r].pc = "next"
    /\ c \in req[r].todo

\* r between two logs; a request that has none left is answered.
Between(r) ==
    [req EXCEPT ![r] =
        IF @.todo = {} /\ @.kind # "upload" THEN NoRequest
        ELSE [@ EXCEPT !.pc = "next", !.at = {}, !.gen = 0, !.ver = 0,
                       !.seen = IF req[r].kind = "ingest" THEN req[r].seen
                                ELSE NoMention,
                       !.gone = {}, !.found = NoMention]]

\* r ends, its transaction rolled back.  A bulk request ends with it: the
\* rollback expires every loaded log, and the next one's str(log.id) raises.
RolledBack(r) == req' = [req EXCEPT ![r] = NoRequest]

Abort(r) ==
    /\ req[r] # NoRequest
    /\ RolledBack(r)
    /\ UNCHANGED <<archive, rows, rules, begun>>

\* Someone else has deleted the events of c and not committed: an insert of
\* a row that references one of them waits.
EventsLocked(r, c) ==
    \E q \in Request \ {r} :
        req[q].pc = "rewrite" /\ req[q].at = {c} /\ req[q].gen = gen[c]

----------------------------------------------------------------------------
(* Resolution.  A rule decides a name before the catalogue does; where two *)
(* contradict each other the one read last wins, in no given order.        *)

Findings(n) == IF rules[n] = {} THEN {Listed[n]} ELSE rules[n]

Resolutions(c) == {f \in [Named[c] -> Status] : \A n \in Named[c] : f[n] \in Findings(n)}

Unresolved(f) == {n \in DOMAIN f : f[n] = "unresolved"}

\* Mutants of the counters: added to what is there, or of the critical only.
CountedOn(row, f) ==
    [row EXCEPT !.mentions = @ + Cardinality(DOMAIN f),
                !.unresolved = @ + Cardinality(Unresolved(f))]

CountedCritical(row, f) ==
    [row EXCEPT !.mentions = Cardinality(DOMAIN f),
                !.unresolved = Cardinality(Unresolved(f) \cap Critical)]

\* The counters extract_and_resolve_mentions_for_log writes to the log.
Counted(row, f) ==
    [row EXCEPT !.mentions = Cardinality(DOMAIN f),
                !.unresolved = Cardinality(Unresolved(f))]

AskRule(r) ==
    \E n \in Name, action \in {"resolved", "ignored"} :
        /\ rules[n] = {}
        /\ req[r] = NoRequest
        /\ begun < MaxRequests
        /\ begun' = begun + 1
        /\ req' = [req EXCEPT ![r] =
                    [NoRequest EXCEPT !.kind = "rule", !.id = begun + 1, !.pc = "save",
                                      !.at = {n}, !.made = {action}]]
        /\ UNCHANGED <<archive, rows, rules>>

SaveRule(r) ==
    /\ req[r].pc = "save"
    /\ \E n \in req[r].at : rules' = [rules EXCEPT ![n] = @ \cup req[r].made]
    /\ req' = [req EXCEPT ![r] = NoRequest]
    /\ UNCHANGED <<archive, rows, begun>>

AskResolve(r) == \E c \in Stored : Open(r, "resolve", "next", {c}, Default)

\* The log row is loaded, by a reparse with the refresh after its commit.
LoadLog(r, c) ==
    /\ \/ Takes(r, "resolve", c)
       \/ req[r].pc = "refresh" /\ req[r].at = {c}
    /\ req' = [req EXCEPT ![r] =
                [@ EXCEPT !.pc = "delete", !.at = {c}, !.todo = req[r].todo \ {c},
                          !.seen = [d \in {c} |-> log[d]]]]
    /\ UNCHANGED <<archive, rows, rules, begun>>

\* The mentions of the log are deleted, those that have been committed.
DeleteMentions(r, c) ==
    /\ req[r].pc = "delete"
    /\ req[r].at = {c}
    /\ req' = [req EXCEPT ![r] = [@ EXCEPT !.pc = "read", !.ver = ver[c]]]
    /\ UNCHANGED <<archive, rows, rules, begun>>

\* Its events are read, then the rules.  Events replaced between the two
\* make the commit fail, so that one step for both shows the same.
ReadMentions(r, c) ==
    /\ req[r].pc = "read"
    /\ req[r].at = {c}
    /\ \E f \in Resolutions(c) :
        req' = [req EXCEPT ![r] =
                 [@ EXCEPT !.pc = "store", !.gen = gen[c], !.found = f]]
    /\ UNCHANGED <<archive, rows, rules, begun>>

\* The UPDATE: a counter that is what the loaded row says is left out of it.
Written(row, seen, f) ==
    LET new == Counted(row, f)
    IN  [new EXCEPT
            !.mentions = IF @ = seen.mentions THEN row.mentions ELSE @,
            !.unresolved = IF @ = seen.unresolved THEN row.unresolved ELSE @]

\* Mutant: mentions are overwritten, whoever stored them.
StoreMentionsBlind(r, c) ==
    /\ req[r].pc = "store"
    /\ req[r].at = {c}
    /\ ~EventsLocked(r, c)
    /\ mention' = [mention EXCEPT ![c] = req[r].found]
    /\ ver' = [ver EXCEPT ![c] = @ + 1]
    /\ log' = [log EXCEPT ![c] = Written(@, req[r].seen[c], req[r].found)]
    /\ req' = Between(r)
    /\ UNCHANGED <<archive, gen, items, rules, begun>>

\* The mentions to insert find the events they reference and clash, by the
\* unique (event, mention_index), with none committed since the DELETE.
Insertable(r, c) ==
    \/ Named[c] = {}
    \/ /\ gen[c] = req[r].gen
       /\ ver[c] = req[r].ver \/ mention[c] = NoMention

\* The commit.
StoreMentions(r, c) ==
    /\ req[r].pc = "store"
    /\ req[r].at = {c}
    /\ ~EventsLocked(r, c)
    /\ IF Insertable(r, c)
       THEN /\ mention' = [mention EXCEPT ![c] = req[r].found]
            /\ ver' = [ver EXCEPT ![c] = @ + 1]
            /\ log' = [log EXCEPT ![c] = Written(@, req[r].seen[c], req[r].found)]
            /\ req' = Between(r)
            /\ UNCHANGED <<gen, items>>
       ELSE RolledBack(r) /\ UNCHANGED rows
    /\ UNCHANGED <<archive, rules, begun>>

----------------------------------------------------------------------------
(* Upload.  The files of one upload, a zip's entries or a single log, are  *)
(* one transaction; the archive on disk is not part of it.                 *)

AskUpload(r) ==
    \E files \in SUBSET Content \ {{}} : Open(r, "upload", "next", files, Default)

\* Mutant: the failed write is logged and the row inserted.
ArchiveFileUnchecked(r, c) ==
    /\ Takes(r, "upload", c)
    /\ c \notin Stored
    /\ archive' \in {archive, archive \cup {c}}
    /\ req' = [req EXCEPT ![r] =
                [@ EXCEPT !.pc = "insert", !.at = {c}, !.todo = req[r].todo \ {c}]]
    /\ UNCHANGED <<rows, rules, begun>>

\* A known hash is a duplicate, and a failed write to the archive loses the
\* file; neither stops the upload.
ArchiveFile(r, c) ==
    /\ Takes(r, "upload", c)
    /\ \/ /\ c \notin Stored
          /\ archive' = archive \cup {c}
          /\ req' = [req EXCEPT ![r] =
                      [@ EXCEPT !.pc = "insert", !.at = {c}, !.todo = req[r].todo \ {c}]]
       \/ /\ req' = [req EXCEPT ![r] = [@ EXCEPT !.todo = req[r].todo \ {c}]]
          /\ UNCHANGED archive
    /\ UNCHANGED <<rows, rules, begun>>

\* The flush waits for another's insert of the hash, and fails, with the
\* whole upload, when it was committed.  A resolution that raises is logged
\* and leaves no mentions.
InsertLog(r, c) ==
    /\ req[r].kind = "upload"
    /\ req[r].pc = "insert"
    /\ req[r].at = {c}
    /\ \A q \in Request \ {r} :
        req[q].kind = "upload" => \A pending \in req[q].made : pending[1] # c
    /\ IF c \in Stored
       THEN RolledBack(r)
       ELSE \E f \in Resolutions(c) \cup {NoMention} :
                req' = [Between(r) EXCEPT ![r].made = @ \cup {<<c, f>>}]
    /\ UNCHANGED <<archive, rows, rules, begun>>

CommitUpload(r) ==
    LET new  == {pending[1] : pending \in req[r].made}
        f(c) == (CHOOSE pending \in req[r].made : pending[1] = c)[2]
    IN  /\ req[r].kind = "upload"
        /\ req[r].pc = "next"
        /\ req[r].todo = {}
        /\ log' = [c \in Content |->
                    IF c \in new THEN Counted([NoLog EXCEPT !.parse = "parsed"], f(c))
                    ELSE log[c]]
        /\ gen' = [c \in Content |-> IF c \in new THEN 1 ELSE gen[c]]
        /\ mention' = [c \in Content |-> IF c \in new THEN f(c) ELSE mention[c]]
        /\ req' = [req EXCEPT ![r] = NoRequest]
        /\ UNCHANGED <<archive, ver, items, rules, begun>>

----------------------------------------------------------------------------
(* Reparse, of one log or of all: the events are replaced in one           *)
(* transaction and their mentions resolved in the next.                    *)

AskReparse(r) == \E c \in Stored : Open(r, "reparse", "next", {c}, Default)

AskReparseAll(r) ==
    \E includeIngested \in BOOLEAN :
        LET todo == {c \in Stored : includeIngested \/ log[c].memory # "ingested"}
        IN  todo # {} /\ Open(r, "reparse", "next", todo, Default)

DeleteEvents(r, c) ==
    /\ Takes(r, "reparse", c)
    /\ req' = [req EXCEPT ![r] =
                [@ EXCEPT !.pc = "rewrite", !.at = {c}, !.todo = req[r].todo \ {c},
                          !.gen = gen[c]]]
    /\ UNCHANGED <<archive, rows, rules, begun>>

\* Mutant: the items outlive their events.
CascadedNone(memory, g) == memory

\* What the ON DELETE CASCADE of an event leaves of the memory of its log.
Cascaded(memory, g) == {item \in memory : item.gen # g}

\* The commit.  Events another request has put there since clash with the
\* unique (log, event_index).
RewriteEvents(r, c) ==
    /\ req[r].pc = "rewrite"
    /\ req[r].at = {c}
    /\ IF gen[c] = req[r].gen \/ Named[c] = {}
       THEN /\ gen' = [gen EXCEPT ![c] = @ + 1]
            /\ mention' = [mention EXCEPT ![c] = NoMention]
            /\ ver' = [ver EXCEPT ![c] = @ + 1]
            /\ items' = [items EXCEPT ![c] = Cascaded(@, gen[c])]
            /\ req' = [req EXCEPT ![r].pc = "refresh"]
            /\ UNCHANGED log
       ELSE RolledBack(r) /\ UNCHANGED rows
    /\ UNCHANGED <<archive, rules, begun>>

\* A resolution that raises is logged, and the reparse goes on without it.
GiveUpMentions(r, c) ==
    /\ req[r].kind = "reparse"
    /\ req[r].pc = "store"
    /\ req[r].at = {c}
    /\ req' = Between(r)
    /\ UNCHANGED <<archive, rows, rules, begun>>

----------------------------------------------------------------------------
(* Ingestion, of one log with the posted configuration or of all with the  *)
(* default one.                                                            *)

AskIngest(r) ==
    \E c \in Stored, config \in Config : Open(r, "ingest", "next", {c}, config)

AskIngestEligible(r) ==
    \E includeIngested \in BOOLEAN :
        LET todo == {c \in Stored : includeIngested \/ log[c].memory # "ingested"}
        IN  todo # {} /\ Open(r, "ingest", "next", todo, Default)

\* evaluate_log_ingestion_eligibility: the counters are those of the row the
\* request loaded, the critical mentions are queried.
Confident(c, config) == Confidence[c] >= config.minConfidence

Resolved(row, f, config) ==
    \/ config.allow
    \/ /\ row.unresolved <= config.maxUnresolved
       /\ Unresolved(f) \cap Critical = {}

\* Mutant: force does without allow_unresolved.
EligibleForce(c, row, f, config) ==
    \/ config.force
    \/ /\ Confident(c, config)
       /\ Named[c] # {}
       /\ row.mentions > 0
       /\ Resolved(row, f, config)

Eligible(c, row, f, config) ==
    \/ config.force /\ config.allow
    \/ /\ Confident(c, config)
       /\ Named[c] # {}
       /\ row.mentions > 0
       /\ Resolved(row, f, config)

\* Mutant: the items are deleted first, and the refusal commits that.
JudgeLate(r, c) ==
    /\ Takes(r, "ingest", c)
    /\ IF Eligible(c, req[r].seen[c], mention[c], req[r].config)
       THEN /\ req' = [req EXCEPT ![r] =
                        [@ EXCEPT !.pc = "replace", !.at = {c}, !.todo = req[r].todo \ {c}]]
            /\ UNCHANGED items
       ELSE RolledBack(r) /\ items' = [items EXCEPT ![c] = {}]
    /\ UNCHANGED <<archive, log, gen, mention, ver, rules, begun>>

Judge(r, c) ==
    /\ Takes(r, "ingest", c)
    /\ IF Eligible(c, req[r].seen[c], mention[c], req[r].config)
       THEN req' = [req EXCEPT ![r] =
                     [@ EXCEPT !.pc = "replace", !.at = {c}, !.todo = req[r].todo \ {c}]]
       ELSE RolledBack(r)
    /\ UNCHANGED <<archive, rows, rules, begun>>

\* _card_fields_from_mention: what an item tells of the card.
CardFields(status, config) ==
    CASE status = "resolved"  -> "id"
      [] status = "ambiguous" -> "raw"
      [] status = "unresolved" /\ config.allow -> "raw"
      [] OTHER -> "none"

\* The item of each event; its mention is missing when none has been stored.
ItemsOf(c, f, r) ==
    {LET status == IF n \in DOMAIN f THEN f[n] ELSE "missing"
     IN  [ing |-> req[r].id, gen |-> gen[c], name |-> n, status |-> status,
          card |-> CardFields(status, req[r].config), config |-> req[r].config]
        : n \in Named[c]}

\* Mutant: only the items whose card is still unknown are replaced.
ReplaceUnknown(r, c) ==
    /\ req[r].pc = "replace"
    /\ req[r].at = {c}
    /\ req' = [req EXCEPT ![r] =
                [@ EXCEPT !.pc = "ingest", !.gen = gen[c],
                          !.gone = {item \in items[c] : item.card # "id"},
                          !.made = ItemsOf(c, mention[c], r)]]
    /\ UNCHANGED <<archive, rows, rules, begun>>

\* The items there are are deleted, the events and mentions read.
Replace(r, c) ==
    /\ req[r].pc = "replace"
    /\ req[r].at = {c}
    /\ req' = [req EXCEPT ![r] =
                [@ EXCEPT !.pc = "ingest", !.gen = gen[c], !.gone = items[c],
                          !.made = ItemsOf(c, mention[c], r)]]
    /\ UNCHANGED <<archive, rows, rules, begun>>

\* The commit.  Only the items that were there at the DELETE are gone, and
\* the new ones must find their events.
StoreItems(r, c) ==
    /\ req[r].pc = "ingest"
    /\ req[r].at = {c}
    /\ ~EventsLocked(r, c)
    /\ IF gen[c] = req[r].gen \/ Named[c] = {}
       THEN /\ items' = [items EXCEPT ![c] = (@ \ req[r].gone) \cup req[r].made]
            /\ log' = [log EXCEPT ![c].memory = "ingested"]
            /\ req' = [Between(r) EXCEPT ![r].made = {}]
            /\ UNCHANGED <<gen, mention, ver>>
       ELSE RolledBack(r) /\ UNCHANGED rows
    /\ UNCHANGED <<archive, rules, begun>>

----------------------------------------------------------------------------
Next ==
    \E r \in Request :
        \/ AskRule(r)
        \/ AskResolve(r)
        \/ AskUpload(r)
        \/ AskReparse(r)
        \/ AskReparseAll(r)
        \/ AskIngest(r)
        \/ AskIngestEligible(r)
        \/ SaveRule(r)
        \/ CommitUpload(r)
        \/ Abort(r)
        \/ \E c \in Content :
            \/ LoadLog(r, c)
            \/ DeleteMentions(r, c)
            \/ ReadMentions(r, c)
            \/ StoreMentions(r, c)
            \/ ArchiveFile(r, c)
            \/ InsertLog(r, c)
            \/ DeleteEvents(r, c)
            \/ RewriteEvents(r, c)
            \/ GiveUpMentions(r, c)
            \/ Judge(r, c)
            \/ Replace(r, c)
            \/ StoreItems(r, c)

Spec == Init /\ [][Next]_vars

----------------------------------------------------------------------------
\* TypeOK: the rows have the columns the schema gives them, counters count
\* the mentions of one extraction, and a rule is one of the two actions.
Item(c) == [ing : 1..MaxRequests, gen : Nat, name : Named[c],
            status : Status \cup {"missing"}, card : {"id", "raw", "none"},
            config : Config]

TypeOK ==
    /\ archive \subseteq Content
    /\ \A c \in Content :
        /\ log[c] \in [parse : {"absent", "parsed"},
                       memory : {"not_ingested", "ingested"},
                       mentions : 0..Cardinality(Named[c]),
                       unresolved : 0..Cardinality(Named[c])]
        /\ gen[c] \in Nat /\ ver[c] \in Nat
        /\ mention[c] \in [Named[c] -> Status] \cup {NoMention}
        /\ items[c] \subseteq Item(c)
    /\ rules \in [Name -> SUBSET {"resolved", "ignored"}]
    /\ begun \in 0..MaxRequests

\* ArchivedFirst: a log row never names a file that is not on disk, however
\* its upload and the others' ended.
ArchivedFirst == Stored \subseteq archive

\* ItemsHaveEvents: memory items and mentions are those of the events the
\* log has now; none survives a reparse, however late it commits.
ItemsHaveEvents ==
    \A c \in Content :
        /\ \A item \in items[c] : item.gen = gen[c]
        /\ gen[c] = 0 => mention[c] = NoMention

\* WholeIngestions: memory holds all the items of an ingestion or none; a
\* concurrent one, a reparse or a rollback leaves no part of it.
WholeIngestions ==
    \A c \in Content : \A item \in items[c] : \A n \in Named[c] :
        \E other \in items[c] : other.name = n /\ other.ing = item.ing

\* Gated: what the row loaded, the query of the critical mentions and the
\* reading of the mentions say at three different times adds up: without
\* force and allow_unresolved together no log below min_confidence is in
\* memory, a card no one resolved is named only under allow_unresolved, and
\* its event is in memory only where max_unresolved lets it pass.
Gated ==
    \A c \in Content : \A item \in items[c] :
        /\ (item.config.force /\ item.config.allow) \/ Confident(c, item.config)
        /\ item.status = "unresolved" =>
            item.config.allow \/ (item.config.maxUnresolved > 0 /\ item.card = "none")

\* CountersCover: the counters eligibility goes by never understate what the
\* mentions there are leave unresolved, although a resolution loads the row,
\* deletes the mentions and reads the rules at three times, and its UPDATE
\* leaves out the counters that are what the loaded row says.
CountersCover ==
    \A c \in Content : mention[c] # NoMention =>
        /\ log[c].mentions = Cardinality(Named[c])
        /\ log[c].unresolved >= Cardinality(Unresolved(mention[c]))

\* CountersAgree: the counter is the number of the mentions left unresolved.
\* It is not what the code keeps to, and no run checks it: when a rule is
\* saved between two resolutions that both loaded the row of a log without
\* mentions, the count of the first stays beside the mentions of the second.
CountersAgree ==
    \A c \in Content : mention[c] # NoMention =>
        log[c].unresolved = Cardinality(Unresolved(mention[c]))

\* MemoryKept: unless its events are replaced, a log loses items only to the
\* whole of a new ingestion; a refused, failed or broken one leaves them.
MemoryKept ==
    [][\A c \in Content :
        gen'[c] = gen[c] /\ ~(items[c] \subseteq items'[c]) =>
            items'[c] \ items[c] # {}]_vars

\* ResolutionKept: rules are only added, so a card once resolved is never
\* unresolved again, although a request resolves by the rules it read before.
ResolutionKept ==
    [][\A c \in Content : \A n \in DOMAIN mention[c] \cap DOMAIN mention'[c] :
        mention[c][n] # "unresolved" => mention'[c][n] # "unresolved"]_vars

\* ReparseKeepsMemory: what reparse_all_logs says of itself, that replacing
\* the events of a log leaves its memory items as they are.
ReparseKeepsMemory ==
    [][\A c \in Content :
        gen[c] # 0 /\ gen'[c] # gen[c] => items'[c] = items[c]]_vars

=============================================================================
