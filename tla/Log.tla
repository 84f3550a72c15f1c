-------------------------------- MODULE Log ---------------------------------
(***************************************************************************)
(* The log (log/*.c).  Messages are kept in memory up to a size limit, and  *)
(* every backend is sent the messages it has not had.  Before log_init      *)
(* there is no backend and messages only collect; log_init opens the        *)
(* backends of the configuration and itself logs while it does so.          *)
(*                                                                          *)
(* A backend is named by its place in the configuration (0 is the default   *)
(* stdio backend).  room[b] is the number of calls to the firmware that     *)
(* will still succeed for b; the environment changes it at any time, so a   *)
(* backend fails and recovers between two messages and in the middle of one. *)
(***************************************************************************)
EXTENDS Integers, Sequences, SequencesExt, FiniteSetsExt

CONSTANTS
    Situations,    \* the configurations of the log subtree
    Messages,      \* what the program logs: records of level, tag, size, chunks (the
                   \* pieces it is converted in) and good (the pieces before text
                   \* that cannot be converted; chunks if all of it can be)
    LevelWords,    \* log_level_from_str: the words it knows, with their level
    DefaultLimit,  \* the initial log_size_limit
    MaxPrints,     \* bound on the messages logged
    MaxRoom,       \* bound on room
    MaxChanges     \* bound on the changes of room

ASSUME LogAssumption ==
    /\ DefaultLimit \in Nat /\ MaxPrints \in Nat /\ MaxRoom \in Nat
    /\ MaxChanges \in Nat
    /\ \A m \in Messages : m.level \in 0..3 /\ m.size \in Nat \ {0}
                           /\ m.chunks \in Nat \ {0} /\ m.good \in 0..m.chunks

ASSUME SituationAssumption ==
    \A s \in DOMAIN Situations :
        LET c == Situations[s]
        IN  c.backends \in Seq(ToSet(c.backends)) /\ c.limit.value \in Int

VARIABLES
    sit,   \* the configuration in force
    pc,    \* "early" before log_init, "backends" inside it, "ready"
    next,  \* the next entry of log.backends
    log,   \* the state of log/store.c, and what the backends have been sent
    changes

logVars == <<sit, pc, next, log, changes>>

cf == Situations[sit]
Warning == [level |-> 2, tag |-> "log", size |-> 1, chunks |-> 1, good |-> 1]
Info == [level |-> 1, tag |-> "log", size |-> 1, chunks |-> 1, good |-> 1]
Known == 0..Len(cf.backends)
\* The default backend has no configuration.
Default == [type |-> "stdio", min |-> "", max |-> "", excludes |-> {},
            path |-> TRUE, encode |-> "utf8", output |-> ""]
Entry(b) == IF b = 0 THEN Default ELSE cf.backends[b]

(* log.items holds the retained messages, numbered, oldest first; flushed   *)
(* the numbers of those with log_flushed set, to[b] of those with b in their *)
(* flushed_backends.  acked[b] lists the numbers whose write to b returned 0, *)
(* sent[b] what really went out: the number and whether all of it did.      *)
LogInit ==
    /\ sit \in DOMAIN Situations /\ pc = "early" /\ next = 1 /\ changes = 0
    /\ log = [items |-> <<>>, flushed |-> {}, to |-> [b \in Known |-> {}],
              size |-> 0, limit |-> DefaultLimit, backends |-> <<>>, count |-> 0,
              room |-> [b \in Known |-> MaxRoom],
              acked |-> [b \in Known |-> <<>>],
              sent |-> [b \in Known |-> <<>>]]

TotalSize(items) ==
    LET sum[k \in 0..Len(items)] == IF k = 0 THEN 0 ELSE sum[k - 1] + items[k].size
    IN  sum[Len(items)]

-----------------------------------------------------------------------------
\* confignode_path_get_log_level
Level(word, default) ==
    IF word \in DOMAIN LevelWords THEN LevelWords[word] ELSE default

\* log_check_filter: the levels, then the patterns that exclude a message.
CheckFilter(m, e) ==
    /\ e.min # "" => Level(e.min, 0) <= m.level
    /\ e.max # "" => Level(e.max, 3) >= m.level
    /\ m.tag \notin e.excludes

\* log_file_writer converts and writes a long message in pieces, then flushes.
Pieces(m, e) == IF e.encode = "utf16" THEN m.chunks ELSE 1
Calls(m, e) == Pieces(m, e) + (IF e.type = "file" THEN 1 ELSE 0)
\* encode_convert fails for a piece of the message, now and whenever it is tried.
Converts(m, e) == e.encode = "utf16" => m.good >= m.chunks
\* The calls that a write makes as long as none of them fails
Reach(m, e) == IF Converts(m, e) THEN Calls(m, e) ELSE m.good
\* log_stdio_writer does not know the output.
NoOutput(e) == e.type = "stdio" /\ e.output \notin {"", "stdout", "stderr"}

\* log_backend_write (log_file_writer, log_stdio_writer): the new state, and
\* whether 0 is returned.
BackendWrite(L, b, x) ==
    LET e == Entry(b)
        calls == Min({Reach(x, e), L.room[b]})
        whole == calls >= Pieces(x, e)
    IN  IF ~CheckFilter(x, e) THEN [to |-> L, ok |-> TRUE]
        ELSE IF NoOutput(e) THEN [to |-> L, ok |-> FALSE]
        ELSE [to |-> [L EXCEPT !.room[b] = @ - calls,
                               !.sent[b] = IF calls = 0 THEN @
                                           ELSE Append(@, [id |-> x.id, whole |-> whole])],
              ok |-> calls = Calls(x, e)]

\* Mutant: a message stays marked when the write fails.
MarkStays(L, b, x) ==
    LET w == BackendWrite(L, b, x)
    IN  IF x.id \in L.to[b] THEN [to |-> L, ok |-> TRUE]
        ELSE [to |-> [w.to EXCEPT !.to[b] = @ \cup {x.id},
                                  !.acked[b] = IF w.ok THEN Append(@, x.id) ELSE @],
              ok |-> w.ok]

\* Mutant: the mark of an earlier delivery is not looked at.
WriteAgain(L, b, x) ==
    LET w == BackendWrite(L, b, x)
    IN  [to |-> IF ~w.ok THEN w.to
                ELSE [w.to EXCEPT !.to[b] = @ \cup {x.id}, !.acked[b] = Append(@, x.id)],
         ok |-> w.ok]

\* log_item_write_to, not forced.  The mark made before the write is taken
\* back when the write fails.
ItemWriteTo(L, b, x) ==
    LET w == BackendWrite(L, b, x)
    IN  IF x.id \in L.to[b] THEN [to |-> L, ok |-> TRUE]
        ELSE [to |-> IF ~w.ok THEN w.to
                     ELSE [w.to EXCEPT !.to[b] = @ \cup {x.id}, !.acked[b] = Append(@, x.id)],
              ok |-> w.ok]

Ids(items) == {items[k].id : k \in DOMAIN items}

\* log_item_is_fully_flushed
FullyFlushed(L, id) ==
    L.backends # <<>> /\ \A b \in ToSet(L.backends) : id \in L.to[b]

\* The flags of some of the messages are computed again.
Recompute(L, ids) ==
    [L EXCEPT !.flushed = (@ \ ids) \cup {id \in ids : FullyFlushed(L, id)}]

\* The messages to one backend, up to the first failure.
Send(L, b, items) ==
    LET at[k \in 0..Len(items)] ==
            IF k = 0 THEN [to |-> L, ok |-> TRUE]
            ELSE LET p == at[k - 1] IN IF p.ok THEN ItemWriteTo(p.to, b, items[k]) ELSE p
    IN  at[Len(items)].to

\* Where log_flush_fast starts: after the last message with log_flushed.
UnflushedSuffix(L) ==
    SubSeq(L.items, 1 + Max({0} \cup {k \in DOMAIN L.items : L.items[k].id \in L.flushed}),
           Len(L.items))

\* Mutant: the backends after one that fails wait for the next message.
FailureStopsAll(L) ==
    LET new == UnflushedSuffix(L)
        served(l, b) == Ids(new) \subseteq l.to[b]
        send(l, b) ==
            IF \A c \in ToSet(L.backends) : l.sent[c] # L.sent[c] => served(l, c)
            THEN Send(l, b, new) ELSE l
    IN  Recompute(FoldLeft(send, L, L.backends), Ids(new))

\* Some messages to every backend, each up to its own first failure
SendAll(L, items) ==
    LET at[k \in 0..Len(L.backends)] ==
            IF k = 0 THEN L ELSE Send(at[k - 1], L.backends[k], items)
    IN  at[Len(L.backends)]

\* log_flush_fast
FlushFast(L) ==
    LET new == UnflushedSuffix(L) IN Recompute(SendAll(L, new), Ids(new))

-----------------------------------------------------------------------------
\* log_size_limit_check: the oldest messages go until the rest fits.
SizeLimitCheck(L) ==
    LET keep == {k \in 1..(Len(L.items) + 1) :
                   L.size - TotalSize(SubSeq(L.items, 1, k - 1)) <= L.limit
                   \/ k = Len(L.items) + 1}
        first == Min(keep)
    IN  [L EXCEPT !.items = SubSeq(@, first, Len(@)),
                  !.size = @ - TotalSize(SubSeq(L.items, 1, first - 1))]

\* log_base_print: log_append, which refuses a message as large as the limit,
\* then log_flush_fast.
Submit(L, m) ==
    LET room == SizeLimitCheck(L)
        item == [id |-> L.count + 1, level |-> m.level, tag |-> m.tag,
                 size |-> m.size, chunks |-> m.chunks, good |-> m.good]
    IN  IF m.size >= L.limit THEN [room EXCEPT !.count = @ + 1]
        ELSE FlushFast(SizeLimitCheck([room EXCEPT !.items = Append(@, item),
                                                   !.size = @ + m.size,
                                                   !.count = @ + 1]))

\* log_item_invalidate_flush_state
InvalidateFlushState(L) == [L EXCEPT !.flushed = {}]

\* log_flush_one_to, and log_flush_to, not forced: the size is counted again, every
\* message is offered and its flag recomputed, up to and including the first failure.
FlushOneTo(L, b, x) ==
    LET w == ItemWriteTo(L, b, x) IN [to |-> Recompute(w.to, {x.id}), ok |-> w.ok]

FlushTo(L, b) ==
    LET at[k \in 0..Len(L.items)] ==
            IF k = 0 THEN [to |-> [L EXCEPT !.size = TotalSize(L.items)], ok |-> TRUE]
            ELSE LET p == at[k - 1] IN IF p.ok THEN FlushOneTo(p.to, b, L.items[k]) ELSE p
    IN  at[Len(L.items)].to

\* log_item_forget_backend, called by log_backend_destroy.
ForgetBackend(L, b) ==
    Recompute([L EXCEPT !.backends = RemoveFirst(@, b), !.to[b] = {}],
              Ids(L.items))

\* log_file_init: TRUE when the file is open and positioned.  opens is the
\* outcome of efi_open and of what prepares the file.
FileInit(e, opens) == cf.dir /\ e.path /\ e.encode # "bad" /\ opens
BackendInit(e, opens) == e.type = "file" => FileInit(e, opens)

\* log_backend_create
BackendCreate(L, b, opens) ==
    IF ~BackendInit(Entry(b), opens) THEN ForgetBackend(Submit(L, Warning), b)
    ELSE Submit(FlushTo(InvalidateFlushState([L EXCEPT !.backends = Append(@, b)]), b), Info)

\* log_backend_create_from: the entry is a map that names a type it knows.
Recognised(e) == e.type \in {"stdio", "file"}

\* log_backends_init: one entry.  A failure is logged.
CreateFrom(L, b, opens) ==
    LET e == Entry(b)
    IN  IF ~Recognised(e) THEN Submit(L, Warning)
        ELSE IF BackendInit(e, opens) THEN BackendCreate(L, b, opens)
        ELSE Submit(BackendCreate(L, b, opens), Warning)

-----------------------------------------------------------------------------
\* The program logs a message.
BasePrint ==
    /\ pc \in {"early", "ready"} /\ log.count < MaxPrints
    /\ \E m \in Messages : log' = Submit(log, m)
    /\ UNCHANGED <<sit, pc, next, changes>>

\* log_init, first step: the default backend.
InitDefaults ==
    /\ pc = "early" /\ pc' = "backends"
    /\ log' = IF cf.defaults THEN BackendCreate(log, 0, TRUE) ELSE log
    /\ UNCHANGED <<sit, next, changes>>

\* log_init, log_backends_init: the next entry of log.backends.
InitBackend ==
    /\ pc = "backends" /\ next <= Len(cf.backends) /\ next' = next + 1
    /\ \E opens \in BOOLEAN : log' = CreateFrom(log, next, opens)
    /\ UNCHANGED <<sit, pc, changes>>

\* log.size-limit: a value that is not a size is reported.
SetLimit(L) ==
    IF ~cf.limit.ok THEN L
    ELSE IF cf.limit.value >= 0 THEN [L EXCEPT !.limit = cf.limit.value]
    ELSE Submit(L, Warning)

\* log_init, the rest: the size limit.
InitLimit ==
    /\ pc = "backends" /\ next > Len(cf.backends) /\ pc' = "ready"
    /\ log' = Submit(SetLimit(log), Info)
    /\ UNCHANGED <<sit, next, changes>>

\* The environment: a backend fails or recovers.
RoomChanges ==
    /\ changes < MaxChanges /\ changes' = changes + 1
    /\ \E b \in ToSet(log.backends), r \in 0..MaxRoom : log' = [log EXCEPT !.room[b] = r]
    /\ UNCHANGED <<sit, pc, next>>

\* Nothing more is logged within the bounds.
LogDone == pc = "ready" /\ log.count >= MaxPrints /\ UNCHANGED logVars

LogNext == BasePrint \/ InitDefaults \/ InitBackend \/ InitLimit \/ RoomChanges \/ LogDone

LogSpec == LogInit /\ [][LogNext]_logVars

-----------------------------------------------------------------------------
\* Types; a message is marked only for backends that are on the list, so no
\* freed log_backend is ever compared with.
LogTypeOK ==
    /\ sit \in DOMAIN Situations /\ pc \in {"early", "backends", "ready"}
    /\ log.limit \in Nat
    /\ \A b \in Known : log.room[b] \in 0..MaxRoom
    /\ \A b \in Known \ ToSet(log.backends) : log.to[b] = {}

\* log_size_cur is the size of the retained messages, through evictions,
\* refused messages and recounts, and it never exceeds the limit between two
\* calls, also after log_init lowered the limit.
SizeBounded == log.size = TotalSize(log.items) /\ log.size <= log.limit

\* A retained message that a backend has not had is behind everything that
\* backend has had: log_flush_fast may start at the last flushed message and
\* no message is passed over.
NothingPassedOver ==
    \A b \in ToSet(log.backends), k \in DOMAIN log.items :
        log.items[k].id \notin log.to[b] =>
            \A n \in DOMAIN log.acked[b] : log.acked[b][n] < log.items[k].id

\* "a later retry preserves backend ordering" (log/backend.c): what goes out
\* to a backend is in the order of logging; a message accepted by a backend is
\* not sent to it again, and what comes after it shows that.
OrderKept ==
    \A b \in Known :
        /\ \A n \in 1..(Len(log.sent[b]) - 1) : log.sent[b][n].id <= log.sent[b][n + 1].id
        /\ \A n \in DOMAIN log.acked[b] :
              \A j \in 1..(n - 1) : log.acked[b][j] < log.acked[b][n]

\* A backend gets the messages in the order of logging, without repetition and
\* with none passed over, through failures and evictions (log_flush_fast).
SentInOrder == OrderKept /\ NothingPassedOver

\* A message went out whole to every backend that is said to have it, unless
\* its filter excludes it.
AckedMeansSent ==
    \A b \in ToSet(log.backends), k \in DOMAIN log.items :
        log.items[k].id \in log.to[b] /\ CheckFilter(log.items[k], Entry(b)) =>
            \E n \in DOMAIN log.sent[b] :
                log.sent[b][n] = [id |-> log.items[k].id, whole |-> TRUE]

\* The store tells the truth about itself: its size, and which messages went out
\* to whom (log_size_limit_check, log_item_write_to).
StoreTrue == LogTypeOK /\ SizeBounded /\ AckedMeansSent

\* The backend would take the message if no call failed.
Takes(m, e) == CheckFilter(m, e) => ~NoOutput(e) /\ Converts(m, e)

\* After every call whose message is retained, a backend that is not out of
\* order has had all retained messages, those from before log_init or from while
\* it failed included, up to the first one that it can never take.  (A message
\* that cannot be converted holds up those behind it until it is evicted.)
CaughtUp ==
    [][log'.count # log.count /\ log'.count \in Ids(log'.items) =>
         \A b \in ToSet(log'.backends), k \in DOMAIN log'.items :
             /\ log'.room[b] > 0
             /\ \A j \in 1..k : Takes(log'.items[j], Entry(b))
             => log'.items[k].id \in log'.to[b]]_logVars
=============================================================================
