---------------------------- MODULE Replication ----------------------------
(* A client's copy of a volume's tree.  The server appends every change of the
   tree to a bounded log, in the transaction that makes it (metastore/sqlite
   log.go and internal/changes).  A change stream reads the log and sends what
   it holds (httprest publish.go, subscribe.go).  The client builds its copy
   from a picture of the tree taken after it subscribed, replays the stream up
   to a checkpoint, and then follows (storage/replicated build.go, follow.go;
   metastore/sqlite replica.go).  A mutation sent through the client returns
   once the copy has reached the log position the server answered with.

   One directory is modelled.  A node is its identity and a version that
   stands for every attribute.                                              *)
EXTENDS Integers, Sequences, FiniteSets

CONSTANTS Names,        \* names in the directory
          Callers,      \* callers that change the volume through this client
          Floor,        \* changes.Window.Floor
          Buffer,       \* frames the connection holds before a write blocks
          MaxActive,    \* Options.MaxActiveConfirmations
          MaxWaiting,   \* Options.MaxWaitingConfirmations
          MaxPosition,  \* bound: log positions handed out
          MaxLogs,      \* bound: incarnations of the log
          Settings      \* by name, what a behaviour may be set up with

\* A setting: the names and callers that take part, the names that hold a file
\* when the log is empty, the operations and faults that happen, the cap of the
\* changes.Window, the changes one read of the log asks for, and the bounds on
\* positions, incarnations and injected failures.
ValidSetting(c) ==
  /\ c.existing \subseteq c.names /\ c.names \subseteq Names /\ c.callers \subseteq Callers
  /\ c.cap \in Nat /\ Floor <= c.cap /\ c.page \in Nat \ {0}
  /\ c.positions \in 0 .. MaxPosition /\ c.logs \in 1 .. MaxLogs /\ c.faults \in Nat

ASSUME Bounds == /\ {Floor, Buffer, MaxActive, MaxLogs} \subseteq Nat \ {0}
                 /\ {MaxWaiting, MaxPosition} \subseteq Nat
                 /\ \A c \in DOMAIN Settings : ValidSetting(Settings[c])

Elsewhere == "elsewhere"    \* a writer that reaches the server by another way
Root == "/"                 \* the directory itself, which carries no name
Places == Names \cup {Root}
Mutators == Callers \cup {Elsewhere}
Logs == 1 .. MaxLogs
Positions == 0 .. MaxPosition

VARIABLES tree,     \* the volume: what each name holds
          log,      \* the changes table, oldest first
          head,     \* the logs row: incarnation, tail, trim anchor; and the id sequences
          past,     \* history: the tree after each record of each incarnation
          server,   \* whether the process serves
          feed,     \* the handler of this client's change stream
          line,     \* frames on their way to the client
          sub,      \* the client's Subscription
          picture,  \* the snapshot the server holds open for the client
          copy,     \* the Replica: the tree it holds and its position
          seeding,  \* the Replica's open reseed transaction
          follower, \* the goroutine that keeps the copy current
          store,    \* the replicated Storage: what its copy is worth
          caller,   \* mutations in progress
          confirmed, \* history: the furthest change a mutation returned success for
          course    \* the setting of this behaviour, and the failures so far

vars == <<tree, log, head, past, server, feed, line, sub, picture, copy, seeding, follower,
          store, caller, confirmed, course>>
volume == <<tree, log, head, past>>
stream == <<server, feed, line>>
client == <<sub, picture, copy, seeding, follower, store>>
others == <<caller, confirmed, course>>

Absent == [id |-> 0, ver |-> 0]
Nothing == [n \in Places |-> Absent]
Setting == Settings[course.setting]
Existing == Setting.existing

\* The tree of a volume whose log a migration has just emptied.
Ranked == CHOOSE r \in [Existing -> 2 .. Cardinality(Existing) + 1] :
            \A m, n \in Existing : m # n => r[m] # r[n]
First == [n \in Places |-> [id |-> IF n = Root THEN 1 ELSE IF n \in Existing THEN Ranked[n] ELSE 0,
                            ver |-> 0]]
Silent == [pc |-> "off", resume |-> FALSE, inc |-> 0, at |-> 0, page |-> <<>>, woken |-> FALSE]
NoSub == [inc |-> 0, at |-> 0, tail |-> 0]
NoPicture == [open |-> FALSE, tree |-> Nothing]
NoSeeding == [open |-> FALSE, inc |-> 0, at |-> 0, left |-> {}, tree |-> Nothing]
Resting == [pc |-> "idle", inc |-> 0, at |-> 0, gen |-> 0, own |-> 0]

Smaller(a, b) == IF a < b THEN a ELSE b
Larger(a, b) == IF a > b THEN a ELSE b
Spent == course' = [course EXCEPT !.faults = @ + 1] /\ course.faults < Setting.faults

Node == [id : Nat, ver : Nat]
Trees == [Places -> Node]

Init == /\ course \in [setting : DOMAIN Settings, faults : {0}]
        /\ tree = First
        /\ log = <<>>
        /\ head = [inc |-> 1, tail |-> 0, trimmed |-> 0, high |-> 0,
                   ids |-> Cardinality(Existing) + 1]
        /\ past = [i \in Logs |-> [p \in Positions |->
                     [tree |-> IF i = 1 /\ p = 0 THEN First ELSE Nothing, whole |-> TRUE]]]
        /\ server = "up"
        /\ feed = Silent
        /\ line = <<>>
        /\ sub = NoSub
        /\ picture = NoPicture
        /\ copy = [at |-> 0, inc |-> 0, tree |-> Nothing]
        /\ seeding = NoSeeding
        /\ follower = [pc |-> "subscribe", mounted |-> FALSE, target |-> 0]
        /\ store = [inc |-> 0, gen |-> 0, failed |-> TRUE, at |-> 0, behind |-> 0,
                    closing |-> FALSE, released |-> FALSE, active |-> 0, waiters |-> 0]
        /\ caller = [c \in Mutators |-> Resting]
        /\ confirmed = [i \in Logs |-> 0]
------------------------------------------------------------------------------
(* The log.  An edit is the sequence of stages of one transaction; every stage
   is recorded at a position of its own, with what the name then holds.      *)

Stage(after, kind, name, from) ==
  [after |-> after, kind |-> kind, name |-> name, from |-> from,
   node |-> IF kind = "removed" THEN Absent ELSE after[name]]

Touched(t) == [t EXCEPT ![Root].ver = @ + 1]
Touch(t) == Stage(Touched(t), "modified", Root, Root)
Removal(t, n) == Stage([t EXCEPT ![n] = Absent], "removed", n, n)
Creation(t, n) == Stage([t EXCEPT ![n] = [id |-> head.ids + 1, ver |-> 0]], "created", n, n)
Move(t, a, b) == Stage([t EXCEPT ![a] = Absent, ![b] = [t[a] EXCEPT !.ver = @ + 1]],
                       "renamed", b, a)

CreateEdit(n) == LET made == Creation(tree, n) IN <<made, Touch(made.after)>>
ModifyEdit(n) == <<Stage([tree EXCEPT ![n].ver = @ + 1], "modified", n, n)>>
RemoveEdit(n) == LET gone == Removal(tree, n) IN <<gone, Touch(gone.after)>>
ReplaceEdit(n) == LET gone == Removal(tree, n)
                      made == Creation(gone.after, n)
                  IN <<gone, made, Touch(made.after)>>
RenameEdit(a, b) ==
  LET gone == Removal(tree, b)
      moved == Move(IF tree[b] = Absent THEN tree ELSE gone.after, a, b)
  IN (IF tree[b] = Absent THEN <<>> ELSE <<gone>>) \o <<moved, Touch(moved.after)>>

Held == {n \in Names : tree[n] # Absent}
Edits ==
  UNION {IF "create" \in Setting.offered THEN {CreateEdit(n) : n \in Setting.names \ Held} ELSE {},
         IF "modify" \in Setting.offered THEN {ModifyEdit(n) : n \in Held} ELSE {},
         IF "remove" \in Setting.offered THEN {RemoveEdit(n) : n \in Held} ELSE {},
         IF "replace" \in Setting.offered THEN {ReplaceEdit(n) : n \in Held} ELSE {},
         IF "rename" \in Setting.offered
           THEN {RenameEdit(e[1], e[2]) : e \in {x \in Held \X Setting.names : x[1] # x[2]}} ELSE {}}

Recorded(edit) ==
  [i \in 1 .. Len(edit) |->
     [pos |-> head.high + i,
      prev |-> IF i = 1 THEN head.tail ELSE head.high + i - 1,
      kind |-> edit[i].kind, name |-> edit[i].name, from |-> edit[i].from,
      node |-> edit[i].node]]

NthOldest(entries, n) == IF n <= 0 THEN 0 ELSE entries[n].pos

ByAge(entries, aged) == Smaller(aged, NthOldest(entries, Len(entries) - Floor))
Cut(entries, aged) == Larger(NthOldest(entries, Len(entries) - Setting.cap), ByAge(entries, aged))
\* Mutant: trimming does not record how far it went.
AnchorKept(cut) == head.trimmed

TrimAnchor(cut) == IF cut = 0 THEN head.trimmed ELSE cut
Kept(entries, cut) == SelectSeq(entries, LAMBDA c : c.pos > cut)
\* The newest entry older than the window's age, as the clock then says.
Ages(entries) == IF "age" \in Setting.offered THEN {0} \cup {entries[i].pos : i \in 1 .. Len(entries)}
                                      ELSE {0}

Committed(edit) ==
  LET entries == log \o Recorded(edit)
      last == head.high + Len(edit)
  IN /\ last <= Setting.positions
     /\ \E aged \in Ages(entries) :
          LET cut == Cut(entries, aged) IN
          /\ log' = Kept(entries, cut)
          /\ head' = [head EXCEPT !.tail = last, !.high = last, !.trimmed = TrimAnchor(cut),
                                  !.ids = @ + Cardinality({i \in 1 .. Len(edit) : edit[i].kind = "created"})]
     /\ tree' = edit[Len(edit)].after
     /\ past' = [past EXCEPT ![head.inc] =
                   [p \in Positions |->
                      IF p \in head.high + 1 .. last
                      THEN [tree |-> edit[p - head.high].after, whole |-> p = last]
                      ELSE @[p]]]

\* Another volume of the database takes a position of the shared sequence.
Neighbour == /\ "neighbour" \in Setting.offered
             /\ head.high < Setting.positions
             /\ head' = [head EXCEPT !.high = @ + 1]
             /\ UNCHANGED <<tree, log, past, stream, client, others>>
------------------------------------------------------------------------------
(* The server's side of a change stream.                                     *)

Frame(kind) == [kind |-> kind]
Started(at) == [kind |-> "start", inc |-> head.inc, at |-> at, tail |-> head.tail]
\* Mutant: a write never waits for the reader.
Boundless == TRUE

Room == Len(line) < Buffer
Departing == server = "stopping"
Lapsed(at) == at < head.trimmed     \* rebuildFor

Attach == /\ feed.pc = "called"
          /\ feed' = [feed EXCEPT !.pc = "attached", !.woken = FALSE]
          /\ UNCHANGED <<volume, server, line, client, others>>

\* The first frame of the stream: where it starts, or that the copy must be built again.
StartOf == /\ feed.pc = "attached"
           /\ IF ~feed.resume
              THEN /\ feed' = [feed EXCEPT !.pc = "read", !.at = head.tail]
                   /\ line' = Append(line, Started(head.tail))
              ELSE IF feed.inc # head.inc \/ Lapsed(feed.at)
              THEN /\ feed' = Silent
                   /\ line' = Append(line, Frame("rebuild"))
              ELSE IF feed.at > head.tail
              THEN /\ feed' = Silent
                   /\ line' = Append(line, Frame("cut"))
              ELSE /\ feed' = [feed EXCEPT !.pc = "read"]
                   /\ line' = Append(line, Started(feed.at))
           /\ UNCHANGED <<volume, server, client, others>>

After(at) == SelectSeq(log, LAMBDA c : c.pos > at)
PageAfter(at) == SubSeq(After(at), 1, Smaller(Setting.page, Len(After(at))))

ReadPage == /\ feed.pc = "read"
            /\ ~Lapsed(feed.at)
            /\ feed' = [feed EXCEPT !.page = PageAfter(feed.at),
                                    !.pc = IF PageAfter(feed.at) = <<>> THEN "quiet" ELSE "send"]
            /\ UNCHANGED <<volume, server, line, client, others>>

\* The log held nothing more; the handler comes to wait for a wake or a stop.
Park == /\ feed.pc = "quiet"
        /\ feed' = [feed EXCEPT !.pc = "wait"]
        /\ UNCHANGED <<volume, server, line, client, others>>

FallOut == /\ feed.pc = "read"
           /\ Lapsed(feed.at)
           /\ Room
           /\ feed' = Silent
           /\ line' = Append(line, Frame("rebuild"))
           /\ UNCHANGED <<volume, server, client, others>>

\* Mutant: the position is not moved past what was sent.
SendUnmoved == /\ feed.pc = "send"
               /\ Room
               /\ line' = Append(line, [kind |-> "change", change |-> Head(feed.page)])
               /\ feed' = [feed EXCEPT !.page = Tail(@),
                                       !.pc = IF Len(feed.page) > 1 THEN "send" ELSE "read"]
               /\ UNCHANGED <<volume, server, client, others>>

Send == /\ feed.pc = "send"
        /\ Room
        /\ line' = Append(line, [kind |-> "change", change |-> Head(feed.page)])
        /\ feed' = [feed EXCEPT !.at = Head(feed.page).pos, !.page = Tail(@),
                                !.pc = IF Len(feed.page) > 1 THEN "send"
                                       ELSE IF Departing THEN "leave" ELSE "read"]
        /\ UNCHANGED <<volume, server, client, others>>

Wake == /\ feed.pc = "wait"
        /\ feed.woken
        /\ feed' = [feed EXCEPT !.pc = "read", !.woken = FALSE]
        /\ UNCHANGED <<volume, server, line, client, others>>

Leave == /\ \/ feed.pc = "leave"
            \/ feed.pc = "wait" /\ Departing
         /\ Room
         /\ line' = Append(line, Frame("gone"))
         /\ feed' = Silent
         /\ UNCHANGED <<volume, server, client, others>>

\* A write still blocked when the server departs is cut short.
Abort == /\ Departing
         /\ \/ feed.pc \in {"read", "send", "leave"} /\ ~Room
            \/ feed.pc \in {"called", "attached"}
         /\ line' = Append(line, Frame("cut"))
         /\ feed' = Silent
         /\ UNCHANGED <<volume, server, client, others>>

Streaming == Attach \/ StartOf \/ ReadPage \/ Park \/ FallOut \/ Send \/ Wake \/ Leave \/ Abort
------------------------------------------------------------------------------
(* The server process.                                                       *)

InServer(c) == caller[c].pc \in {"committed", "woke"}

Stop == /\ "stop" \in Setting.offered
        /\ server = "up"
        /\ Spent
        /\ server' = "stopping"
        /\ UNCHANGED <<volume, feed, line, client, caller, confirmed>>

Exit == /\ Departing
        /\ feed.pc = "off"
        /\ \A c \in Mutators : ~InServer(c)
        /\ server' = "down"
        /\ picture' = NoPicture
        /\ UNCHANGED <<volume, feed, line, sub, copy, seeding, follower, store, others>>

\* What the connection had not delivered is lost from some frame on.
Severed(frames) == {SubSeq(frames, 1, k) \o <<Frame("cut")>> : k \in 0 .. Len(frames)}
Connected == feed.pc # "off"

Crash == /\ "crash" \in Setting.offered
         /\ server # "down"
         /\ Spent
         /\ server' = "down"
         /\ feed' = Silent
         /\ line' \in IF Connected THEN Severed(line) ELSE {line}
         /\ picture' = NoPicture
         /\ caller' = [c \in Mutators |->
                         IF ~InServer(c) THEN caller[c]
                         ELSE IF c = Elsewhere THEN Resting
                         ELSE [caller[c] EXCEPT !.pc = "lost"]]
         /\ UNCHANGED <<volume, sub, copy, seeding, follower, store, confirmed>>

Drop == /\ "drop" \in Setting.offered
        /\ Connected
        /\ Spent
        /\ feed' = Silent
        /\ line' \in Severed(line)
        /\ UNCHANGED <<volume, server, client, caller, confirmed>>

\* Opening the store trims the log.
Reopen == /\ server = "down"
          /\ server' = "up"
          /\ \E aged \in Ages(log) :
               /\ log' = Kept(log, Cut(log, aged))
               /\ head' = [head EXCEPT !.trimmed = TrimAnchor(Cut(log, aged))]
          /\ UNCHANGED <<tree, past, feed, line, client, others>>

\* A migration of the schema discards the log and names a new one.
Migrate == /\ "migrate" \in Setting.offered
           /\ server = "down"
           /\ head.inc < Setting.logs
           /\ server' = "up"
           /\ log' = <<>>
           /\ head' = [head EXCEPT !.inc = @ + 1, !.tail = 0, !.trimmed = 0]
           /\ past' = [past EXCEPT ![head.inc + 1][0].tree = tree]
           /\ UNCHANGED <<tree, feed, line, client, others>>
------------------------------------------------------------------------------
(* The client: what the copy is worth.  These change the Storage under mu.   *)

Failed(s) == [s EXCEPT !.failed = TRUE, !.behind = 0]
Generation(s, inc) == IF s.inc # inc THEN s.gen + 1 ELSE s.gen
Installed(s, inc, at, target) == [s EXCEPT !.gen = Generation(s, inc), !.inc = inc, !.at = at,
                                           !.behind = target, !.failed = TRUE]
Seeded(s) == [s EXCEPT !.failed = FALSE, !.behind = 0]
\* Mutant: attached again is taken for current again.
ResumedAtOnce(s, inc, tail) == [s EXCEPT !.gen = Generation(s, inc), !.inc = inc,
                                         !.behind = 0, !.failed = FALSE]

Resumed(s, inc, tail) == [s EXCEPT !.gen = Generation(s, inc), !.inc = inc,
                                   !.behind = IF s.at >= tail THEN 0 ELSE tail,
                                   !.failed = s.at < tail]
Replayed(s, at) == [s EXCEPT !.at = at]
Applied(s, at) == LET done == s.behind # 0 /\ at >= s.behind IN
                  [s EXCEPT !.at = at, !.behind = IF done THEN 0 ELSE @,
                            !.failed = @ /\ ~done]

\* Replica.apply: whether the copy can take a change, and what it then holds.
Fits(t, c) == CASE c.kind = "created" -> t[c.name] = Absent
                [] c.kind = "modified" -> \E n \in Places : t[n].id = c.node.id
                [] c.kind = "removed" -> t[c.name] # Absent
                [] c.kind = "renamed" -> /\ t[c.from] # Absent
                                         /\ t[c.name] = Absent
                                         /\ \E n \in Places : t[n].id = c.node.id
Taken(t, c) ==
  CASE c.kind = "created" -> [t EXCEPT ![c.name] = c.node]
    [] c.kind = "modified" -> [n \in Places |-> IF t[n].id = c.node.id THEN c.node ELSE t[n]]
    [] c.kind = "removed" -> [t EXCEPT ![c.name] = Absent]
    [] c.kind = "renamed" -> [t EXCEPT ![c.from] = Absent, ![c.name] = c.node]

Apply(held, c) == IF c.pos <= held.at THEN held
                  ELSE [held EXCEPT !.at = c.pos, !.tree = Taken(held.tree, c)]

\* The attempt ends: the stream and the picture are released, the reseed is undone.
Release == /\ feed' = Silent
           /\ line' = <<>>
           /\ sub' = NoSub
           /\ picture' = NoPicture
           /\ seeding' = NoSeeding
GivesUp == /\ Release
           /\ store' = Failed(store)
           /\ follower' = [follower EXCEPT !.pc = IF follower.mounted THEN "pause" ELSE "failed",
                                           !.target = 0]
           /\ UNCHANGED <<volume, server, copy, caller, confirmed>>

\* What ends an attempt: the stream says so, or brings a change the copy cannot take.
Ends(frame) == IF frame.kind = "change"
               THEN \/ frame.change.pos <= sub.at
                    \/ frame.change.pos > copy.at /\ ~Fits(copy.tree, frame.change)
               ELSE frame.kind \in {"cut", "gone", "rebuild"}
------------------------------------------------------------------------------
(* The client: building and following.                                       *)

Dialled(resume, inc, at) ==
  /\ server = "up"
  /\ line' = <<>>
  /\ feed' = [Silent EXCEPT !.pc = "called", !.resume = resume, !.inc = inc, !.at = at]

Subscribe == /\ follower.pc = "subscribe"
             /\ Dialled(FALSE, 0, 0)
             /\ follower' = [follower EXCEPT !.pc = "starting"]
             /\ UNCHANGED <<volume, server, sub, picture, copy, seeding, store, others>>

Resubscribe == /\ follower.pc = "pause"
               /\ Dialled(TRUE, store.inc, store.at)
               /\ follower' = [follower EXCEPT !.pc = "restarting"]
               /\ UNCHANGED <<volume, server, sub, picture, copy, seeding, store, others>>

Begun(pc) == /\ follower.pc = pc
                /\ line # <<>>
                /\ Head(line).kind = "start"
                /\ sub' = [inc |-> Head(line).inc, at |-> Head(line).at, tail |-> Head(line).tail]
                /\ line' = Tail(line)

Watching == /\ Begun("starting")
            /\ follower' = [follower EXCEPT !.pc = "snapshot"]
            /\ UNCHANGED <<volume, server, feed, picture, copy, seeding, store, others>>

PickedUp == /\ Begun("restarting")
            /\ store' = Resumed(store, sub'.inc, sub'.tail)
            /\ follower' = [follower EXCEPT !.pc = "attend"]
            /\ UNCHANGED <<volume, server, feed, picture, copy, seeding, others>>

SentAway == /\ follower.pc = "restarting"
            /\ line # <<>>
            /\ Head(line).kind = "rebuild"
            /\ follower' = [follower EXCEPT !.pc = "subscribe"]
            /\ line' = <<>>
            /\ UNCHANGED <<volume, server, feed, sub, picture, copy, seeding, store, others>>

Snapshot == /\ follower.pc = "snapshot"
            /\ server = "up"
            /\ picture' = [open |-> TRUE, tree |-> tree]
            /\ seeding' = [open |-> TRUE, inc |-> head.inc, at |-> head.tail,
                           left |-> {n \in Places : tree[n] # Absent}, tree |-> Nothing]
            /\ follower' = [follower EXCEPT !.pc = "fill"]
            /\ UNCHANGED <<volume, stream, sub, copy, store, others>>

\* Mutant: the rows are read when they are sent, not as the picture was taken.
CurrentRow(n) == tree[n]

PictureRow(n) == picture.tree[n]

Fill == /\ follower.pc = "fill"
        /\ picture.open
        /\ \E n \in seeding.left :
             seeding' = [seeding EXCEPT !.tree[n] = PictureRow(n), !.left = @ \ {n}]
        /\ follower' = [follower EXCEPT !.pc = IF seeding'.left = {} THEN "checkpoint" ELSE @]
        /\ picture' = IF seeding'.left = {} THEN NoPicture ELSE picture
        /\ UNCHANGED <<volume, stream, sub, copy, store, others>>

\* Mutant: the checkpoint's incarnation is not compared.
InstallableAnywhere == seeding.at >= sub.tail

Installable == /\ seeding.at >= sub.tail
               /\ head.inc = sub.inc
               /\ head.tail >= seeding.at

Checkpoint == /\ follower.pc = "checkpoint"
              /\ server = "up"
              /\ Installable
              /\ copy' = [inc |-> seeding.inc, at |-> seeding.at, tree |-> seeding.tree]
              /\ seeding' = NoSeeding
              /\ store' = Installed(store, sub.inc, seeding.at, head.tail)
              /\ follower' = [follower EXCEPT !.pc = "replay", !.target = head.tail]
              /\ UNCHANGED <<volume, stream, sub, picture, others>>

Misplaced == /\ follower.pc = "checkpoint"
             /\ server = "up"
             /\ ~Installable
             /\ GivesUp
             /\ UNCHANGED course

Reads == \/ follower.pc \in {"starting", "restarting", "attend"}
         \/ follower.pc = "replay" /\ copy.at < follower.target

\* One change off the stream, by the replay gate or by the follower.
Receive ==
  /\ Reads
  /\ line # <<>>
  /\ Head(line).kind = "change"
  /\ LET c == Head(line).change IN
     /\ ~Ends(Head(line))
     /\ sub' = [sub EXCEPT !.at = c.pos]
     /\ copy' = Apply(copy, c)
     /\ store' = IF c.pos <= copy.at THEN store
                 ELSE IF follower.pc = "replay" THEN Replayed(store, c.pos)
                 ELSE Applied(store, c.pos)
  /\ line' = Tail(line)
  /\ UNCHANGED <<volume, server, feed, picture, seeding, follower, others>>

Handoff == /\ follower.pc = "replay"
           /\ copy.at >= follower.target
           /\ store' = Seeded(store)
           /\ follower' = [pc |-> "attend", mounted |-> TRUE, target |-> 0]
           /\ UNCHANGED <<volume, stream, sub, picture, copy, seeding, others>>

StreamEnds == /\ Reads
              /\ line # <<>>
              /\ Ends(Head(line))
              /\ follower.pc = "restarting" => Head(line).kind # "rebuild"
              /\ GivesUp
              /\ UNCHANGED course

\* A request of the build that no server answers.
Unanswered == /\ \/ follower.pc \in {"subscribe", "snapshot", "checkpoint"} /\ server # "up"
                 \/ follower.pc = "fill" /\ ~picture.open
              /\ GivesUp
              /\ UNCHANGED course

TimesOut == /\ "timeout" \in Setting.offered
            /\ follower.pc \in {"snapshot", "fill", "checkpoint", "replay"}
            /\ Spent
            /\ GivesUp

Following == \/ Subscribe \/ Resubscribe \/ Watching \/ PickedUp \/ SentAway \/ Snapshot \/ Fill
             \/ Checkpoint \/ Misplaced \/ Receive \/ Handoff \/ StreamEnds \/ Unanswered
------------------------------------------------------------------------------
(* Mutations through the client, and the writer elsewhere.                   *)

Goes(c, pc) == caller' = [caller EXCEPT ![c].pc = pc]
\* The caller returns and its confirmation is forgotten.
Forget(c) == /\ caller' = [caller EXCEPT ![c] = Resting]
             /\ store' = [store EXCEPT !.active = @ - 1]
LeaveAsIs == UNCHANGED <<volume, stream, sub, picture, copy, seeding, follower, course>>

Usable == ~store.failed /\ ~store.closing

Expect(c) == /\ caller[c].pc = "idle"
             /\ Usable
             /\ \/ /\ store.active < MaxActive
                   /\ Goes(c, "admitted")
                   /\ store' = [store EXCEPT !.active = @ + 1]
                \/ /\ store.active >= MaxActive
                   /\ store.waiters < MaxWaiting
                   /\ Goes(c, "waiting")
                   /\ store' = [store EXCEPT !.waiters = @ + 1]
             /\ UNCHANGED confirmed
             /\ LeaveAsIs

Admit(c) == /\ caller[c].pc = "waiting"
            /\ Usable
            /\ store.active < MaxActive
            /\ Goes(c, "admitted")
            /\ store' = [store EXCEPT !.active = @ + 1, !.waiters = @ - 1]
            /\ UNCHANGED confirmed
            /\ LeaveAsIs

\* The wait for capacity ends without it: the copy failed, is closing, or the caller left.
TurnAway(c) == /\ caller[c].pc = "waiting"
               /\ ~Usable \/ "cancel" \in Setting.offered
               /\ Goes(c, "idle")
               /\ store' = [store EXCEPT !.waiters = @ - 1]
               /\ UNCHANGED confirmed
               /\ LeaveAsIs

Mutate(c) == /\ IF c = Elsewhere THEN caller[c].pc = "idle" /\ "elsewhere" \in Setting.offered
                                 ELSE caller[c].pc = "admitted" /\ ~store.closing
             /\ server = "up"
             /\ \E edit \in Edits : Committed(edit)
             /\ caller' = [caller EXCEPT ![c].pc = "committed", ![c].own = head'.tail]
             /\ UNCHANGED <<stream, client, confirmed, course>>

\* The mutation was not sent, was refused, or its answer never came.
Refuse(c) == /\ caller[c].pc \in {"admitted", "lost"}
             /\ Forget(c)
             /\ UNCHANGED confirmed
             /\ LeaveAsIs

\* Mutant: the wake is not kept for a handler that is still reading.
WakeWaiting(c) == /\ caller[c].pc = "committed"
                  /\ feed' = [feed EXCEPT !.woken = feed.pc = "wait"]
                  /\ IF c = Elsewhere THEN caller' = [caller EXCEPT ![c] = Resting]
                                      ELSE Goes(c, "woke")
                  /\ UNCHANGED <<volume, server, line, client, confirmed, course>>

Report(c) == /\ caller[c].pc = "committed"
             /\ feed' = [feed EXCEPT !.woken = feed.pc \notin {"off", "called"}]
             /\ IF c = Elsewhere THEN caller' = [caller EXCEPT ![c] = Resting]
                                 ELSE Goes(c, "woke")
             /\ UNCHANGED <<volume, server, line, client, confirmed, course>>

Barrier(c) == /\ caller[c].pc = "woke"
              /\ caller' = [caller EXCEPT ![c].pc = "answered", ![c].inc = head.inc,
                                      ![c].at = head.tail]
              /\ UNCHANGED <<volume, stream, client, confirmed, course>>

SetBarrier(c) == /\ caller[c].pc = "answered"
                 /\ IF caller[c].inc = store.inc
                    THEN /\ caller' = [caller EXCEPT ![c].pc = "await", ![c].gen = store.gen]
                         /\ UNCHANGED store
                    ELSE Forget(c)
                 /\ UNCHANGED confirmed
                 /\ LeaveAsIs

\* Mutant: any change is taken for the one that was made.
ReachedAnything(c) == ~store.failed /\ caller[c].gen = store.gen

Reached(c) == /\ ~store.failed
              /\ caller[c].gen = store.gen
              /\ store.at >= caller[c].at

Confirm(c) == /\ caller[c].pc = "await"
              /\ Reached(c)
              /\ Forget(c)
              /\ confirmed' = [confirmed EXCEPT ![caller[c].inc] = Larger(@, caller[c].own)]
              /\ LeaveAsIs

\* Mutant: a barrier of another log is waited for.
UnconfirmedOnFailure(c) == /\ caller[c].pc = "await"
                           /\ store.failed \/ store.closing
                           /\ Forget(c)
                           /\ UNCHANGED confirmed
                           /\ LeaveAsIs

\* The change was made and the caller is told it could not be confirmed.
Unconfirmed(c) == /\ caller[c].pc = "await"
                  /\ \/ store.failed \/ store.closing
                     \/ caller[c].gen # store.gen
                     \/ "expire" \in Setting.offered /\ ~Reached(c)
                  /\ Forget(c)
                  /\ UNCHANGED confirmed
                  /\ LeaveAsIs

Answering(c) == \/ Report(c) \/ Barrier(c)
Calling(c) == \/ Expect(c) \/ Admit(c) \/ TurnAway(c) \/ Refuse(c)
              \/ SetBarrier(c) \/ Confirm(c) \/ Unconfirmed(c)
------------------------------------------------------------------------------
Close == /\ "close" \in Setting.offered
         /\ follower.mounted
         /\ ~store.closing
         /\ store' = [store EXCEPT !.closing = TRUE]
         /\ UNCHANGED <<volume, stream, sub, picture, copy, seeding, follower, others>>

\* The lifetime of the storage ends whatever its follower was doing.
FollowerStops == /\ store.closing
                 /\ follower.pc # "stopped"
                 /\ Release
                 /\ store' = Failed(store)
                 /\ follower' = [follower EXCEPT !.pc = "stopped", !.target = 0]
                 /\ UNCHANGED <<volume, server, copy, others>>

Released == /\ follower.pc = "stopped"
            /\ store.active = 0 /\ store.waiters = 0
            /\ ~store.released
            /\ store' = [store EXCEPT !.released = TRUE]
            /\ UNCHANGED <<volume, stream, sub, picture, copy, seeding, follower, others>>

Next == \/ Neighbour \/ Streaming \/ Following \/ TimesOut
        \/ Stop \/ Exit \/ Crash \/ Drop \/ Reopen \/ Migrate
        \/ \E c \in Setting.callers \cup {Elsewhere} : Mutate(c) \/ Report(c)
        \/ \E c \in Setting.callers : Barrier(c) \/ Calling(c)
        \/ Close \/ FollowerStops \/ Released

Spec == Init /\ [][Next]_vars

\* What the runtime and the network let every part go on doing.  The server is
\* restarted, a request is answered, and the copy dials again after its pause.
FairSpec == /\ Spec
            /\ WF_vars(Streaming)
            /\ WF_vars(Following)
            /\ WF_vars(Exit)
            /\ WF_vars(Reopen)
            /\ WF_vars(FollowerStops)
            /\ WF_vars(Released)
            /\ \A c \in Mutators : WF_vars(Report(c))
            /\ \A c \in Callers : WF_vars(Barrier(c)) /\ WF_vars(Calling(c) /\ ~Expect(c))
------------------------------------------------------------------------------
(* Properties.                                                               *)

Changes == [pos : Positions, prev : Positions, kind : {"created", "modified", "removed", "renamed"},
            name : Places, from : Places, node : Node]

\* Every variable has its shape; counters stay within the bounds the options give.
TypeOK ==
  /\ tree \in Trees
  /\ \A i \in 1 .. Len(log) : log[i] \in Changes
  /\ head \in [inc : Logs, tail : Positions, trimmed : Positions, high : Positions, ids : Nat]
  /\ server \in {"up", "stopping", "down"}
  /\ feed.pc \in {"off", "called", "attached", "read", "send", "quiet", "wait", "leave"}
  /\ Len(line) <= Buffer + 1
  /\ sub \in [inc : 0 .. MaxLogs, at : Positions, tail : Positions]
  /\ copy.inc \in 0 .. MaxLogs /\ copy.at \in Positions /\ copy.tree \in Trees
  /\ follower.pc \in {"subscribe", "starting", "snapshot", "fill", "checkpoint", "replay", "attend",
                      "pause", "restarting", "failed", "stopped"}
  /\ store.active \in 0 .. MaxActive /\ store.waiters \in 0 .. MaxWaiting

\* The copy is what the volume held at the position the copy names, whatever was
\* written while its picture was taken, replayed or resumed (build.go, replica.go).
CopyExact == copy.inc # 0 => copy.tree = past[copy.inc][copy.at].tree

\* A copy that may be answered from is attended, follows the log it was built
\* from, and holds everything that log had when the stream began (follow.go resumed).
UsableIsCurrent == ~store.failed => /\ follower.pc = "attend"
                                    /\ store.inc = copy.inc /\ sub.inc = copy.inc
                                    /\ store.at = copy.at /\ copy.at >= sub.tail

\* A mutation that returned success is in the copy from then on, in the log it
\* was recorded in or in the tree a later log began with (follow.go await).
ConfirmedVisible == \A i \in Logs : confirmed[i] > 0 =>
                      copy.inc > i \/ (copy.inc = i /\ copy.at >= confirmed[i])

\* Nothing a stream carries is refused by the copy that reads it: the strictness
\* of Replica.Apply never ends a healthy stream.
EveryChangeFits == Reads /\ line # <<>> /\ Head(line).kind = "change" => ~Ends(Head(line))

\* The surviving entries and the trim anchor form one chain up to the tail, so a
\* page that follows a position the log still covers skips nothing (page.go);
\* trimming keeps the log within its cap and never takes it below its floor,
\* however old its entries are (retention.go).
LogKept ==
  /\ \A i \in 1 .. Len(log) : log[i].prev = IF i = 1 THEN head.trimmed ELSE log[i - 1].pos
  /\ head.tail = IF log = <<>> THEN head.trimmed ELSE log[Len(log)].pos
  /\ Len(log) <= Setting.cap /\ (head.trimmed # 0 => Len(log) >= Floor)

\* Once failures and writes end, a mounted copy is usable and at the tail for good,
\* whether it resumed or had to be built again (follow.go reattach).
CatchesUp == <>[](follower.pc = "failed" \/ (Usable /\ copy.inc = head.inc /\ copy.at = head.tail))

\* Every mutation returns, confirmed or not (follow.go await, expect).
MutationSettles == \A c \in Callers : caller[c].pc # "idle" ~> caller[c].pc = "idle"

\* "everything here is what the server had as of a position it can name"
\* (replicated.go): a copy that may be answered from is a tree some transaction left.
CopyIsCommitted == Usable => past[copy.inc][copy.at].whole
====
