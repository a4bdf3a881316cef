----------------------------- MODULE AirDropServer -----------------------------
(***************************************************************************)
(* The HTTPS receiver, protocols/http_server.rs, with the archive          *)
(* extraction of protocols/cpio_extract.rs at the level of files: one task *)
(* per connection reads a request, handles it, and reads the next one      *)
(* until the handler closes or fails.  /Ask goes through the prompt        *)
(* (AskGate, which IncomingTransfer implements); /Upload unpacks an        *)
(* archive into the receive folder and announces what it saved on the      *)
(* feed (ReceivedFeed).                                                    *)
(*                                                                         *)
(* exists() and create() are two calls, and tasks run in parallel: picking *)
(* a free name and writing the file are two steps.                         *)
(***************************************************************************)
EXTENDS Naturals, Sequences, FiniteSets, ReceivedFeed

CONSTANTS Conns,        \* connections; each is one task
          MaxRequests,  \* requests each connection makes (bound)
          Names,        \* file names senders use
          Archives,     \* what an /Upload may hold: sequences of entries
          LastSuffix,   \* "name (999)" in the code: the last numbered name
          Clicks        \* answers of the user (bound, see AskGate)

Asks == UNION {{c} \X (1 .. MaxRequests[c]) : c \in Conns}

\* An archive entry: a file, a file whose data ends early, or bytes that are
\* no record ("invalid cpio magic").
Entries == [name : Names, kind : {"whole", "short", "badmagic"}]

ASSUME ServerAssumption ==
    /\ MaxRequests \in [Conns -> Nat \ {0}]
    /\ LastSuffix \in Nat
    /\ Archives \subseteq Seq(Entries) \ {<<>>}

VARIABLES
    discoverable, \* the configuration flag /Discover and /Ask check
    verdict, consents, auto,  \* the prompt (AskGate)
    conn,         \* what each connection's task is doing
    asked,        \* requests each connection has made
    todo,         \* entries of the archive still to unpack
    chosen,       \* the path a task found free and will create next
    saved,        \* paths extract_cpio has collected
    disk,         \* the receive folder: the files there, by path
    beaten,       \* tasks whose chosen name was created by another (history)
    replaced      \* paths whose file was written over (history)

gateVars == <<verdict, consents, auto>>
fileVars == <<chosen, disk, beaten, replaced>>
connVars == <<conn, asked, todo, saved>>
vars == <<discoverable, gateVars, connVars, fileVars, feedVars>>

Gate == INSTANCE AskGate

\* <<n, <<0, <<>>>>>> is n itself, <<n, <<i, <<>>>>>> is "n (i)", and past LastSuffix
\* the name ends in a UUID, here the creation it was drawn for.
Paths == Names \X ((Nat \X {<<>>}) \cup ({0} \X (Asks \X Nat)))
NoPath == <<>>

Phases == {"reading", "deciding", "linking", "unpacking", "announcing", "closed"}

File == [by : Conns, whole : BOOLEAN, link : BOOLEAN, ask : Asks]

TypeOK ==
    /\ discoverable \in BOOLEAN
    /\ Gate!TypeOK
    /\ conn \in [Conns -> Phases]
    /\ asked \in [Conns -> Nat]
    /\ \A c \in Conns : asked[c] <= MaxRequests[c]
    /\ todo \in [Conns -> Seq(Entries)]
    /\ chosen \in [Conns -> Paths \cup {NoPath}]
    /\ saved \in [Conns -> Seq(Paths)]
    /\ DOMAIN disk \subseteq Paths
    /\ \A p \in DOMAIN disk : disk[p] \in File
    /\ beaten \in SUBSET Conns
    /\ replaced \subseteq DOMAIN disk
    /\ FeedTypeOK(Paths)

Init ==
    /\ discoverable \in BOOLEAN
    /\ Gate!Init
    /\ conn = [c \in Conns |-> "reading"]
    /\ asked = [c \in Conns |-> 0]
    /\ todo = [c \in Conns |-> <<>>]
    /\ chosen = [c \in Conns |-> NoPath]
    /\ saved = [c \in Conns |-> <<>>]
    /\ disk = <<>>
    /\ beaten = {}
    /\ replaced = {}
    /\ FeedInit

Ask(c) == <<c, asked[c]>>

Become(c, phase) == conn' = [conn EXCEPT ![c] = phase]

\* The response is written and the loop reads on, or the peer is gone.
Reply(c) == Become(c, "reading") \/ Become(c, "closed")

-----------------------------------------------------------------------------
(* handle_connection: one request is read and dispatched *)

NewRequest(c) ==
    /\ conn[c] = "reading"
    /\ asked[c] < MaxRequests[c]
    /\ asked' = [asked EXCEPT ![c] = @ + 1]
    /\ UNCHANGED <<discoverable, saved, fileVars, feedVars>>

\* read_http_request fails: the peer is gone, or sent no header.
ReadFails(c) ==
    /\ conn[c] = "reading"
    /\ Become(c, "closed")
    /\ UNCHANGED <<discoverable, gateVars, asked, todo, saved, fileVars, feedVars>>

\* GET/HEAD "/" keeps the connection, an unknown path closes it; /Discover is
\* answered 200 or, with receiving off, 503 "Connection: close", but read on.
HandleOther(c) ==
    /\ NewRequest(c)
    /\ Reply(c)
    /\ UNCHANGED <<gateVars, todo>>

\* handle_ask up to wait_for_decision.
HandleAsk(c) ==
    /\ NewRequest(c)
    /\ \/ /\ ~discoverable
          /\ Reply(c)
          /\ UNCHANGED gateVars
       \/ /\ discoverable
          /\ Become(c, "deciding")
          /\ Gate!Ask(<<c, asked[c] + 1>>)
    /\ UNCHANGED todo

\* handle_upload: a wrong content type is refused; a chunked body that ends
\* early, or an upload that is no archive, fails the handler without a response
\* (an empty archive ends it too).  A shorter body than announced is unpacked as
\* far as it goes.  Nothing looks for an earlier /Ask.
HandleUpload(c) ==
    /\ NewRequest(c)
    /\ \/ Become(c, "closed") /\ UNCHANGED todo
       \/ \E archive \in Archives :
             /\ todo' = [todo EXCEPT ![c] = archive]
             /\ Become(c, "unpacking")
    /\ UNCHANGED gateVars

-----------------------------------------------------------------------------
(* handle_ask after wait_for_decision *)

\* Refused: 503.  Granted: 200 when files were announced; when the ask carries
\* a link, the link is saved first.
Decided(c) ==
    /\ conn[c] = "deciding"
    /\ \/ /\ verdict[Ask(c)] = "refused"
          /\ Become(c, "reading")
       \/ /\ verdict[Ask(c)] = "granted"
          /\ Reply(c) \/ Become(c, "linking")
    /\ UNCHANGED <<discoverable, gateVars, asked, todo, saved, fileVars, feedVars>>

Numbered(n, i) == <<n, <<i, <<>>>>>>
Exists(n, i) == Numbered(n, i) \in DOMAIN disk
Free(n) == {i \in 0 .. LastSuffix : ~Exists(n, i)}

\* Mutant: after the first name only the last number is tried.
FirstOrLast(n, c) ==
    Numbered(n, IF 0 \in Free(n) THEN 0 ELSE LastSuffix)

\* unique_path: the first free numbered name, or one with a UUID.
UniquePath(n, c) ==
    IF Free(n) = {}
    THEN <<n, <<0, <<Ask(c), Len(todo[c])>>>>>>
    ELSE Numbered(n, CHOOSE i \in Free(n) : \A j \in Free(n) : i <= j)

\* save_link_shortcut: the first free number, however large.
LinkPath(n) ==
    Numbered(n, CHOOSE i \in 0 .. Cardinality(DOMAIN disk) :
                   ~Exists(n, i) /\ \A j \in 0 .. (i - 1) : Exists(n, j))

Choose(c, path) ==
    /\ chosen[c] = NoPath
    /\ chosen' = [chosen EXCEPT ![c] = path]
    /\ UNCHANGED <<discoverable, gateVars, connVars, disk, beaten, replaced,
                   feedVars>>

\* The chosen path is created (or truncated) and written.
Write(c, whole, link) ==
    LET p == chosen[c]
        file == [by |-> c, whole |-> whole, link |-> link, ask |-> Ask(c)] IN
    /\ disk' = [q \in DOMAIN disk \cup {p} |-> IF q = p THEN file ELSE disk[q]]
    /\ beaten' = (beaten \ {c}) \cup {d \in Conns \ {c} : chosen[d] = p}
    /\ replaced' = IF p \in DOMAIN disk THEN replaced \cup {p} ELSE replaced

WriteFails(c) ==
    /\ beaten' = beaten \ {c}
    /\ UNCHANGED <<disk, replaced>>

\* save_link_shortcut: write, announce, answer 200; an I/O error is only logged.
SaveLink(c) ==
    /\ conn[c] = "linking"
    /\ chosen[c] # NoPath
    /\ \/ Write(c, TRUE, TRUE) /\ Send(chosen[c])
       \/ WriteFails(c) /\ UNCHANGED feedVars
    /\ chosen' = [chosen EXCEPT ![c] = NoPath]
    /\ Reply(c)
    /\ UNCHANGED <<discoverable, gateVars, asked, todo, saved>>

-----------------------------------------------------------------------------
(* handle_upload after the body is in memory *)

\* extract_cpio looks for a free name for the next record, or a free name for
\* a link is looked for.
ChooseName(c) ==
    \/ /\ conn[c] = "unpacking"
       /\ Head(todo[c]).kind # "badmagic"
       /\ Choose(c, UniquePath(Head(todo[c]).name, c))
    \/ /\ conn[c] = "linking"
       /\ \E n \in Names : Choose(c, LinkPath(n))

\* Mutant: data that ends early ends the archive, as a missing record does.
CreateFileKeepsShort(c) ==
    /\ conn[c] = "unpacking"
    /\ chosen[c] # NoPath
    /\ Write(c, Head(todo[c]).kind = "whole", FALSE)
    /\ saved' = [saved EXCEPT ![c] = Append(@, chosen[c])]
    /\ Become(c, IF Len(todo[c]) = 1 THEN "announcing" ELSE "unpacking")
    /\ chosen' = [chosen EXCEPT ![c] = NoPath]
    /\ todo' = [todo EXCEPT ![c] = Tail(@)]
    /\ UNCHANGED <<discoverable, gateVars, asked, feedVars>>

\* File::create truncates what is there.  When the data ends early, or the
\* create fails, the error leaves the handler; files already written stay.
CreateFile(c) ==
    /\ conn[c] = "unpacking"
    /\ chosen[c] # NoPath
    /\ \/ /\ Write(c, Head(todo[c]).kind = "whole", FALSE)
          /\ IF Head(todo[c]).kind = "whole"
             THEN /\ saved' = [saved EXCEPT ![c] = Append(@, chosen[c])]
                  /\ Become(c, IF Len(todo[c]) = 1 THEN "announcing"
                                                  ELSE "unpacking")
             ELSE Become(c, "closed") /\ UNCHANGED saved
       \/ WriteFails(c) /\ Become(c, "closed") /\ UNCHANGED saved
    /\ chosen' = [chosen EXCEPT ![c] = NoPath]
    /\ todo' = [todo EXCEPT ![c] = Tail(@)]
    /\ UNCHANGED <<discoverable, gateVars, asked, feedVars>>

\* Mutant: the handler waits for a record that never comes.
UnpackWaits(c) ==
    /\ conn[c] = "unpacking"
    /\ chosen[c] = NoPath
    /\ todo[c] = <<>>
    /\ Become(c, "closed")
    /\ UNCHANGED <<discoverable, gateVars, asked, todo, saved, fileVars, feedVars>>

\* "invalid cpio magic" after the files before it were written.
UnpackFails(c) ==
    /\ conn[c] = "unpacking"
    /\ chosen[c] = NoPath
    /\ Head(todo[c]).kind = "badmagic"
    /\ Become(c, "closed")
    /\ UNCHANGED <<discoverable, gateVars, asked, todo, saved, fileVars, feedVars>>

\* for path in &saved { tx.send(path) }, then 200 and the end.
Announce(c) ==
    /\ conn[c] = "announcing"
    /\ \/ /\ saved[c] # <<>>
          /\ Send(Head(saved[c]))
          /\ saved' = [saved EXCEPT ![c] = Tail(@)]
          /\ UNCHANGED conn
       \/ /\ saved[c] = <<>>
          /\ Become(c, "closed")
          /\ UNCHANGED <<saved, feedVars>>
    /\ UNCHANGED <<discoverable, gateVars, asked, todo, fileVars>>

-----------------------------------------------------------------------------
(* The environment: settings, the prompt's user and timers, the UI thread *)

SetDiscoverable(v) ==
    /\ discoverable' = v
    /\ UNCHANGED <<gateVars, connVars, fileVars, feedVars>>

GateStep ==
    /\ \/ \E v \in BOOLEAN : Gate!SetAuto(v)
       \/ \E a \in Asks : Gate!Refuse(a)
       \/ \E k \in Clicks : Gate!Consent(k)
       \/ \E a \in Asks, k \in Clicks : Gate!Grant(a, k)
    /\ UNCHANGED <<discoverable, connVars, fileVars, feedVars>>

UIStep == PollReceived /\ UNCHANGED <<discoverable, gateVars, connVars, fileVars>>

Request(c) ==
    ReadFails(c) \/ HandleOther(c) \/ HandleAsk(c) \/ HandleUpload(c)

Work(c) ==
    \/ Decided(c) \/ ChooseName(c) \/ SaveLink(c)
    \/ CreateFile(c) \/ UnpackFails(c) \/ Announce(c)

Next ==
    \/ \E v \in BOOLEAN : SetDiscoverable(v)
    \/ GateStep
    \/ UIStep
    \/ \E c \in Conns : Request(c) \/ Work(c)

Spec == Init /\ [][Next]_vars

(* A handler runs to its end, the prompt answers (EveryAskReturns of       *)
(* IncomingTransfer), the UI keeps polling.  Nothing makes a peer send.    *)
Fairness ==
    /\ \A c \in Conns : WF_vars(Work(c))
    /\ \A a \in Asks :
          WF_vars(Gate!Refuse(a) /\ UNCHANGED <<discoverable, connVars, fileVars, feedVars>>)
    /\ FeedFairness

FairSpec == Spec /\ Fairness

-----------------------------------------------------------------------------
(* Properties *)

(* A file already saved is written over only by a task that had found the  *)
(* name free before another task created it: whoever looks afterwards gets *)
(* another name, numbered or with a UUID (unique_path).                    *)
ReplacedOnlyByRace ==
    [][\A p \in DOMAIN disk :
          disk'[p] # disk[p] => \E c \in beaten : chosen[c] = p]_vars

(* What is announced was received in full, although a broken archive       *)
(* leaves its files on disk: extract_cpio announces nothing after an error *)
(* (a race for the name aside, ReplacedOnlyByRace); and a link came with   *)
(* an ask that was granted (handle_ask).                                   *)
AnnouncedIsWhole ==
    \A n \in 1 .. Len(sent) :
        /\ sent[n] \in DOMAIN disk
        /\ disk[sent[n]].whole \/ sent[n] \in replaced
        /\ disk[sent[n]].link => verdict[disk[sent[n]].ask] = "granted"

(* Every request is answered or its connection closed, whatever the user   *)
(* does and wherever the archive breaks off.                               *)
RequestsFinish ==
    \A c \in Conns : conn[c] \notin {"reading", "closed"} ~> conn[c] \in {"reading", "closed"}

=============================================================================
