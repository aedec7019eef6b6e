--------------------------------- MODULE Delivery ---------------------------------
(***************************************************************************)
(* One GET of a rendition's content or thumbnail: the range is parsed, a   *)
(* reader generator is opened over a local file or an "rclone cat" child,  *)
(* one chunk is read before the headers are sent, and the body then pulls  *)
(* the rest.  The child may fail, hang or be missing, the stored object    *)
(* may not have its cataloged size, and the client may leave.  Requests    *)
(* share nothing.  Bytes are counted; the bytes of an object are           *)
(* 0..object-1.                                                            *)
(***************************************************************************)
EXTENDS Integers

CONSTANTS
  MaxSize,   \* bound: sizes, offsets and lengths in a request
  ChunkSize, \* the most that one read returns
  Nothing    \* "no size in the catalog", "no limit", "no such object"

ASSUME DeliveryAssumption ==
  MaxSize \in Nat /\ ChunkSize \in Nat \ {0} /\ Nothing \notin Int

Sizes == 0..MaxSize
SizesOrNone == Sizes \cup {Nothing}
Negative == -1 \* any size below zero in the catalog's row
Ranges ==
  [form : {"absent", "malformed"}] \cup [form : {"suffix"}, length : Sizes]
    \cup [form : {"open"}, first : Sizes] \cup [form : {"closed"}, first : Sizes, last : Sizes]
Requests ==
  [route : {"content", "thumbnail"}, range : Ranges, found : BOOLEAN,
   scheme : {"file", "rclone", "unsupported"},
   size : SizesOrNone \cup {Negative}]

VARIABLES
  request,   \* with the catalog's row: found, locator scheme, cataloged size
  object,    \* the size of the stored object
  phase,     \* request, opened, preflight, ready, body, next, done
  window,    \* offset and count the reader was opened with
  declared,  \* Content-Length
  handle,    \* the reader's file descriptors or child process
  read,      \* bytes the generator has yielded
  pending,   \* bytes of the chunk that has been read and not sent
  sent,      \* body bytes sent
  response,  \* the status line
  outcome    \* how the exchange ended: complete, aborted

exchange == <<request, object, phase, window, declared, handle, read, pending, sent,
          response, outcome>>
reading == <<window, declared, read>>

ExchangeTypeOK ==
  /\ request \in Requests /\ object \in SizesOrNone
  /\ phase \in {"request", "opened", "preflight", "ready", "body", "next", "done"}
  /\ window \in [offset : Sizes, count : SizesOrNone] /\ declared \in SizesOrNone
  /\ handle \in {"none", "new", "open", "closed"}
  /\ read \in Sizes /\ pending \in Sizes /\ sent \in Sizes /\ sent + pending = read
  /\ phase \in {"ready", "body"} /\ handle = "open" => read > 0
  /\ response \in {"none", "200", "206", "404", "416", "503"}
  /\ outcome \in {"none", "complete", "aborted"}

ExchangeInit ==
  /\ request \in {r \in Requests : r.route = "thumbnail" => r.range.form = "absent"}
  /\ object \in SizesOrNone
  /\ phase = "request" /\ window = [offset |-> 0, count |-> Nothing] /\ declared = Nothing
  /\ handle = "none" /\ read = 0 /\ pending = 0 /\ sent = 0
  /\ response = "none" /\ outcome = "none"

--------------------------------------------------------------------------------
Lower(a, b) == IF a < b THEN a ELSE b

WholeObject == [offset |-> 0, count |-> Nothing]
Span(first, last) == {[offset |-> first, count |-> last - first + 1]}

(* Mutant: the last position is not cut to the object.                     *)
ParseUncut(range, total) ==
  CASE range.form = "absent" -> {WholeObject}
    [] range.form = "suffix" /\ total > 0 /\ range.length > 0 ->
         Span(total - Lower(range.length, total), total - 1)
    [] range.form = "open" /\ range.first < total -> Span(range.first, total - 1)
    [] range.form = "closed" /\ range.first < total /\ range.first <= range.last ->
         Span(range.first, range.last)
    [] OTHER -> {}

(* Mutant: a suffix is taken from the front.                               *)
ParseSuffixAsPrefix(range, total) ==
  IF range.form = "suffix" /\ total > 0 /\ range.length > 0
  THEN Span(0, Lower(range.length, total) - 1) ELSE ParseUncut(range, total)

(* The window of a range, or none: not satisfiable.                        *)
ParseSingleRange(range, total) ==
  CASE range.form = "absent" -> {WholeObject}
    [] range.form = "suffix" /\ total > 0 /\ range.length > 0 ->
         Span(total - Lower(range.length, total), total - 1)
    [] range.form = "open" /\ range.first < total -> Span(range.first, total - 1)
    [] range.form = "closed" /\ range.first < total /\ range.first <= range.last ->
         Span(range.first, Lower(range.last, total - 1))
    [] OTHER -> {}

Respond(status) == response' = status /\ phase' = "done" /\ outcome' = "complete"

Refuse(status) ==
  /\ Respond(status)
  /\ UNCHANGED <<request, object, handle, pending, sent>> /\ UNCHANGED reading

(* The route: the catalog row, the range, then reader.open, which checks   *)
(* the locator and returns a generator that has not started.               *)
Open ==
  /\ phase = "request" /\ request.found
  /\ request.size \in IF request.route = "content" THEN Sizes ELSE SizesOrNone
  /\ request.scheme # "unsupported"
  /\ \E w \in IF request.route = "content" THEN ParseSingleRange(request.range, request.size)
                                            ELSE {WholeObject} :
       window' = w /\ declared' = IF w.count = Nothing THEN request.size ELSE w.count
  /\ handle' = "new" /\ phase' = "opened"
  /\ UNCHANGED <<request, object, read, pending, sent, response, outcome>>

NotFound == phase = "request" /\ ~request.found /\ Refuse("404")

NotSatisfiable ==
  /\ phase = "request" /\ request.found /\ request.route = "content" /\ request.size \in Sizes
  /\ ParseSingleRange(request.range, request.size) = {}
  /\ Refuse("416")

(* The row has no usable size (a thumbnail may be without one, but not     *)
(* below zero), or the reader does not take its locator.                   *)
NotReadable ==
  /\ phase = "request" /\ request.found
  /\ \/ request.size = Negative
     \/ request.route = "content" /\ request.size = Nothing
     \/ /\ request.route = "content" /\ request.size \in Sizes /\ request.scheme = "unsupported"
        /\ ParseSingleRange(request.range, request.size) # {}
     \/ request.route = "thumbnail" /\ request.scheme = "unsupported"
  /\ Refuse("503")

(* A cataloged size of zero: the generator is closed before it starts.     *)
SkipBody ==
  /\ phase = "opened" /\ declared = 0
  /\ handle' = "closed" /\ phase' = "ready"
  /\ UNCHANGED <<request, object, pending, sent, response, outcome>> /\ UNCHANGED reading

(* Mutant: the headers are sent before anything was read.                  *)
PreflightNothing ==
  /\ phase = "opened" /\ declared # 0
  /\ phase' = "ready"
  /\ UNCHANGED <<request, object, handle, pending, sent, response, outcome>> /\ UNCHANGED reading

Preflight ==
  /\ phase = "opened" /\ declared # 0
  /\ phase' = "preflight"
  /\ UNCHANGED <<request, object, handle, pending, sent, response, outcome>> /\ UNCHANGED reading

InNext == phase \in {"preflight", "next"}

(* The first next() of the generator opens the file or starts the child.   *)
OpenHandle ==
  /\ InNext /\ handle = "new"
  /\ request.scheme = "file" => object # Nothing
  /\ handle' = "open"
  /\ UNCHANGED <<request, object, phase, pending, sent, response, outcome>> /\ UNCHANGED reading

(* What the file, or "cat --offset --count", has left to give.             *)
Left ==
  LET end == IF window.count = Nothing THEN object ELSE Lower(object, window.offset + window.count)
  IN  IF object = Nothing \/ end < window.offset + read THEN 0 ELSE end - window.offset - read

(* A read returns part of what is left.                                    *)
ReadChunk ==
  /\ InNext /\ handle = "open"
  /\ \E n \in 1..Lower(ChunkSize, Left) : read' = read + n /\ pending' = n
  /\ phase' = IF phase = "preflight" THEN "ready" ELSE "body"
  /\ UNCHANGED <<request, object, window, declared, handle, sent, response, outcome>>

(* The generator ends: what _open_stream, or the server, makes of it.  The *)
(* server does not accept a body that differs from Content-Length.         *)
StreamStops ==
  /\ handle' = "closed"
  /\ \/ /\ phase = "preflight" /\ declared \notin {Nothing, 0}
        /\ Respond("503")
     \/ /\ phase = "preflight" /\ declared = Nothing
        /\ phase' = "ready" /\ UNCHANGED <<response, outcome>>
     \/ /\ phase = "next" /\ phase' = "done" /\ UNCHANGED response
        /\ outcome' = IF declared \in {Nothing, sent} THEN "complete" ELSE "aborted"
  /\ UNCHANGED <<request, object, pending, sent>> /\ UNCHANGED reading

(* Mutant: the end of a child's output is taken for success.               *)
EndUnchecked == InNext /\ handle = "open" /\ StreamStops

(* End of file; for the child, end of its output and exit status zero.     *)
EndOfStream ==
  /\ InNext /\ handle = "open" /\ Left = 0
  /\ request.scheme = "rclone" => object # Nothing
  /\ StreamStops

(* The generator raises.  Before the headers that is a 503; afterwards the *)
(* body is cut.                                                            *)
Raise ==
  /\ IF phase = "preflight" THEN Respond("503")
     ELSE phase' = "done" /\ outcome' = "aborted" /\ UNCHANGED response
  /\ UNCHANGED <<request, object, pending, sent>> /\ UNCHANGED reading

(* Mutant: the child is not cleaned up when its stream fails.              *)
StreamFailsUnreaped == InNext /\ handle \in {"new", "open"} /\ UNCHANGED handle /\ Raise

(* Opening or reading fails, or the child exits with an error; finally     *)
(* clauses release what the generator holds.                               *)
StreamFails == InNext /\ handle \in {"new", "open"} /\ handle' = "closed" /\ Raise

(* Mutant: only the first read waits no longer than the deadline.          *)
DeadlineOfFirstRead ==
  /\ phase = "preflight" /\ handle = "open" /\ request.scheme = "rclone"
  /\ handle' = "closed" /\ Raise

(* select, or the wait for the exit status, reaches the deadline: the      *)
(* child is terminated, then killed.                                       *)
Deadline ==
  /\ InNext /\ handle = "open" /\ request.scheme = "rclone"
  /\ handle' = "closed" /\ Raise

SendHeaders ==
  /\ phase = "ready"
  /\ response' = IF window.count = Nothing THEN "200" ELSE "206"
  /\ phase' = "body"
  /\ UNCHANGED <<request, object, handle, pending, sent, outcome>> /\ UNCHANGED reading

(* The server sends the chunk, unless it exceeds Content-Length.           *)
SendChunk ==
  /\ phase = "body" /\ pending > 0
  /\ declared # Nothing => sent + pending <= declared
  /\ sent' = sent + pending /\ pending' = 0
  /\ UNCHANGED <<request, object, phase, handle, response, outcome>> /\ UNCHANGED reading

Pull ==
  /\ phase = "body" /\ pending = 0 /\ handle # "closed"
  /\ phase' = "next"
  /\ UNCHANGED <<request, object, handle, pending, sent, response, outcome>> /\ UNCHANGED reading

(* The empty iterator that stands for an object without bytes.             *)
EndEmpty ==
  /\ phase = "body" /\ pending = 0 /\ handle = "closed"
  /\ phase' = "done"
  /\ outcome' = IF declared \in {Nothing, sent} THEN "complete" ELSE "aborted"
  /\ UNCHANGED <<request, object, handle, pending, sent, response>> /\ UNCHANGED reading

(* The client leaves, or the chunk exceeds Content-Length: the server      *)
(* drops the iterator and the suspended generator is closed.               *)
Drop ==
  /\ phase \in {"ready", "body"}
  /\ handle' = "closed" /\ phase' = "done" /\ outcome' = "aborted"
  /\ UNCHANGED <<request, object, pending, sent, response>> /\ UNCHANGED reading

ExchangeNext ==
  \/ Open \/ NotFound \/ NotSatisfiable \/ NotReadable \/ SkipBody \/ Preflight
  \/ OpenHandle \/ ReadChunk \/ EndOfStream \/ StreamFails \/ Deadline
  \/ SendHeaders \/ SendChunk \/ Pull \/ EndEmpty \/ Drop

ExchangeSpec == ExchangeInit /\ [][ExchangeNext]_exchange

(* Opening and reading a file return; a child may give nothing for ever,   *)
(* but its deadline passes.  The server goes on while the client takes     *)
(* what is sent, or drops the exchange.                                    *)
FairSpec ==
  /\ ExchangeSpec
  /\ WF_exchange(OpenHandle \/ (handle = "new" /\ StreamFails)) /\ WF_exchange(Deadline)
  /\ WF_exchange(request.scheme = "file" /\ (ReadChunk \/ EndOfStream \/ StreamFails))
  /\ WF_exchange(Open \/ NotFound \/ NotSatisfiable \/ NotReadable \/ SkipBody \/ Preflight)
  /\ WF_exchange(SendHeaders \/ SendChunk \/ Pull \/ EndEmpty \/ Drop)

--------------------------------------------------------------------------------
(* Properties.                                                             *)

(* What a range asks for, position by position.                            *)
AskedFor(range, total) ==
  {p \in 0..(total - 1) :
     \/ range.form = "absent"
     \/ range.form = "suffix" /\ total - p <= range.length
     \/ range.form = "open" /\ p >= range.first
     \/ range.form = "closed" /\ p \in range.first..range.last}

Sent == {window.offset + k : k \in 0..(sent - 1)}

(* A finished body of an undamaged object is, position by position, what   *)
(* the range asked for; a range is refused exactly when it asks for        *)
(* nothing; Content-Length is what the reader will give: what has been     *)
(* read and what is left add up to it; and where there is none, for the    *)
(* server to compare, a finished body is all of an object that exists: a   *)
(* child that fails after its last byte does not pass for a whole one.     *)
BodyIsWhatWasAsked ==
  /\ request.route = "content" =>
       /\ (outcome = "complete" /\ response \in {"200", "206"} /\ object = request.size) =>
            Sent = AskedFor(request.range, request.size)
       /\ response = "416" => AskedFor(request.range, request.size) = {}
       /\ response = "206" => AskedFor(request.range, request.size) # {}
  /\ (phase \notin {"request", "done"} /\ object = request.size /\ object # Nothing) =>
       read + Left = declared
  /\ (outcome = "complete" /\ response = "200" /\ declared = Nothing) => sent = object

(* Delivery headers are sent only over a chunk in hand, or for an object   *)
(* cataloged as empty or without size; an error response carries no byte.  *)
HeadersAreProven ==
  /\ (response \in {"200", "206"} /\ declared \notin {Nothing, 0}) => read > 0
  /\ response \in {"404", "416", "503"} => sent = 0 /\ read = 0

(* Whatever ends the exchange, no file descriptor and no child is left.    *)
(* Every variable keeps its type.                                          *)
NothingHeld == ExchangeTypeOK /\ (phase = "done" => handle \in {"none", "closed"})

(* Every exchange ends, although a child may hang.                         *)
ExchangeEnds == <>(phase = "done")
================================================================================
