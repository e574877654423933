------------------------------- MODULE Ranges -------------------------------
(***************************************************************************)
(* How a file is cut up: by the Range header of a download from local      *)
(* storage, by a client that reads it page after page through MCP, and by  *)
(* the part size of a multipart upload.  A file may be overwritten between *)
(* any two reads, and its old object deleted.                              *)
(*                                                                         *)
(* A byte is its position.  The digits of a header are left out: what is   *)
(* not a number of the program's width is "bad".                           *)
(***************************************************************************)
EXTENDS Integers, Sequences, FiniteSets

CONSTANTS
    MaxSize,      \* bound on the sizes of files
    MaxUpload,    \* bound on the sizes of uploads, 5 TiB in the code
    MaxVersions,  \* bound on the contents the file has had
    BasePart,     \* the least part size, 16 MiB in the code
    PartUnit,     \* what larger ones are rounded up to, 1 MiB in the code
    PartCount     \* 10000 in the code

ASSUME RangesAssumption ==
    /\ {MaxSize, MaxUpload, MaxVersions} \subseteq Nat
    /\ {BasePart, PartUnit, PartCount} \subseteq Nat \ {0}

VARIABLES
    versions,     \* the sizes of the contents so far, the current one last
    deleted,      \* versions whose object the worker has deleted
    fetch,        \* a request that has read the row of its blob
    reply,        \* the last answer
    pages         \* what a client that reads the file in pages has got

rangesVars == <<versions, deleted, fetch, reply, pages>>

Sizes == 0..MaxSize
Whole(size) == 0..(size - 1)
Bytes(range) == range.start..range.end

Unset == -1
Numbers == {Unset} \cup 0..(MaxSize + 1)
Headers == [form : {"none", "bad"}, first : {Unset}, last : {Unset}]
           \cup [form : {"range"}, first : Numbers, last : Numbers]
Limits == 1..2

NoRequest == [kind |-> "none", version |-> 0, header |-> [form |-> "none", first |-> Unset, last |-> Unset],
              offset |-> 0, limit |-> 0]
NoReply == [status |-> 0, request |-> NoRequest, bytes |-> {}, size |-> 0, part |-> 0, parts |-> 0]
NoPages == [seen |-> {}, bytes |-> {}, next |-> 0, eof |-> FALSE]

RangesInit ==
    /\ versions \in [{1} -> Sizes]
    /\ deleted = {}
    /\ fetch = NoRequest
    /\ reply = NoReply
    /\ pages = NoPages

-----------------------------------------------------------------------------
(* PARTS.  createUpload answers with the part size, by which the client    *)
(* slices its file, and the number of parts.                               *)
CeilingOf(n, d) == (n + d - 1) \div d

multipartPartSize(size) ==
    LET needed == CeilingOf(size, PartCount)
    IN  IF needed > BasePart THEN CeilingOf(needed, PartUnit) * PartUnit ELSE BasePart

-----------------------------------------------------------------------------
(* RANGES.  Start and end of what is sent, or "none" or "bad".             *)
Plain(form) == [form |-> form, start |-> 0, end |-> 0]
Span(start, end) == [form |-> "range", start |-> start, end |-> end]
Least(a, b) == IF a < b THEN a ELSE b

(* Mutant: an end right behind the file's last byte is let through.        *)
LastByteOrNext(h, size) ==
    IF h.last = Unset \/ h.last > size THEN size - 1 ELSE h.last

LastByte(h, size) ==
    IF h.last = Unset \/ h.last >= size THEN size - 1 ELSE h.last

parseRange(h, size) ==
    LET suffix == h.first = Unset
        bad == \/ h.form = "bad"
               \/ suffix /\ h.last <= 0
               \/ ~ suffix /\ (h.first >= size \/ (h.last # Unset /\ h.last < h.first))
    IN  IF h.form = "none" THEN Plain("none")
        ELSE IF bad THEN Plain("bad")
        ELSE IF suffix THEN Span(size - Least(h.last, size), size - 1)
        ELSE Span(h.first, LastByte(h, size))

-----------------------------------------------------------------------------
(* Both kinds of read take the blob of the node first and open its object  *)
(* later; its size is the row's, which is the object's.                    *)
ReadRow(request) ==
    /\ fetch = NoRequest
    /\ fetch' = [request EXCEPT !.version = Len(versions)]
    /\ reply' = NoReply
    /\ UNCHANGED <<versions, deleted, pages>>

AskContent(h) == ReadRow([NoRequest EXCEPT !.kind = "content", !.header = h])

(* The client goes on where the last page ended, or starts again.          *)
AskPage(limit) ==
    /\ ~ pages.eof
    /\ ReadRow([NoRequest EXCEPT !.kind = "page", !.offset = pages.next, !.limit = limit])

StartAgain ==
    /\ pages # NoPages /\ fetch.kind # "page"
    /\ pages' = NoPages
    /\ UNCHANGED <<versions, deleted, fetch, reply>>

Readable(version, span) ==
    /\ version \notin deleted
    /\ span.form = "range" =>
        0 <= span.start /\ span.start <= span.end /\ span.end < versions[version]

Replies(status, bytes) ==
    /\ reply' = [NoReply EXCEPT !.status = status, !.request = fetch, !.bytes = bytes]
    /\ fetch' = NoRequest

(* localContent and publicLocalContent.                                    *)
SendContent ==
    LET size == versions[fetch.version]
        span == parseRange(fetch.header, size)
    IN  /\ fetch.kind = "content"
        /\ IF span.form = "bad" THEN Replies(416, {})
           ELSE IF ~ Readable(fetch.version, span) THEN Replies(503, {})
           ELSE IF span.form = "none" THEN Replies(200, Whole(size))
           ELSE Replies(206, Bytes(span))
        /\ UNCHANGED <<versions, deleted, pages>>

(* mcpReadFile.                                                            *)
SendPage ==
    LET size == versions[fetch.version]
        length == Least(fetch.limit, size - fetch.offset)
        span == Span(fetch.offset, fetch.offset + length - 1)
    IN  /\ fetch.kind = "page"
        /\ IF fetch.offset > size
           THEN Replies(422, {}) /\ UNCHANGED pages
           ELSE IF length > 0 /\ ~ Readable(fetch.version, span)
           THEN Replies(503, {}) /\ UNCHANGED pages
           ELSE /\ Replies(200, Bytes(span))
                /\ pages' = [seen |-> pages.seen \cup {fetch.version},
                             bytes |-> pages.bytes \cup Bytes(span),
                             next |-> fetch.offset + length,
                             eof |-> fetch.offset + length = size]
        /\ UNCHANGED <<versions, deleted>>

(* createUpload, when it comes to a multipart upload.                      *)
PlanParts(size) ==
    /\ fetch = NoRequest
    /\ reply' = [NoReply EXCEPT !.status = 201, !.size = size,
                                !.part = multipartPartSize(size),
                                !.parts = CeilingOf(size, multipartPartSize(size))]
    /\ UNCHANGED <<versions, deleted, fetch, pages>>

Overwritten(size) ==
    /\ Len(versions) < MaxVersions
    /\ versions' = Append(versions, size)
    /\ UNCHANGED <<deleted, fetch, reply, pages>>

ObjectDeleted(version) ==
    /\ version \in 1..(Len(versions) - 1) \ deleted
    /\ deleted' = deleted \cup {version}
    /\ UNCHANGED <<versions, fetch, reply, pages>>

RangesNext ==
    \/ \E h \in Headers : AskContent(h)
    \/ \E limit \in Limits : AskPage(limit)
    \/ SendContent \/ SendPage \/ StartAgain
    \/ \E size \in 1..MaxUpload : PlanParts(size)
    \/ \E size \in Sizes : Overwritten(size)
    \/ \E version \in 1..MaxVersions : ObjectDeleted(version)

RangesSpec == RangesInit /\ [][RangesNext]_rangesVars

-----------------------------------------------------------------------------
(* What a header asks for, as bytes: those of the file from first to last, *)
(* or its last ones.                                                       *)
Wanted(h, size) ==
    {i \in Whole(size) : IF h.first = Unset THEN i >= size - h.last
                         ELSE i >= h.first /\ (h.last = Unset \/ i <= h.last)}

Meaningful(h) == h.form = "range" /\ IF h.first = Unset THEN h.last > 0
                                     ELSE h.last = Unset \/ h.first <= h.last

(* A download is all of the file, or exactly the bytes its Range header    *)
(* names, or 416 if there are none; 503 only says that the object is gone. *)
(* With one exception: the last n bytes of an empty file are 503, where    *)
(* docs/api.md:140 has 416, because parseRange yields 0 to -1.             *)
RangeIsExact ==
    LET h == reply.request.header
        size == versions[reply.request.version]
        wanted == Wanted(h, size)
    IN  reply.request.kind = "content" =>
        \/ reply.status = 503 /\ reply.request.version \in deleted
        \/ h.form = "none" /\ reply.status = 200 /\ reply.bytes = Whole(size)
        \/ h.form = "range" /\ Meaningful(h) /\ wanted # {}
            /\ reply.status = 206 /\ reply.bytes = wanted
        \/ (h.form = "bad" \/ ~ Meaningful(h) \/ wanted = {}) /\ h.form # "none"
            /\ reply.status = IF size = 0 /\ h.first = Unset /\ Meaningful(h) THEN 503 ELSE 416

(* Pages up to the end, all of one version, are that version.              *)
PagesAreTheFile ==
    \A v \in DOMAIN versions :
        pages.eof /\ pages.seen = {v} => pages.bytes = Whole(versions[v])

(* The parts of an upload are no smaller than the least part, at most as   *)
(* many as a provider takes, none is empty, and together they are it.      *)
PartsFit ==
    reply.status = 201 =>
        /\ reply.part >= BasePart
        /\ reply.parts <= PartCount
        /\ (reply.parts - 1) * reply.part < reply.size
        /\ reply.size <= reply.parts * reply.part

(* Whichever way a file is cut, the pieces are the file: the bytes of a    *)
(* Range, the pages of a reader, the parts of an upload.                   *)
PiecesAreTheFile == RangeIsExact /\ PagesAreTheFile /\ PartsFit
=============================================================================
