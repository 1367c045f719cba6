------------------------------ MODULE Transfer ------------------------------
(* System calls that move several pieces of data (sys_fs.c): vectors,        *)
(* positioned reads and writes, sendfile, splice, copy_file_range, and       *)
(* getdents64.  They change the position of an open file for a while, and    *)
(* each piece may sleep, be short or fail.  A thread runs one call; between  *)
(* its pieces other threads run.  Descriptors stay open meanwhile.           *)
EXTENDS Integers, Sequences, FiniteSets, SequencesExt

CONSTANTS
  XThreads,
  PAGE_CHUNK, COPY_CHUNK, \* bytes moved at once by sendfile and by copy_range
  SizeMod,                \* positions are numbers modulo this
  FileMax, PipeRoom,      \* bytes the disk has for a file, bytes a pipe holds
  TransferCases           \* nodes, open files and the calls of each thread

VARIABLES
  nodes,    \* node -> kind and contents
  opens,    \* open file -> node, position, append flag
  moves,    \* thread -> its call
  transferCase
xferVars == <<nodes, opens, moves, transferCase>>

NoOff == -1
Rest == [at |-> "none", call |-> "none", in |-> 0, out |-> 0, inOff |-> NoOff, outOff |-> NoOff, lens |-> <<>>, len |-> 0, done |-> 0,
         got |-> <<>>, put |-> 0, saved |-> <<0, 0>>, begin |-> <<0, 0>>, sent |-> <<>>, alone |-> TRUE]
XferInit(cases) ==
  /\ transferCase \in cases
  /\ nodes = transferCase.nodes /\ opens = transferCase.opens
  /\ moves = [t \in XThreads |-> Rest]

Least(a, b) == IF a < b THEN a ELSE b
NodeOf(f) == nodes[opens[f].node]
Kind(f) == NodeOf(f).kind
(* What one read of file f at its position gives; a write's number of bytes, *)
(* -1 for an error.                                                          *)
vfs_read(f, n) ==
  IF Kind(f) = "pipe" THEN SubSeq(NodeOf(f).data, 1, Least(n, Len(NodeOf(f).data)))
  ELSE SubSeq(NodeOf(f).data, opens[f].pos + 1, Least(opens[f].pos + n, Len(NodeOf(f).data)))
vfs_write(f, n) ==
  LET room == IF Kind(f) = "pipe" THEN PipeRoom - Len(NodeOf(f).data) ELSE FileMax - opens[f].pos
  IN IF room <= 0 THEN -1 ELSE Least(n, room)
(* Contents after reading n bytes, after writing bytes at a position. *)
Taken(f, n) == IF Kind(f) = "pipe" THEN SubSeq(NodeOf(f).data, n + 1, Len(NodeOf(f).data)) ELSE NodeOf(f).data
Stored(f, pos, bytes) ==
  LET d == NodeOf(f).data  size == IF pos + Len(bytes) > Len(d) THEN pos + Len(bytes) ELSE Len(d)
  IN IF Kind(f) = "pipe" THEN d \o bytes
     ELSE [i \in 1..size |-> IF i \in (pos + 1)..(pos + Len(bytes)) THEN bytes[i - pos] ELSE IF i <= Len(d) THEN d[i] ELSE 0]
Advances(f) == Kind(f) = "file"

(* Thread t's step gives its record m, contents ns and open files os.  Calls *)
(* of others on a file or node that changed are no longer alone (ghost).     *)
Undisturbed(c, ns, os) == \A f \in {c.in, c.out} \ {0} : os[f] = opens[f] /\ ns[os[f].node] = NodeOf(f)
Stepped(t, m, ns, os) ==
  /\ nodes' = ns /\ opens' = os
  /\ moves' = [u \in XThreads |-> IF u = t THEN m ELSE [moves[u] EXCEPT !.alone = @ /\ Undisturbed(moves[u], ns, os)]]
With(f, data) == [nodes EXCEPT ![opens[f].node].data = data]
At(os, f, pos) == [os EXCEPT ![f].pos = pos]
Back(os, f, n) == [os EXCEPT ![f].pos = (@ - n) % SizeMod]  \* size_t: another thread may have rewound it

Ready(t, call) ==
  /\ moves[t] = Rest /\ transferCase.calls[t] # <<>> /\ Head(transferCase.calls[t]).call = call
  /\ transferCase' = [transferCase EXCEPT !.calls[t] = Tail(@)]
Call(t) == Head(transferCase.calls[t])
Same == UNCHANGED transferCase
Refused == UNCHANGED <<nodes, opens, moves>>
Ended(m) == [m EXCEPT !.at = "return"]
(* The caller sees the result; the thread is free for its next call. *)
Return(t) == moves[t].at = "return" /\ moves' = [moves EXCEPT ![t] = Rest] /\ UNCHANGED <<nodes, opens, transferCase>>

-----------------------------------------------------------------------------
(* readv, writev, preadv, pwritev, pread, pwrite: one piece for each length. *)

Restored(m, os) == IF m.inOff # NoOff THEN At(os, m.in, m.saved[1]) ELSE os
Vector(t, c) ==
  LET os == IF c.off # NoOff THEN At(opens, c.in, c.off) ELSE opens
  IN Stepped(t, [Rest EXCEPT !.at = c.way, !.call = c.way, !.in = c.in, !.inOff = c.off, !.lens = SelectSeq(c.lens, LAMBDA n : n > 0),
                             !.saved = <<opens[c.in].pos, 0>>, !.begin = <<os[c.in].pos, 0>>], nodes, os)
(* readv has no offset, preadv needs one, preadv2 takes both and no flags. *)
Accepted(c) == CASE c.name = "v" -> TRUE [] c.name = "pv" -> c.off >= 0 [] OTHER -> c.off >= -1 /\ ~c.flags
rw_vector(t) ==
  /\ Ready(t, "rwv")
  /\ IF ~Accepted(Call(t)) \/ (Call(t).off # NoOff /\ Kind(Call(t).in) # "file") THEN Refused ELSE Vector(t, Call(t))
rw_at(t) ==
  /\ Ready(t, "rwat")
  /\ IF Call(t).off < 0 \/ Kind(Call(t).in) # "file" THEN Refused ELSE Vector(t, Call(t))
(* After a piece of n bytes: the next one, or the end and the old position. *)
AfterPiece(t, m, n, ns, os) ==
  IF n = Head(m.lens) /\ Len(m.lens) > 1 THEN Stepped(t, [m EXCEPT !.lens = Tail(@)], ns, os)
  ELSE Stepped(t, Ended(m), ns, Restored(m, os))
ReadOnce(t) ==
  /\ moves[t].at = "read" /\ moves[t].lens # <<>> /\ Same
  /\ \E bytes \in {vfs_read(moves[t].in, Head(moves[t].lens)), <<>>} :
       LET f == moves[t].in  n == Len(bytes)
       IN AfterPiece(t, [moves[t] EXCEPT !.sent = @ \o bytes], n, With(f, Taken(f, n)),
                     IF Advances(f) THEN At(opens, f, opens[f].pos + n) ELSE opens)
(* A file opened for appending is written at its end. *)
Byte(t, k) == 10 * t + k
sys_write(t) ==
  /\ moves[t].at = "write" /\ moves[t].lens # <<>> /\ Same
  /\ LET f == moves[t].in
         os == IF opens[f].append /\ Advances(f) THEN At(opens, f, Len(NodeOf(f).data)) ELSE opens
         room == IF Advances(f) THEN FileMax - os[f].pos ELSE PipeRoom - Len(NodeOf(f).data)
         n == IF room < 0 THEN 0 ELSE Least(room, Head(moves[t].lens))
         bytes == [k \in 1..n |-> Byte(t, Len(moves[t].sent) + k)]
     IN AfterPiece(t, [moves[t] EXCEPT !.sent = @ \o bytes], n, With(f, Stored(f, os[f].pos, bytes)),
                   IF Advances(f) THEN At(os, f, os[f].pos + n) ELSE os)
NothingAsked(t) == moves[t].at \in {"read", "write"} /\ moves[t].lens = <<>> /\ Same /\ Stepped(t, Ended(moves[t]), nodes, Restored(moves[t], opens))

-----------------------------------------------------------------------------
(* sendfile: a page is read and written, what was not written is unread.     *)

(* Faulty variant: what was not written stays read. *)
NotUnread(os, f, n) == os
Unread(os, f, n) == Back(os, f, n)
sys_sendfile(t) ==
  /\ Ready(t, "sendfile")
  /\ LET c == Call(t)  os == IF c.inOff # NoOff THEN At(opens, c.in, c.inOff) ELSE opens
     IN IF Kind(c.in) # "file" THEN Refused
        ELSE Stepped(t, [Rest EXCEPT !.at = "page", !.call = "sendfile", !.in = c.in, !.out = c.out, !.inOff = c.inOff, !.len = c.len,
                                     !.saved = <<opens[c.in].pos, opens[c.out].pos>>, !.begin = <<os[c.in].pos, opens[c.out].pos>>], nodes, os)
SendEnds(m, os) == IF m.inOff = NoOff THEN os ELSE At(os, m.in, m.saved[1])
SendOffset(m) == IF m.inOff = NoOff THEN NoOff ELSE m.inOff + m.done
Finished(t, m, ns, os) == Stepped(t, Ended([m EXCEPT !.inOff = SendOffset(m)]), ns, SendEnds(m, os))
SendRead(t) ==
  /\ moves[t].at = "page" /\ Same
  /\ LET m == moves[t]
     IN \E bytes \in {vfs_read(m.in, Least(m.len - m.done, PAGE_CHUNK)), <<>>} :
          IF bytes = <<>> THEN Finished(t, m, nodes, opens)
          ELSE Stepped(t, [m EXCEPT !.at = "page out", !.got = bytes], nodes, At(opens, m.in, opens[m.in].pos + Len(bytes)))
SendWrite(t) ==
  /\ moves[t].at = "page out" /\ Same
  /\ LET m == moves[t]  n == Len(m.got)
     IN \E w \in {vfs_write(m.out, n), -1} :
          LET k == IF w < 0 THEN 0 ELSE w
              new == [m EXCEPT !.done = @ + k, !.sent = @ \o SubSeq(m.got, 1, k), !.got = <<>>]
              os == IF Advances(m.out) THEN At(opens, m.out, opens[m.out].pos + k) ELSE opens
              ns == IF k = 0 THEN nodes ELSE With(m.out, Stored(m.out, opens[m.out].pos, SubSeq(m.got, 1, k)))
          IN IF k < n THEN Finished(t, new, ns, Unread(os, m.in, n - k))
             ELSE IF new.done = m.len THEN Finished(t, new, ns, os)
             ELSE Stepped(t, [new EXCEPT !.at = "page"], ns, os)

-----------------------------------------------------------------------------
(* splice and copy_file_range: with offsets, each read and write changes the *)
(* file's position around itself.                                            *)

BadOffset(c) == c.inOff < NoOff \/ c.outOff < NoOff
sys_splice(t) ==
  /\ Ready(t, "splice")
  /\ LET c == Call(t)  ip == Kind(c.in) = "pipe"  op == Kind(c.out) = "pipe"
     IN IF (~ip /\ ~op) \/ (ip /\ c.inOff # NoOff) \/ (op /\ c.outOff # NoOff) \/ opens[c.out].append \/ c.len = 0 \/ BadOffset(c) THEN Refused
        ELSE Stepped(t, [Rest EXCEPT !.at = "copy", !.call = "splice", !.in = c.in, !.out = c.out, !.inOff = c.inOff, !.outOff = c.outOff, !.len = c.len,
                           !.saved = <<opens[c.in].pos, opens[c.out].pos>>,
                           !.begin = <<IF c.inOff = NoOff THEN opens[c.in].pos ELSE c.inOff, IF c.outOff = NoOff THEN opens[c.out].pos ELSE c.outOff>>],
                     nodes, opens)
Overlaps(a, b, len) == a < b + len /\ b < a + len
(* Both files have positions, which are set at the end if no offset was given. *)
sys_copy_file_range(t) ==
  /\ Ready(t, "range")
  /\ LET c == Call(t)
         a == IF c.inOff = NoOff THEN opens[c.in].pos ELSE c.inOff
         b == IF c.outOff = NoOff THEN opens[c.out].pos ELSE c.outOff
     IN IF \/ opens[c.out].append \/ Kind(c.in) # "file" \/ Kind(c.out) # "file" \/ c.len = 0 \/ BadOffset(c)
           \/ opens[c.in].node = opens[c.out].node /\ Overlaps(a, b, c.len)
        THEN Refused
        ELSE Stepped(t, [Rest EXCEPT !.at = "copy", !.call = "range", !.in = c.in, !.out = c.out, !.inOff = a, !.outOff = b, !.len = c.len,
                           !.lens = <<c.inOff, c.outOff>>, !.saved = <<opens[c.in].pos, opens[c.out].pos>>, !.begin = <<a, b>>], nodes, opens)

(* copy_range: first the position is set, then the data are moved and the   *)
(* position put back.                                                        *)
Reposition(t) ==
  /\ moves[t].at = "copy" /\ Same
  /\ LET m == moves[t]
     IN Stepped(t, [m EXCEPT !.at = "copy in", !.saved[1] = opens[m.in].pos], nodes, IF m.inOff = NoOff THEN opens ELSE At(opens, m.in, m.inOff))
(* The end of the call; copy_file_range then sets the positions. *)
Settled(m, os) ==
  IF m.call # "range" \/ m.done = 0 THEN os
  ELSE LET i == IF m.lens[1] = NoOff THEN At(os, m.in, m.inOff) ELSE os
       IN IF m.lens[2] = NoOff THEN At(i, m.out, m.outOff) ELSE i
CopyRead(t) ==
  /\ moves[t].at = "copy in" /\ Same
  /\ LET m == moves[t]
         back == IF m.inOff = NoOff THEN opens ELSE At(opens, m.in, m.saved[1])
     IN \E bytes \in {vfs_read(m.in, Least(m.len - m.done, COPY_CHUNK)), <<>>} :
          LET n == Len(bytes)  moved == IF m.inOff = NoOff /\ Advances(m.in) THEN At(opens, m.in, opens[m.in].pos + n) ELSE back
          IN IF n = 0 THEN Stepped(t, Ended(m), nodes, Settled(m, back))
             ELSE Stepped(t, [m EXCEPT !.at = "put", !.got = bytes, !.put = 0, !.inOff = IF @ = NoOff THEN @ ELSE @ + n],
                          With(m.in, Taken(m.in, n)), moved)
PutStarts(t) ==
  /\ moves[t].at = "put" /\ Same
  /\ LET m == moves[t]
     IN Stepped(t, [m EXCEPT !.at = "copy out", !.saved[2] = opens[m.out].pos], nodes, IF m.outOff = NoOff THEN opens ELSE At(opens, m.out, m.outOff))
OutNext(off, k) == IF off = NoOff THEN off ELSE off + k
OffsetBack(m, n) == IF m.inOff = NoOff THEN m ELSE [m EXCEPT !.inOff = @ - n]
(* All was put: go on, unless this was a splice or a short read.  Nothing    *)
(* more goes: what was read and not put is unread, except from a pipe.       *)
CopyWrite(t) ==
  /\ moves[t].at = "copy out" /\ Same
  /\ LET m == moves[t]  n == Len(m.got)
     IN \E w \in {vfs_write(m.out, n - m.put), -1} :
          LET k == IF w < 0 THEN 0 ELSE w
              bytes == SubSeq(m.got, m.put + 1, m.put + k)
              os == IF m.outOff # NoOff THEN At(opens, m.out, m.saved[2])
                    ELSE IF Advances(m.out) THEN At(opens, m.out, opens[m.out].pos + k) ELSE opens
              new == [m EXCEPT !.put = @ + k, !.done = @ + k, !.outOff = OutNext(@, k), !.sent = @ \o bytes]
              ns == IF k = 0 THEN nodes ELSE With(m.out, Stored(m.out, opens[m.out].pos, bytes))
              short == n < Least(m.len - (new.done - new.put), COPY_CHUNK)
          IN IF k = 0
             THEN Stepped(t, Ended(OffsetBack(new, n - new.put)), ns,
                          Settled(OffsetBack(new, n - new.put), IF m.inOff = NoOff /\ Advances(m.in) THEN Back(os, m.in, n - new.put) ELSE os))
             ELSE IF new.put < n THEN Stepped(t, [new EXCEPT !.at = "put"], ns, os)
             ELSE IF m.call = "splice" \/ short \/ new.done = m.len THEN Stepped(t, Ended(new), ns, Settled(new, os))
             ELSE Stepped(t, [new EXCEPT !.at = "copy"], ns, os)

-----------------------------------------------------------------------------
(* getdents64: entries (each with the length of its record) as long as they  *)
(* fit; the entry that does not, or cannot be copied out, is unread.  The     *)
(* position is noted, the entry searched under the lock of the file system,  *)
(* which may sleep before and after it reads the position, and copied out,   *)
(* which may sleep too.                                                      *)

sys_getdents64(t) ==
  /\ Ready(t, "dents")
  /\ LET c == Call(t)
     IN IF Kind(c.in) # "dir" THEN Refused
        ELSE Stepped(t, [Rest EXCEPT !.at = "dents", !.call = "dents", !.in = c.in, !.len = c.len,
                                     !.saved = <<opens[c.in].pos, 0>>, !.begin = <<opens[c.in].pos, 0>>], nodes, opens)
locked_readdir(t) ==
  /\ moves[t].at = "dents" /\ Same /\ \A u \in XThreads : moves[u].at # "entry"
  /\ Stepped(t, [moves[t] EXCEPT !.at = "entry", !.put = opens[moves[t].in].pos], nodes, opens)
DirBack(m, os) == At(os, m.in, m.saved[1])
(* The search may fail, and ends at the end of the directory. *)
DirEntry(t) ==
  /\ moves[t].at = "entry" /\ Same
  /\ LET m == moves[t]  d == NodeOf(m.in).data
     IN \/ Stepped(t, Ended(m), nodes, opens)
        \/ m.put >= Len(d) /\ Stepped(t, Ended(m), nodes, At(opens, m.in, Len(d)))
        \/ m.put < Len(d) /\ LET os == At(opens, m.in, m.put + 1)
                             IN IF m.done + d[m.put + 1] > m.len THEN Stepped(t, Ended(m), nodes, DirBack(m, os))
                                ELSE Stepped(t, [m EXCEPT !.at = "entry out"], nodes, os)
DirCopyOut(t) ==
  /\ moves[t].at = "entry out" /\ Same
  /\ LET m == moves[t]
     IN \/ Stepped(t, Ended(m), nodes, DirBack(m, opens))
        \/ Stepped(t, [m EXCEPT !.at = "dents", !.done = @ + NodeOf(m.in).data[m.put + 1], !.sent = Append(@, m.put + 1),
                                !.saved = <<opens[m.in].pos, 0>>], nodes, opens)
lseek(t) ==
  /\ Ready(t, "seek")
  /\ LET c == Call(t)
         base == CASE c.whence = "set" -> 0 [] c.whence = "cur" -> opens[c.in].pos [] OTHER -> Len(NodeOf(c.in).data)
     IN IF \/ Kind(c.in) = "pipe" \/ base + c.off < 0
           \/ Kind(c.in) = "dir" /\ ~(c.whence = "set" /\ c.off = 0)
        THEN Refused
        ELSE /\ Stepped(t, moves[t], nodes, At(opens, c.in, base + c.off))

XferNext ==
  \E t \in XThreads :
    \/ rw_vector(t) \/ rw_at(t) \/ ReadOnce(t) \/ sys_write(t) \/ NothingAsked(t) \/ Return(t)
    \/ sys_sendfile(t) \/ SendRead(t) \/ SendWrite(t)
    \/ sys_splice(t) \/ sys_copy_file_range(t) \/ Reposition(t) \/ CopyRead(t) \/ PutStarts(t) \/ CopyWrite(t)
    \/ sys_getdents64(t) \/ locked_readdir(t) \/ DirEntry(t) \/ DirCopyOut(t) \/ lseek(t)

-----------------------------------------------------------------------------
Done(t) == moves[t].at = "return" /\ moves[t].alone
Holds(f, start, bytes) ==
  Kind(f) = "file" => \A i \in DOMAIN bytes : start + i \in DOMAIN NodeOf(f).data /\ NodeOf(f).data[start + i] = bytes[i]

(* A call nobody interfered with moved exactly the bytes it counts, from     *)
(* where it started and to where it started: what was read and could not be  *)
(* written, because the write was short or failed, is not counted.           *)
TransferExact ==
  \A t \in XThreads : Done(t) =>
    LET m == moves[t]
    IN CASE m.call = "read" -> Holds(m.in, m.begin[1], m.sent)
         [] m.call = "write" -> opens[m.in].append \/ Holds(m.in, m.begin[1], m.sent)
         [] m.call = "dents" -> TRUE
         [] OTHER -> /\ m.done = Len(m.sent)
                     /\ opens[m.in].node # opens[m.out].node => Holds(m.in, m.begin[1], m.sent)
                     /\ Holds(m.out, m.begin[2], m.sent)

(* The position of an open file moves by what was transferred; a call with   *)
(* an offset of its own leaves it alone and moves the offset instead         *)
(* (rw_at, sys_sendfile, copy_range, sys_copy_file_range).                   *)
Given(m) == CASE m.call = "range" -> <<m.lens[1] # NoOff, m.lens[2] # NoOff>>
              [] OTHER -> <<m.inOff # NoOff, m.outOff # NoOff>>
PositionsKept ==
  \A t \in XThreads : Done(t) =>
    LET m == moves[t]  n == Len(m.sent)
        right(f, i) == Kind(f) = "file" => opens[f].pos = (IF Given(m)[i] THEN m.saved[i] ELSE m.begin[i] + n)
    IN CASE m.call \in {"read", "write"} -> opens[m.in].append \/ right(m.in, 1)
         [] m.call = "dents" -> TRUE
         [] OTHER -> right(m.in, 1) /\ right(m.out, 2) /\ (Given(m)[1] => m.inOff = m.begin[1] + n)

(* A call of getdents64 that nobody interfered with returns the entries from *)
(* its position on without a gap, and leaves the position right behind the   *)
(* last one it returned, whatever fits and wherever copying out fails: the   *)
(* next call goes on there.                                                  *)
DirOnce ==
  \A t \in XThreads : Done(t) /\ moves[t].call = "dents" =>
    LET m == moves[t]
    IN /\ m.sent = [i \in DOMAIN m.sent |-> m.begin[1] + i]
       /\ opens[m.in].pos = m.begin[1] + Len(m.sent) \/ (m.sent = <<>> /\ m.begin[1] >= Len(NodeOf(m.in).data))
=============================================================================
