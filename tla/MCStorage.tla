------------------------------ MODULE MCStorage ------------------------------
(* Instances of the modules of files, the buffer cache and terminals: each
   behaviour is one of one module, part; the others stay in a first state. *)
EXTENDS Fat32, TLC, Files, Inotify, Epoll, Transfer, Bcache, Tty, Screen

(* Names that fold to one another, a disk of four clusters. *)
NM == {"a", "aB", "AB", "ab~1"}
Names4 == NM \cup {".", ".."}
MCFold == ("a" :> "a") @@ ("aB" :> "ab") @@ ("AB" :> "ab") @@ ("ab~1" :> "ab~1") @@ ("." :> ".") @@ (".." :> "..")
MCExact == ("a" :> <<"A", 0>>) @@ ("aB" :> <<>>) @@ ("AB" :> <<"AB", 0>>) @@ ("ab~1" :> <<"AB", 1>>)
MCBasis == ("a" :> "A") @@ ("aB" :> "AB") @@ ("AB" :> "AB") @@ ("ab~1" :> "AB~1")
MCLfn == [n \in NM |-> 1]
MCHash == ("a" :> 1) @@ ("ab" :> 1) @@ ("ab~1" :> 2) @@ ("." :> 3) @@ (".." :> 4)
MCCases ==
  {[ops |-> {"create", "unlink", "rename"}, names |-> NM, left |-> 4, files |-> <<"ab~1">>, opened |-> "", counted |-> FALSE],
   [ops |-> {"mkdir", "create", "lookup", "release", "unlink", "rename"}, names |-> {"a", "AB"}, left |-> 5, files |-> <<>>, opened |-> "", counted |-> TRUE],
   [ops |-> {"mkdir", "write", "read", "truncate", "mmap", "unlink", "release"}, names |-> {"a", "AB"}, left |-> 4, files |-> <<"a">>, opened |-> "a", counted |-> TRUE],
   [ops |-> {"readdir", "create", "unlink", "rename", "statfs"}, names |-> {"a", "aB"}, left |-> 5, files |-> <<"a", "aB">>, opened |-> "", counted |-> FALSE]}

(* Two directories and a file, watched by one or two instances. *)
Nc(start, ops, masks, names, long) ==
  [start |-> start, ops |-> ops, masks |-> masks, long |-> long, paths |-> {p \in Paths : Len(p) = 2 => p[2] \in names}]
Tree0(S) == [p \in Paths |-> CASE p = <<"d">> /\ p \in S -> 1 [] p = <<"d", "a">> /\ p \in S -> 2 [] p = <<"e">> /\ p \in S -> 3 [] OTHER -> 0]
All == ChildOnly \cup {"modify", "deleteSelf", "moveSelf"}
MCNoteCases ==
  {Nc(Tree0({<<"d">>, <<"d", "a">>}), [init |-> 1, add |-> 2, rename |-> 2, unlink |-> 1], {All}, {"a"}, {}),
   Nc(Tree0({<<"d">>, <<"d", "a">>}), [init |-> 1, add |-> 2, rename |-> 1, unlink |-> 1, open |-> 1, write |-> 1, shut |-> 1], {All}, {"a"}, {}),
   Nc(Tree0({<<"d">>, <<"d", "a">>, <<"e">>}), [init |-> 1, add |-> 2, rename |-> 2, create |-> 1], {{"oneshot", "modify", "from", "to"}}, {"a"}, {"e"}),
   Nc(Tree0({<<"d">>, <<"d", "a">>}), [init |-> 1, add |-> 1, rename |-> 2, create |-> 1], {All \ {"deleteSelf"}}, {"a", "b"}, {}),
   Nc(Tree0({<<"d">>, <<"d", "a">>}), [init |-> 1, add |-> 1, open |-> 1, write |-> 3, create |-> 1, unlink |-> 1, read |-> 2], {All}, {"a", "b"}, {}),
   Nc(Tree0({<<"d">>, <<"d", "a">>}), [init |-> 2, add |-> 2, rm |-> 1, close |-> 1, open |-> 1, write |-> 2], {All, {"modify"}}, {}, {})}

(* Lists in lists, closed and duplicated descriptors, modes. *)
EpollCase(open, max, flags, left) == [open |-> open, max |-> max, flags |-> flags, left |-> left]
EpollCasesDef ==
  { EpollCase(<<"epoll", "epoll", "epoll">>, 2, {{}}, [ctl |-> 3, wait |-> 1]),
    EpollCase(<<"epoll", "epoll">>, 1, {{}}, [dup |-> 1, close |-> 2, ctl |-> 2, wait |-> 1]),
    EpollCase(<<"epoll", "epoll">>, 2, {{}}, [tty |-> 1, close |-> 1, ctl |-> 2, wait |-> 2, change |-> 1]),
    EpollCase(<<"epoll", "event">>, 1, {{}, {"et"}, {"oneshot"}, {"et", "oneshot"}, {"exclusive"}}, [event |-> 1, ctl |-> 2, wait |-> 2, change |-> 3]) }

(* Pairs of calls of two threads, or of one after the other. *)
File(data) == [kind |-> "file", data |-> data]
Open(node, pos, append) == [node |-> node, pos |-> pos, append |-> append]
Vec(call, way, f, off, lens) ==
  [call |-> call, way |-> way, in |-> f, off |-> off, lens |-> lens, name |-> IF off = NoOff THEN "v" ELSE "pv", flags |-> FALSE]
Transferring(call, in, inOff, out, outOff, len) == [call |-> call, in |-> in, inOff |-> inOff, out |-> out, outOff |-> outOff, len |-> len]
\* nodes: a file, another, an empty pipe, a pipe with data, a directory of four entries
XNodes == <<File(<<1, 2, 3, 4, 5>>), File(<<6>>), [kind |-> "pipe", data |-> <<>>], [kind |-> "pipe", data |-> <<7, 8, 9>>], [kind |-> "dir", data |-> <<2, 1, 3, 1>>]>>
XOpens == <<Open(1, 0, FALSE), Open(2, 1, FALSE), Open(3, 0, FALSE), Open(4, 0, FALSE), Open(5, 0, FALSE), Open(1, 2, FALSE), Open(2, 0, TRUE)>>
XCalls ==
  {Vec("rwv", "read", f, off, lens) : f \in {1, 4}, off \in {NoOff, 1}, lens \in {<<1, 2>>, <<0>>, <<3, 3>>}}
  \cup {Vec("rwv", "write", f, off, <<1, 2>>) : f \in {2, 3, 7}, off \in {NoOff, 0}}
  \cup {Vec("rwat", w, f, off, <<2>>) : w \in {"read", "write"}, f \in {2, 4, 6}, off \in {0, 5}}
  \cup {[Vec("rwv", "read", 1, o, <<2>>) EXCEPT !.name = "pv2", !.flags = g] : o \in {-2, NoOff, 1}, g \in BOOLEAN}
  \cup {Transferring("splice", 1, -2, 3, NoOff, 2), Transferring("range", 1, 0, 2, -2, 2)}
  \cup {Transferring("sendfile", i, o, x, NoOff, n) : i \in {1, 4, 6}, o \in {NoOff, 1}, x \in {2, 3}, n \in {1, 5}}
  \cup {Transferring("splice", i, o, x, p, 3) : i \in {1, 4}, o \in {NoOff, 2}, x \in {2, 3, 7}, p \in {NoOff, 0}}
  \cup {Transferring("range", i, o, x, p, n) : i \in {1, 4}, o \in {NoOff, 3}, x \in {2, 6, 7}, p \in {NoOff, 0}, n \in {2, 5}}
XSeeks == {[call |-> "seek", in |-> f, off |-> o, whence |-> w] : f \in {1, 3, 5}, o \in {-2, 0, 1}, w \in {"set", "cur", "end"}}
XDents == {[call |-> "dents", in |-> 5, len |-> n] : n \in {1, 3, 4, 9}}
XCase(a, b) == [nodes |-> XNodes, opens |-> XOpens, calls |-> <<a, b>>]
XBusy == {Transferring("sendfile", 6, NoOff, 2, NoOff, 5), Transferring("range", 6, NoOff, 2, NoOff, 5), Vec("rwv", "read", 1, 1, <<1, 2>>), Vec("rwv", "write", 3, NoOff, <<1, 2>>)}
TransferCasesDef ==
  {XCase(<<a>>, <<b>>) : a \in XCalls, b \in XBusy}
  \cup {XCase(<<a, b>>, <<>>) : a \in XCalls, b \in XBusy}
  \cup {XCase(<<a>>, <<b>>) : a \in {Transferring("sendfile", 1, NoOff, 3, NoOff, 5), Transferring("splice", 1, NoOff, 3, NoOff, 3)}, b \in XSeeks}
  \cup {XCase(<<a, b>>, <<>>) : a \in XDents, b \in XDents \cup XSeeks}
  \cup {XCase(<<a>>, <<b>>) : a \in {x \in XDents : x.len = 3}, b \in XDents \cup XSeeks}

(* Users of two devices, a sync of the first and the flusher, with errors. *)
MCSyncOf == (3 :> 1)
Bc(first, second, sync, flush, errors) ==
  [calls |-> (0 :> flush) @@ (1 :> first) @@ (2 :> second) @@ (3 :> sync), errors |-> errors, vals |-> {1}]
MCBcCases ==
  {Bc(<<"whole">>, <<"whole">>, <<"flush">>, <<"flusher">>, 1),
   Bc(<<"part", "direct">>, <<"whole", "read">>, <<>>, <<"flusher">>, 0),
   Bc(<<"whole", "whole", "read">>, <<>>, <<"flush">>, <<>>, 1),
   Bc(<<"part", "direct">>, <<>>, <<"flush">>, <<"flusher">>, 1),
   Bc(<<"part", "detach">>, <<"whole">>, <<"flush">>, <<"flusher">>, 1)}

(* Keys in both modes, readers, and shells that are started and end. *)
TtyMode(canon, isig, echo, ctl) == [canon |-> canon, isig |-> isig, echo |-> echo, ctl |-> ctl]
TtyModes == {TtyMode(c, i, TRUE, TRUE) : c, i \in BOOLEAN}
EchoModes == {TtyMode(TRUE, TRUE, e, c) : e, c \in BOOLEAN}
TtyCase(canon, keys, lens, left) == [canon |-> canon, echo |-> TRUE, modes |-> TtyModes, keys |-> keys, lens |-> lens, left |-> left]
TtyCasesDef ==
  { TtyCase(TRUE, {"a", "ctl", "tab", "nl", "erase", "kill", "end", "intr"}, {1, 3}, [key |-> 4, read |-> 2]),
    TtyCase(TRUE, {"a", "nl", "end"}, {2}, [key |-> 3, read |-> 3, ioctl |-> 2, signal |-> 1]),
    TtyCase(FALSE, {"a", "intr"}, {1}, [key |-> 3, read |-> 2, ioctl |-> 1]),
    [TtyCase(TRUE, {"a", "tab", "ctl", "nl", "erase", "kill"}, {2}, [key |-> 4, ioctl |-> 1]) EXCEPT !.modes = EchoModes],
    [TtyCase(TRUE, {"a", "nl", "erase"}, {2}, [key |-> 3, read |-> 1]) EXCEPT !.echo = FALSE],
    TtyCase(TRUE, {"a"}, {1}, [key |-> 1, switch |-> 4, exit |-> 2, timeout |-> 1]) }

(* Text, every control sequence, pieces of them, sizes and the refresher. *)
ScrCase(cols, rows, plain, inputs, sizes, left) ==
  [cols |-> cols, rows |-> rows, text |-> plain, bufs |-> inputs, sizes |-> sizes, left |-> left]
Sequences == {<<"esc", "[">> \o p \o <<f>> : p \in {<<>>, <<"1">>, <<"2">>, <<"9", "9", "9">>, <<"2", ";", "2">>},
              f \in {"A", "B", "C", "D", "E", "F", "G", "d", "H", "J", "K", "X", "@", "P", "L", "M", "S", "T", "s", "u", "m", "z"}}
ScreenCasesDef ==
  { ScrCase(2, 2, TRUE, {<<"a">>, <<"b", "a">>, <<"nl">>}, {}, [write |-> 5]),
    ScrCase(3, 2, FALSE, Sequences \cup {<<"a", "b">>}, {}, [write |-> 2, printf |-> 0]),
    ScrCase(3, 2, FALSE, {<<"esc">>, <<"[">>, <<"9">>, <<";">>, <<"H">>, <<"?">>, <<"]">>, <<"bel">>, <<"utf8">>, <<"tab">>, <<"7">>, <<"c">>}, {}, [write |-> 4]),
    ScrCase(2, 2, FALSE, {<<"a">>, <<"esc", "7">>, <<"esc", "8", "b">>, <<"nl">>}, {<<3, 1>>, <<1, 3>>}, [write |-> 3, mode |-> 2]),
    ScrCase(1, 2, FALSE, {<<"a">>, <<"nl">>}, {<<1, 1>>}, [write |-> 3, printf |-> 1, switch |-> 1, mode |-> 1, update |-> 1, start |-> 1]) }

VARIABLE part

(* The cases of the part that runs; another part has one of its own. *)
Of(name, cases) == IF part = name THEN cases ELSE {CHOOSE c \in cases : TRUE}
StorageInit ==
  /\ part \in {"fat32", "files", "inotify", "epoll", "transfer", "bcache", "tty", "screen"}
  /\ FatInit(IF part = "fat32" THEN FatCases ELSE {c \in FatCases : c.files = <<>>})
  /\ FilesInit
  /\ NoteInit(Of("inotify", NoteCases))
  /\ EpInit(Of("epoll", EpollCases))
  /\ BcInit(Of("bcache", BcCases))
  /\ TtyInit(Of("tty", TtyCases))
  /\ ScreenInit(IF part = "screen" THEN ScreenCases ELSE {c \in ScreenCases : c.text})
  /\ XferInit(Of("transfer", TransferCases))
OtherParts ==
  /\ UNCHANGED part
  /\ (part # "fat32" => UNCHANGED fatVars)
  /\ (part # "files" => UNCHANGED filesVars)
  /\ (part # "inotify" => UNCHANGED noteVars)
  /\ (part # "epoll" => UNCHANGED epVars)
  /\ (part # "transfer" => UNCHANGED xferVars)
  /\ (part # "bcache" => UNCHANGED bcVars)
  /\ (part # "tty" => UNCHANGED ttyVars)
  /\ (part # "screen" => UNCHANGED scrVars)
StorageNext ==
  \/ part = "fat32" /\ FatNext /\ OtherParts
  \/ part = "files" /\ FilesNext /\ OtherParts
  \/ part = "inotify" /\ NoteNext /\ OtherParts
  \/ part = "epoll" /\ EpNext /\ OtherParts
  \/ part = "transfer" /\ XferNext /\ OtherParts
  \/ part = "bcache" /\ BcNext /\ OtherParts
  \/ part = "tty" /\ TtyNext /\ OtherParts
  \/ part = "screen" /\ ScreenNext /\ OtherParts
StorageSpec == StorageInit /\ [][StorageNext]_<<part, fatVars, filesVars, noteVars, epVars, xferVars, bcVars, ttyVars, scrVars>>
-------------------------------------------------------------------------------
(* Properties: what each part promises *)

(* The file system (fat32.c): clusters have one owner, counts and indexes are
   exact, files read as written, names are unique, an open inode follows its
   entry, table changes reach the disk, and readdir misses no entry. *)
FatSound ==
  /\ [](part = "fat32" => /\ FatTypeOK /\ ClustersOwned /\ FreeCountExact /\ ReadExact
                          /\ IndexExact /\ NamesUnique /\ InodeMatchesEntry /\ TableFlushed)
  /\ ReaddirComplete

(* Descriptor tables (fd.c, sys_fs.c): counts of files and tables are exact,
   a call of a thread alone keeps its file, an exclusive creation succeeds
   once, and exec closes nothing of another process. *)
FilesSound ==
  /\ [](part = "files" => FilesTypeOK /\ FileRefsExact /\ TableRefsExact /\ AloneFileLives /\ ExclusiveOnce)
  /\ ExecKeepsOthers

(* inotify: a watch follows its object through renames of it and of what it
   lies in, and each change is told once to each instance that asked. *)
InotifySound == part = "inotify" => NoteTypeOK /\ WatchFollows /\ EventsTold

(* epoll (sys_epoll.c): lists form no loop, no two threads wait for each
   other's locks, files that need the kernel lock are polled under it, a polled
   file stays open, and edges and one-shots are reported once. *)
EpollSound ==
  part = "epoll" => EpollAcyclic /\ EpollNoDeadlock /\ EpollKernelLocked /\ EpollPinned /\ EpollOnce

(* Calls that move data (sys_fs.c): the bytes moved are the bytes of the
   source at the place asked for, positions move by what was moved or not at
   all, and a directory read in pieces gives every entry once. *)
TransferSound == part = "transfer" => TransferExact /\ PositionsKept /\ DirOnce

===============================================================================
