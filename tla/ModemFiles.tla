----------------------------- MODULE ModemFiles ----------------------------
(***************************************************************************)
(* The modem's file service (modem/ccci-userspace/fsd/ccci_fsd.c): one     *)
(* thread that answers each request with the operating system's doing.     *)
(* Files are known to the modem by small integers; a second table of       *)
(* handles serves the compound writes and a third the searches.  What the  *)
(* files hold is left out: which descriptor stands for which of them, and  *)
(* what becomes of the tree when a call fails half-way, is kept.           *)
(***************************************************************************)
EXTENDS Integers, FiniteSets, FiniteSetsExt, TLC

CONSTANTS Parent,        \* the tree: each path's parent, the root its own
          Dirs,          \* the paths that are directories when they exist
          FS_HANDLE_MAX, MAX_OPEN_HANDLES, FS_FIND_MAX,
          MaxDepth       \* FS_XDELETE_MAX_DEPTH

VARIABLE s

Paths == DOMAIN Parent
Root == CHOOSE p \in Paths : Parent[p] = p
Slots == 1 .. FS_HANDLE_MAX - 1
Compound == 1 .. MAX_OPEN_HANDLES
Searches == 1 .. FS_FIND_MAX - 1
ENOENT == -9
GENERIC == -18
PARAM == -2
EMFILE == -5
OVERFLOW == -7

\* handles_init, fs_handle_init, fs_find_init.  fds: the process's open files;
\* held: what the modem believes its handles to be; wiped: the paths a
\* recursive delete has just answered to be gone.
Init == s = [tree |-> {Root}, fds |-> <<>>, handles |-> [h \in Slots |-> -1],
             cmpt |-> [h \in Compound |-> -1], finds |-> [h \in Searches |-> [dir |-> "closed", left |-> {}]],
             held |-> <<>>, answer |-> 0, wiped |-> {}]

Children(d) == {p \in Paths \ {Root} : Parent[p] = d}
Under == LET Grow(S) == S \cup UNION {Children(x) : x \in S}
         IN [p \in Paths |-> Grow(Grow(Grow({p})))]
Depth == [p \in Paths |-> Cardinality({x \in Paths : p \in Under[x]})]
Present(t, p) == p \in t.tree
CanBeMade(t, p) == p = Root \/ Parent[p] \in t.tree

\* What a failed open() is answered with.
ErrnoToFsResult(t, p) == IF Present(t, p) THEN GENERIC ELSE ENOENT

Answer(t, code) == [t EXCEPT !.answer = code, !.wiped = {}]
NewFd(t) == CHOOSE n \in 0 .. FS_HANDLE_MAX + MAX_OPEN_HANDLES :
              n \notin DOMAIN t.fds /\ \A k \in 0 .. n - 1 : k \in DOMAIN t.fds
Closing(t, gone) == [t EXCEPT !.fds = [n \in DOMAIN @ \ gone |-> @[n]]]

\* fs_open_flags and open(): a file that is missing is made when the flags
\* say so.  The result is the empty set when open() fails.
Opens(t, p, create, fails) ==
  IF fails \/ (p \notin t.tree /\ ~(create /\ CanBeMade(t, p) /\ p \notin Dirs)) THEN {}
  ELSE {[t EXCEPT !.tree = @ \cup {p}, !.fds = @ @@ (NewFd(t) :> p)]}

\* Mutant of HandleOpen: the last slot is taken when none is free.
HandleOpenReuses(t, p, create, fails) ==
  LET free == {h \in Slots : t.handles[h] < 0}
      h == IF free = {} THEN Max(Slots) ELSE Min(free)
  IN IF Opens(t, p, create, fails) = {} THEN Answer(t, GENERIC)
     ELSE CHOOSE v \in {Answer([u EXCEPT !.handles[h] = NewFd(t), !.held = (h :> p) @@ @], h)
                          : u \in Opens(t, p, create, fails)} : TRUE

\* The first free slot; the descriptor goes straight into it.
HandleOpen(t, p, create, fails) ==
  LET free == {h \in Slots : t.handles[h] < 0}
      h == Min(free)
  IN IF free = {} THEN Answer(t, EMFILE)
     ELSE IF Opens(t, p, create, fails) = {}
     THEN Answer(t, ErrnoToFsResult(t, p))
     ELSE CHOOSE v \in {Answer([u EXCEPT !.handles[h] = NewFd(t), !.held = (h :> p) @@ @], h)
                          : u \in Opens(t, p, create, fails)} : TRUE

IsOpen(t, h) == h \in Slots /\ t.handles[h] >= 0

HandleClose(t, h) ==
  IF ~IsOpen(t, h) THEN Answer(t, PARAM)
  ELSE Answer([Closing(t, {t.handles[h]}) EXCEPT
                 !.handles[h] = -1, !.held = [k \in DOMAIN @ \ {h} |-> @[k]]], 0)

\* CLOSE_ALL closes the modem's handles, not those of the compound writes.
HandleCloseAll(t) ==
  Answer([Closing(t, {t.handles[h] : h \in Slots}) EXCEPT
            !.handles = [h \in Slots |-> -1], !.held = <<>>], 0)

\* READ, WRITE and SEEK reach the file only through an open handle.
HandleUse(t, h, fails) == Answer(t, IF IsOpen(t, h) /\ ~fails THEN 0 ELSE GENERIC)

\* The compound writes' own table: its free slots, and the descriptor in one.
HandleAlloc(t) == {k \in Compound : t.cmpt[k] < 0}
HandleGetFd(t, h) == IF h \in Compound THEN t.cmpt[h] ELSE -1

\* handle_cmpt_write: on a handle of its own table or a file it opens; only a
\* request that says so closes it, and an error on the way leaves it open.
CmptWrite(t, p, h, bits, fails) ==
  LET free == HandleAlloc(t)
      made == Opens(t, p, "create" \in bits, "open" \in fails)
      k == IF h >= 0 THEN h ELSE Min(free)
      u == IF h >= 0 THEN t
           ELSE [(CHOOSE v \in made : TRUE) EXCEPT !.cmpt[k] = NewFd(t)]
  IN IF h >= 0 /\ HandleGetFd(t, h) < 0 THEN Answer(t, PARAM)
     ELSE IF h < 0 /\ "open" \notin bits THEN Answer(t, PARAM)
     ELSE IF h < 0 /\ made = {} THEN Answer(t, ErrnoToFsResult(t, p))
     ELSE IF h < 0 /\ free = {} THEN Answer([t EXCEPT !.tree = @ \cup {p}], OVERFLOW)
     ELSE IF fails \cap {"seek", "write"} # {} THEN Answer(u, GENERIC)
     ELSE IF "close" \in bits THEN Answer([Closing(u, {u.cmpt[k]}) EXCEPT !.cmpt[k] = -1], 0)
     ELSE Answer(u, 0)

\* handle_cmpt_read always opens and always closes.
CmptRead(t, p, bits, fails) ==
  LET made == Opens(t, p, "create" \in bits, "open" \in fails)
  IN IF "open" \notin bits THEN Answer(t, PARAM)
     ELSE IF made = {} THEN Answer(t, ErrnoToFsResult(t, p))
     ELSE Answer([t EXCEPT !.tree = @ \cup {p}], IF fails = {} THEN 0 ELSE GENERIC)

\* FIND_FIRST splits the pattern off and opens the directory; FIND_NEXT hands
\* out what opendir() saw of it and is still to be read.
FindFirst(t, d) ==
  LET free == {h \in Searches : t.finds[h].dir = "closed"}
  IN IF free = {} THEN Answer(t, EMFILE)
     ELSE IF ~Present(t, d) \/ d \notin Dirs THEN Answer(t, ErrnoToFsResult(t, d))
     ELSE Answer([t EXCEPT !.finds[Min(free)] = [dir |-> d, left |-> Children(d) \cap t.tree]], Min(free))

FindNext(t, h) ==
  IF h \notin Searches \/ t.finds[h].left = {} THEN Answer(t, ENOENT)
  ELSE Answer([t EXCEPT !.finds[h].left = @ \ {CHOOSE x \in @ : TRUE}], 0)

FindClose(t, h) ==
  IF h \notin Searches \/ t.finds[h].dir = "closed" THEN Answer(t, PARAM)
  ELSE Answer([t EXCEPT !.finds[h] = [dir |-> "closed", left |-> {}]], 0)

\* An entry that exists already, of either kind, is success.
CreateDir(t, p, fails) ==
  IF ~Present(t, p) /\ (fails \/ p \notin Dirs \/ ~CanBeMade(t, p)) THEN Answer(t, GENERIC)
  ELSE Answer([t EXCEPT !.tree = @ \cup {p}], 0)

RemoveDir(t, p, fails) ==
  IF ~Present(t, p) THEN Answer(t, ENOENT)
  ELSE IF p \notin Dirs \/ p = Root \/ fails \/ Children(p) \cap t.tree # {} THEN Answer(t, GENERIC)
  ELSE Answer([t EXCEPT !.tree = @ \ {p}], 0)

Delete(t, p, fails) ==
  IF ~Present(t, p) THEN Answer(t, ENOENT)
  ELSE IF p \in Dirs \/ fails THEN Answer(t, GENERIC)
  ELSE Answer([t EXCEPT !.tree = @ \ {p}], 0)

\* fs_rm_recursive: the results of the children are dropped, but a directory
\* that still has one cannot be removed; below the depth limit nothing is.
RmRecursive(t, p, stuck) ==
  LET kept == stuck \cup {x \in Under[p] : Depth[x] - Depth[p] > MaxDepth}
      goes == {x \in Under[p] \cap t.tree : Under[x] \cap t.tree \cap kept = {}}
  IN IF ~Present(t, p) THEN Answer(t, ENOENT)
     ELSE IF p \notin goes THEN Answer([t EXCEPT !.tree = @ \ goes], GENERIC)
     ELSE [Answer([t EXCEPT !.tree = @ \ goes], 0) EXCEPT !.wiped = Under[p]]

\* RENAME and MOVE are one rename(); a directory takes what it holds along,
\* which the model allows for empty ones.
Rename(t, p, q, fails) ==
  IF ~Present(t, p) \/ ~CanBeMade(t, q) THEN Answer(t, ENOENT)
  ELSE IF fails \/ (p \in Dirs) # (q \in Dirs) \/ p = Root \/ q = Root
          \/ q \in Under[p] \ {p}
          \/ Children(p) \cap t.tree # {} \/ Children(q) \cap t.tree # {}
  THEN Answer(t, GENERIC)
  ELSE Answer([t EXCEPT !.tree = (@ \ {p}) \cup {q}], 0)

\* Sizes, counts, attributes and details change nothing; a folder counts the
\* files down to the depth limit, and zero below it.
FolderSize(t, p) ==
  Cardinality({x \in (Under[p] \cap t.tree) \ Dirs : Depth[x] - Depth[p] <= MaxDepth + 1})
Query(t, p, op) ==
  Answer(t, IF ~Present(t, p) THEN ENOENT
            ELSE IF op = "count" THEN IF p \in Dirs THEN Cardinality(Children(p) \cap t.tree) ELSE ENOENT
            ELSE IF op = "folder" THEN IF p \in Dirs THEN FolderSize(t, p) ELSE ENOENT
            ELSE IF op = "attributes" /\ p \in Dirs THEN 16
            ELSE 0)

\* Drives, clusters, one-time-programmable memory, the binary region, the
\* recycle area and the four constants: answered without any state.
Constant(t, op) ==
  Answer(t, CASE op \in {"otp_read", "restore"} -> ENOENT
              [] op \in {"otp_write", "bad_drive"} -> GENERIC
              [] op \in {"bin_region", "drive_type"} -> PARAM
              [] op = "get_drive" -> 90 [] op = "uk" -> 1 [] OTHER -> 0)

-----------------------------------------------------------------------------
\* One turn of main()'s loop each.  A frame that is short, of another channel
\* or a continuation is dropped without an answer and is no step.
Open == \E p \in Paths, b \in BOOLEAN, fails \in BOOLEAN : s' = HandleOpen(s, p, b, fails)
Close == \/ \E h \in 0 .. FS_HANDLE_MAX : s' = HandleClose(s, h)
         \/ s' = HandleCloseAll(s)
SeekReadWrite == \E h \in 0 .. FS_HANDLE_MAX, fails \in BOOLEAN : s' = HandleUse(s, h, fails)

CompoundWrite ==
  \E p \in Paths \ Dirs, h \in -1 .. MAX_OPEN_HANDLES + 1,
     bits \in SUBSET {"open", "create", "close"}, fails \in {{}, {"open"}, {"seek"}, {"write"}} :
    s' = CmptWrite(s, p, h, bits, fails)
CompoundRead ==
  \E p \in Paths \ Dirs, bits \in SUBSET {"open", "create"}, fails \in {{}, {"open"}, {"seek"}} :
    s' = CmptRead(s, p, bits, fails)

\* Before the request is parsed: a frame with the write bit, or else the read
\* bit, where a compound request has it is served on one placeholder file.
Sniffed ==
  LET p == CHOOSE x \in Paths : x \notin Dirs
  IN \/ \E h \in -1 .. MAX_OPEN_HANDLES + 1, bits \in SUBSET {"open", "create", "close"}, fails \in {{}, {"write"}} :
          s' = CmptWrite(s, p, h, bits, fails)
     \/ \E bits \in SUBSET {"open", "create"} : s' = CmptRead(s, p, bits, {})

Find == \/ \E d \in Paths : s' = FindFirst(s, d)
        \/ \E h \in 0 .. FS_FIND_MAX : s' = FindNext(s, h) \/ s' = FindClose(s, h)
MakeOrDelete ==
  \E p \in Paths, fails \in BOOLEAN :
    s' = CreateDir(s, p, fails) \/ s' = RemoveDir(s, p, fails) \/ s' = Delete(s, p, fails)
DeleteTree == \E p \in Paths, stuck \in SUBSET (Paths \ Dirs) : s' = RmRecursive(s, p, stuck)
Move == \E p, q \in Paths, fails \in BOOLEAN : s' = Rename(s, p, q, fails)

SizeOrCount == \E p \in Paths, op \in {"count", "folder", "size"} : s' = Query(s, p, op)
DiskInfo == \E op \in {"disk", "bad_drive"} : s' = Constant(s, op)
Detail == \E p \in Paths : s' = Query(s, p, "detail")
Attributes == \E p \in Paths : s' = Query(s, p, "attributes")
Geometry == \E op \in {"get_drive", "drive_type", "cluster", "bad_drive"} : s' = Constant(s, op)
Otp == s' = Constant(s, "otp_read") \/ s' = Constant(s, "otp_write")
Fixed == \E op \in {"uk", "lf", "bin_region"} : s' = Constant(s, op)
Restore == s' = Constant(s, "restore")

\* Segments that do not add up, an operation nobody knows, or a path that is
\* not one of a drive, climbs, or (the second of two) cannot be read.
NotServed == s' = Answer(s, ENOENT)
BadPath == \E code \in {ENOENT, PARAM} : s' = Answer(s, code)

Next ==
  \/ Open \/ Close \/ SeekReadWrite \/ CompoundWrite \/ CompoundRead \/ Sniffed
  \/ Find \/ MakeOrDelete \/ DeleteTree \/ Move
  \/ SizeOrCount \/ DiskInfo \/ Detail \/ Attributes \/ Geometry \/ Otp \/ Fixed \/ Restore
  \/ NotServed \/ BadPath

-----------------------------------------------------------------------------
\* The modem's handles and the daemon's table never part: each handle the
\* modem was given and has not closed names an open descriptor of the very
\* file it was opened for, no two share one, and every other slot is free,
\* whatever failed and however full the table is.
LedgerAgrees ==
  /\ DOMAIN s.held = {h \in Slots : s.handles[h] >= 0}
  /\ \A h \in DOMAIN s.held : s.handles[h] \in DOMAIN s.fds /\ s.fds[s.handles[h]] = s.held[h]
  /\ \A h, k \in DOMAIN s.held : s.handles[h] = s.handles[k] => h = k

\* No request leaves a descriptor that is in neither table, so the process
\* never has more files open than its tables have slots.
DescriptorsAccounted ==
  LET inTables == ({s.handles[h] : h \in Slots} \cup {s.cmpt[h] : h \in Compound}) \ {-1}
  IN DOMAIN s.fds = inTables /\ \A h \in Slots, k \in Compound : s.handles[h] = s.cmpt[k] => s.cmpt[k] = -1

\* A recursive delete that is answered with success has left nothing of the
\* tree, however deep it is and whichever file could not be removed; the
\* tree itself stays connected.
DeletedWhole ==
  /\ s.wiped \cap s.tree = {}
  /\ \A p \in s.tree : Parent[p] \in s.tree
=============================================================================
