-------------------------------- MODULE Inode --------------------------------
(***************************************************************************)
(* Inodes, directories and path names (fs.c) under the system calls that   *)
(* use them (sysfile.c): open, create, mkdir, link, unlink, chdir, close.  *)
(*                                                                         *)
(* A step is one ilock() with what the code does up to the next ilock() or *)
(* iput(); a lock that the code gives back before then is taken and given  *)
(* back within the step.  iput() is a step, or two when it frees.  An      *)
(* inode's fields on disk and in memory are one, since a change is written *)
(* through under the lock and only lock holders read.                      *)
(* A path is a start and a number of elements; the names are chosen as     *)
(* namex() comes to them.  Every directory has "..", "." is left out.      *)
(*                                                                         *)
(* pc[p] is idle, namex, or the system call's place:                       *)
(*   open, opened, chdir, link, linkto, linkbad, unlink, unlink_ip,        *)
(*   unlinked, create, create_old, create_new, made                        *)
(* todo[p] are the inodes p passes to iput() before it goes on.            *)
(*                                                                         *)
(* Left out: the blocks of files, transactions (Log), sys_mknod() (create  *)
(* without dots), and iget()'s panic at NINODE inodes in use.              *)
(***************************************************************************)
EXTENDS Naturals, Sequences, FiniteSets, TLC

CONSTANTS Proc, Name,
          ninodes,  \* inodes of the file system (struct superblock)
          NFILE,    \* size of the file table
          PathLen,  \* bound on the elements of a path,
          LongCalls,  \* of these calls; the others' paths have one
          MaxLink,  \* no link() is called when a file has more
          StaleDotDot  \* may a path go through the ".." of a removed directory?

Inum == 1..(ninodes - 1)   \* inode 0 is never used
NoInum == 0
ROOTINO == 1
Elem == Name \cup {".."}

ASSUME InodeAssumption ==
  /\ ninodes \in Nat /\ ninodes > 1
  /\ NFILE \in Nat /\ PathLen \in Nat \ {0} /\ MaxLink \in Nat /\ StaleDotDot \in BOOLEAN
  /\ ".." \notin Name
  /\ IsFiniteSet(Proc)

VARIABLES type, nlink, ent,     \* struct dinode, and the directory entries
          ref, busy, valid,     \* struct inode: ref, I_BUSY, I_VALID
          cwd, open,            \* the process's references that stay
          pc, op, n, name,      \* control; elements left; last element
          dp, ip,               \* the locals of the system call
          todo, putting,        \* pending iput()s; inside iput()'s itrunc()
          panicked

diskVars == <<type, nlink, ent>>
cacheVars == <<ref, busy, valid>>
callVars == <<pc, op, n, name, dp, ip>>
vars == <<diskVars, cacheVars, cwd, open, callVars, todo, putting, panicked>>

Labels == {"idle", "namex", "open", "opened", "chdir", "link", "linkto", "linkbad",
           "unlink", "unlink_ip", "unlinked", "create", "create_old", "create_new",
           "made"}
Ops == {"open", "creat", "mkdir", "link", "unlink", "chdir"}

NoEntries == [e \in Elem |-> NoInum]

(* The file system mkfs makes, with every process at the root. *)
Init ==
  /\ type = [i \in Inum |-> IF i = ROOTINO THEN "dir" ELSE "free"]
  /\ nlink = [i \in Inum |-> IF i = ROOTINO THEN 1 ELSE 0]
  /\ ent = [i \in Inum |-> IF i = ROOTINO THEN [NoEntries EXCEPT ![".."] = ROOTINO]
                           ELSE NoEntries]
  /\ ref = [i \in Inum |-> IF i = ROOTINO THEN Cardinality(Proc) ELSE 0]
  /\ busy = {} /\ valid = {}
  /\ cwd = [p \in Proc |-> ROOTINO]
  /\ open = [p \in Proc |-> NoInum]
  /\ pc = [p \in Proc |-> "idle"]
  /\ op = [p \in Proc |-> "none"]
  /\ n = [p \in Proc |-> 0]
  /\ name = [p \in Proc |-> ".."]
  /\ dp = [p \in Proc |-> NoInum]
  /\ ip = [p \in Proc |-> NoInum]
  /\ todo = [p \in Proc |-> <<>>]
  /\ putting = [p \in Proc |-> FALSE]
  /\ panicked = "no"

At(p, c) == panicked = "no" /\ pc[p] = c /\ todo[p] = <<>>

(* The next place of p's call; which call it is matters to namex() and     *)
(* create() only.                                                          *)
GoTo(p, c) ==
  /\ pc' = [pc EXCEPT ![p] = c]
  /\ op' = [op EXCEPT ![p] = IF c \in {"create", "create_old", "create_new"} THEN @
                             ELSE "none"]

(* iget(), idup(): one more reference to i. *)
Ref(i) == [ref EXCEPT ![i] = @ + 1]

(* dirlookup() returns what iget() returns for the entry's inode. *)
Found(i) == Ref(i)

(* ilock() succeeds: not busy, and read from the disk if it was not valid. *)
Lockable(i) == i \notin busy /\ (i \in valid \/ type[i] # "free")

(* Where a call goes when a path is not there. *)
Failed(p) == IF op[p] = "linkto" THEN "linkbad" ELSE "idle"

(* nameiparent() and the place its caller goes on at. *)
ForParent(o) == o \in {"creat", "mkdir", "unlink", "linkto"}
Label(o) == IF o \in {"creat", "mkdir"} THEN "create" ELSE o

-----------------------------------------------------------------------------
PathLens(o) == IF o \in LongCalls THEN 1..PathLen ELSE {1}

(* Bound: what a process calls while it has a file open, besides close().   *)
CallsWithOpen == {"unlink"}

(* A system call with a path begins: namex() starts at / or at the cwd.    *)
call(p, o) ==
  /\ At(p, "idle")
  /\ open[p] # NoInum => o \in CallsWithOpen
  /\ o = "link" => \A i \in Inum : type[i] = "file" => nlink[i] < MaxLink
  /\ \E i \in {ROOTINO, cwd[p]} : dp' = [dp EXCEPT ![p] = i] /\ ref' = Ref(i)
  /\ \E k \in PathLens(o) : n' = [n EXCEPT ![p] = k]
  /\ op' = [op EXCEPT ![p] = o]
  /\ pc' = [pc EXCEPT ![p] = "namex"]
  /\ UNCHANGED <<diskVars, busy, valid, cwd, open, name, ip, todo, putting, panicked>>

(* The same with the path "/", which has no element and no parent: a call  *)
(* that needs the parent returns at once.                                  *)
call_root(p, o) ==
  /\ At(p, "idle")
  /\ ~ForParent(o) /\ open[p] = NoInum
  /\ ip' = [ip EXCEPT ![p] = ROOTINO] /\ ref' = Ref(ROOTINO)
  /\ pc' = [pc EXCEPT ![p] = o]
  /\ UNCHANGED <<diskVars, busy, valid, cwd, open, op, n, name, dp, todo, putting, panicked>>

(* The names an inode has in directories. *)
Names(i) == {x \in Inum \X Name : ent[x[1]][x[2]] = i}

Removed(i) == i # ROOTINO /\ Names(i) = {}

(* The name is there, and callers of the system look it up. *)
Present(d, e) == ent[d][e] # NoInum /\ (e = ".." /\ Removed(d) => StaleDotDot)

(* One turn of the loop of namex(): not a directory or no such name. *)
namex_fail(p) ==
  /\ At(p, "namex") /\ Lockable(dp[p])
  /\ \/ type[dp[p]] # "dir"
     \/ ~(ForParent(op[p]) /\ n[p] = 1) /\ \E e \in Elem : ent[dp[p]][e] = NoInum
  /\ valid' = valid \cup {dp[p]}
  /\ todo' = [todo EXCEPT ![p] = <<dp[p]>>]
  /\ dp' = [dp EXCEPT ![p] = NoInum]
  /\ n' = [n EXCEPT ![p] = 0]
  /\ GoTo(p, Failed(p))
  /\ UNCHANGED <<diskVars, ref, busy, cwd, open, name, ip, putting, panicked>>

(* The turn that stops one level early, for nameiparent(). *)
namex_parent(p) ==
  /\ At(p, "namex") /\ Lockable(dp[p])
  /\ type[dp[p]] = "dir" /\ ForParent(op[p]) /\ n[p] = 1
  /\ valid' = valid \cup {dp[p]}
  /\ n' = [n EXCEPT ![p] = 0]
  /\ GoTo(p, Label(op[p]))
  /\ UNCHANGED <<diskVars, ref, busy, cwd, open, name, dp, ip, todo, putting, panicked>>

(* dirlookup() finds the next inode; the directory is unlocked and put.    *)
namex_next(p) ==
  /\ At(p, "namex") /\ Lockable(dp[p])
  /\ type[dp[p]] = "dir" /\ ~(ForParent(op[p]) /\ n[p] = 1)
  /\ \E e \in Elem :
       /\ Present(dp[p], e)
       /\ ref' = Found(ent[dp[p]][e])
       /\ IF n[p] > 1
            THEN /\ dp' = [dp EXCEPT ![p] = ent[dp[p]][e]]
                 /\ UNCHANGED <<pc, op, ip>>
            ELSE /\ dp' = [dp EXCEPT ![p] = NoInum]
                 /\ ip' = [ip EXCEPT ![p] = ent[dp[p]][e]]
                 /\ GoTo(p, Label(op[p]))
  /\ valid' = valid \cup {dp[p]}
  /\ todo' = [todo EXCEPT ![p] = <<dp[p]>>]
  /\ n' = [n EXCEPT ![p] = @ - 1]
  /\ UNCHANGED <<diskVars, busy, cwd, open, name, putting, panicked>>

namex(p) == namex_fail(p) \/ namex_parent(p) \/ namex_next(p)

-----------------------------------------------------------------------------
(* iunlockput(ip) and the end of the call; ip is locked, or was only for   *)
(* this step.                                                              *)
PutIpAndReturn(p) ==
  /\ busy' = busy \ {ip[p]}
  /\ todo' = [todo EXCEPT ![p] = <<ip[p]>>]
  /\ ip' = [ip EXCEPT ![p] = NoInum]
  /\ GoTo(p, "idle")

(* ilock(ip) and go on with the lock at c. *)
LockIpAndGo(p, c) ==
  /\ busy' = busy \cup {ip[p]}
  /\ GoTo(p, c)
  /\ UNCHANGED <<todo, ip>>

FileTableFull == Cardinality({q \in Proc : open[q] # NoInum}) >= NFILE

(* sys_open() after namei(): a directory opens only O_RDONLY. *)
sys_open(p) ==
  /\ At(p, "open") /\ Lockable(ip[p])
  /\ valid' = valid \cup {ip[p]}
  /\ \/ type[ip[p]] = "dir" /\ PutIpAndReturn(p)
     \/ LockIpAndGo(p, "opened")
  /\ UNCHANGED <<diskVars, ref, cwd, open, n, name, dp, putting, panicked>>

(* sys_open() with ip locked: filealloc() fails when the table is full. *)
sys_open_file(p) ==
  /\ At(p, "opened")
  /\ \/ FileTableFull /\ PutIpAndReturn(p) /\ UNCHANGED open
     \/ /\ ~FileTableFull
        /\ open' = [open EXCEPT ![p] = ip[p]]
        /\ busy' = busy \ {ip[p]}
        /\ ip' = [ip EXCEPT ![p] = NoInum]
        /\ GoTo(p, "idle")
        /\ UNCHANGED todo
  /\ UNCHANGED <<diskVars, ref, valid, cwd, n, name, dp, putting, panicked>>

(* sys_close() and the FD_INODE part of fileclose(). *)
sys_close(p) ==
  /\ At(p, "idle") /\ open[p] # NoInum
  /\ todo' = [todo EXCEPT ![p] = <<open[p]>>]
  /\ open' = [open EXCEPT ![p] = NoInum]
  /\ UNCHANGED <<diskVars, cacheVars, cwd, callVars, putting, panicked>>

sys_chdir(p) ==
  /\ At(p, "chdir") /\ Lockable(ip[p])
  /\ valid' = valid \cup {ip[p]}
  /\ \/ type[ip[p]] # "dir" /\ PutIpAndReturn(p) /\ UNCHANGED cwd
     \/ /\ type[ip[p]] = "dir"
        /\ todo' = [todo EXCEPT ![p] = <<cwd[p]>>]
        /\ cwd' = [cwd EXCEPT ![p] = ip[p]]
        /\ ip' = [ip EXCEPT ![p] = NoInum]
        /\ GoTo(p, "idle")
        /\ UNCHANGED busy
  /\ UNCHANGED <<diskVars, ref, open, n, name, dp, putting, panicked>>

-----------------------------------------------------------------------------
(* sys_link(), the old path: a directory is refused; else count the link   *)
(* and look the new path up, with ip unlocked.                             *)
Linked_late(i) == nlink
Linked(i) == [nlink EXCEPT ![i] = @ + 1]

sys_link(p) ==
  /\ At(p, "link") /\ Lockable(ip[p])
  /\ valid' = valid \cup {ip[p]}
  /\ \/ /\ type[ip[p]] = "dir" /\ PutIpAndReturn(p)
        /\ UNCHANGED <<nlink, ref, n, dp>>
     \/ /\ type[ip[p]] # "dir"
        /\ nlink' = Linked(ip[p])
        /\ \E i \in {ROOTINO, cwd[p]} : dp' = [dp EXCEPT ![p] = i] /\ ref' = Ref(i)
        /\ \E k \in PathLens("linkto") : n' = [n EXCEPT ![p] = k]
        /\ op' = [op EXCEPT ![p] = "linkto"]
        /\ pc' = [pc EXCEPT ![p] = "namex"]
        /\ UNCHANGED <<busy, todo, ip>>
  /\ UNCHANGED <<type, ent, cwd, open, name, putting, panicked>>

(* sys_link(), the new path: dirlink(), which refuses a name that is       *)
(* there (the reference its dirlookup() takes is put before dp's).         *)
sys_link_new(p) ==
  /\ At(p, "linkto") /\ Lockable(dp[p])
  /\ valid' = valid \cup {dp[p]}
  /\ \E e \in Elem :
       \/ /\ Present(dp[p], e)
          /\ ref' = Ref(ent[dp[p]][e])
          /\ todo' = [todo EXCEPT ![p] = <<ent[dp[p]][e], dp[p]>>]
          /\ GoTo(p, "linkbad")
          /\ UNCHANGED <<ent, ip>>
       \/ /\ ent[dp[p]][e] = NoInum
          /\ ent' = [ent EXCEPT ![dp[p]][e] = ip[p]]
          /\ todo' = [todo EXCEPT ![p] = <<dp[p], ip[p]>>]
          /\ ip' = [ip EXCEPT ![p] = NoInum]
          /\ GoTo(p, "idle")
          /\ UNCHANGED ref
  /\ dp' = [dp EXCEPT ![p] = NoInum]
  /\ UNCHANGED <<type, nlink, busy, cwd, open, n, name, putting, panicked>>

(* sys_link(), bad: take the link back. *)
sys_link_bad(p) ==
  /\ At(p, "linkbad") /\ Lockable(ip[p])
  /\ valid' = valid \cup {ip[p]}
  /\ nlink' = [nlink EXCEPT ![ip[p]] = @ - 1]
  /\ PutIpAndReturn(p)
  /\ UNCHANGED <<type, ent, ref, cwd, open, n, name, dp, putting, panicked>>

-----------------------------------------------------------------------------
(* sys_unlink() with the parent locked: ".." and a missing name are bad.   *)
sys_unlink(p) ==
  /\ At(p, "unlink") /\ Lockable(dp[p])
  /\ valid' = valid \cup {dp[p]}
  /\ \E e \in Elem :
       \/ /\ e = ".." \/ ent[dp[p]][e] = NoInum
          /\ todo' = [todo EXCEPT ![p] = <<dp[p]>>]
          /\ dp' = [dp EXCEPT ![p] = NoInum]
          /\ GoTo(p, "idle")
          /\ UNCHANGED <<ref, busy, name, ip>>
       \/ /\ e # ".." /\ ent[dp[p]][e] # NoInum
          /\ ref' = Found(ent[dp[p]][e])
          /\ ip' = [ip EXCEPT ![p] = ent[dp[p]][e]]
          /\ name' = [name EXCEPT ![p] = e]
          /\ busy' = busy \cup {dp[p]}
          /\ GoTo(p, "unlink_ip")
          /\ UNCHANGED <<todo, dp>>
  /\ UNCHANGED <<diskVars, cwd, open, n, putting, panicked>>

isdirempty(i) == \A e \in Name : ent[i][e] = NoInum

(* The locks of sys_unlink() after its refusal of a directory not empty.   *)
Refused_locked(p) == busy
Refused(p) == busy \ {dp[p]}

(* A directory's parent loses the link of its "..". *)
NoDotDot(p) == [nlink EXCEPT ![dp[p]] = IF type[ip[p]] = "dir" THEN @ - 1 ELSE @]

(* sys_unlink() with both locked.  The name goes, with the ".." it counted *)
(* for; ip stays locked while dp is put.                                   *)
sys_unlink_ip(p) ==
  /\ At(p, "unlink_ip") /\ Lockable(ip[p]) /\ nlink[ip[p]] >= 1
  /\ IF type[ip[p]] = "dir" /\ ~isdirempty(ip[p])
       THEN /\ busy' = Refused(p)
            /\ todo' = [todo EXCEPT ![p] = <<ip[p], dp[p]>>]
            /\ ip' = [ip EXCEPT ![p] = NoInum]
            /\ GoTo(p, "idle")
            /\ UNCHANGED <<nlink, ent>>
       ELSE /\ ent' = [ent EXCEPT ![dp[p]][name[p]] = NoInum]
            /\ nlink' = NoDotDot(p)
            /\ busy' = (busy \ {dp[p]}) \cup {ip[p]}
            /\ todo' = [todo EXCEPT ![p] = <<dp[p]>>]
            /\ GoTo(p, "unlinked")
            /\ UNCHANGED ip
  /\ valid' = valid \cup {ip[p]}
  /\ dp' = [dp EXCEPT ![p] = NoInum]
  /\ name' = [name EXCEPT ![p] = ".."]
  /\ UNCHANGED <<type, ref, cwd, open, n, putting, panicked>>

sys_unlinked(p) ==
  /\ At(p, "unlinked")
  /\ nlink' = [nlink EXCEPT ![ip[p]] = @ - 1]
  /\ PutIpAndReturn(p)
  /\ UNCHANGED <<type, ent, ref, valid, cwd, open, n, name, dp, putting, panicked>>

-----------------------------------------------------------------------------
(* create() with the parent locked, when the name is there. *)
create_found(p) ==
  /\ At(p, "create") /\ Lockable(dp[p])
  /\ \E e \in Elem : /\ Present(dp[p], e)
                     /\ ref' = Found(ent[dp[p]][e])
                     /\ ip' = [ip EXCEPT ![p] = ent[dp[p]][e]]
  /\ valid' = valid \cup {dp[p]}
  /\ todo' = [todo EXCEPT ![p] = <<dp[p]>>]
  /\ dp' = [dp EXCEPT ![p] = NoInum]
  /\ GoTo(p, "create_old")
  /\ UNCHANGED <<diskVars, busy, cwd, open, n, name, putting, panicked>>

create_old(p) ==
  /\ At(p, "create_old") /\ Lockable(ip[p])
  /\ valid' = valid \cup {ip[p]}
  /\ IF op[p] = "creat" /\ type[ip[p]] = "file"
       THEN LockIpAndGo(p, "opened")
       ELSE PutIpAndReturn(p)
  /\ UNCHANGED <<diskVars, ref, cwd, open, n, name, dp, putting, panicked>>

(* create() when it is not: ialloc() takes the first free inode on disk.   *)
FreeInodes == {i \in Inum : type[i] = "free"}

Allocated(i, t) == [type EXCEPT ![i] = t]

ialloc(p) ==
  /\ At(p, "create") /\ Lockable(dp[p])
  /\ \E e \in Elem, i \in FreeInodes :
       /\ ent[dp[p]][e] = NoInum
       /\ \A j \in FreeInodes : i <= j
       /\ name' = [name EXCEPT ![p] = e]
       /\ type' = Allocated(i, IF op[p] = "mkdir" THEN "dir" ELSE "file")
       /\ ip' = [ip EXCEPT ![p] = i]
       /\ ref' = Ref(i)
       /\ nlink' = [nlink EXCEPT ![i] = 0]
       /\ ent' = [ent EXCEPT ![i] = NoEntries]
  /\ valid' = valid \cup {dp[p]}
  /\ busy' = busy \cup {dp[p]}
  /\ GoTo(p, "create_new")
  /\ UNCHANGED <<cwd, open, n, dp, todo, putting, panicked>>

(* The rest of create(), both locked; ip stays locked while dp is put.     *)
create_new(p) ==
  /\ At(p, "create_new") /\ Lockable(ip[p])
  /\ nlink' = [nlink EXCEPT ![ip[p]] = 1,
                            ![dp[p]] = IF op[p] = "mkdir" THEN @ + 1 ELSE @]
  /\ ent' = [ent EXCEPT ![ip[p]][".."] = IF op[p] = "mkdir" THEN dp[p] ELSE @,
                        ![dp[p]][name[p]] = ip[p]]
  /\ valid' = valid \cup {ip[p]}
  /\ busy' = (busy \ {dp[p]}) \cup {ip[p]}
  /\ todo' = [todo EXCEPT ![p] = <<dp[p]>>]
  /\ dp' = [dp EXCEPT ![p] = NoInum]
  /\ name' = [name EXCEPT ![p] = ".."]
  /\ GoTo(p, IF op[p] = "mkdir" THEN "made" ELSE "opened")
  /\ UNCHANGED <<type, ref, cwd, open, n, ip, putting, panicked>>

sys_mkdir(p) ==
  /\ At(p, "made")
  /\ PutIpAndReturn(p)
  /\ UNCHANGED <<diskVars, ref, valid, cwd, open, n, name, dp, putting, panicked>>

-----------------------------------------------------------------------------
(* iput()'s test: the last reference to an inode without links.            *)
Unused(i) == ref[i] = 1 /\ i \in valid /\ nlink[i] = 0

Putting(p) == panicked = "no" /\ todo[p] # <<>>

(* iput() of an inode still in use; a slot without references is not valid *)
(* when iget() recycles it.                                                *)
iput_keep(p) ==
  LET i == Head(todo[p])
  IN /\ Putting(p) /\ ~putting[p] /\ ~Unused(i)
     /\ ref' = [ref EXCEPT ![i] = @ - 1]
     /\ valid' = IF ref[i] = 1 THEN valid \ {i} ELSE valid
     /\ todo' = [todo EXCEPT ![p] = Tail(@)]
     /\ UNCHANGED <<diskVars, busy, cwd, open, callVars, putting, panicked>>

(* iput() frees: with I_BUSY and not icache.lock, itrunc() and type 0.     *)
iput_free(p) ==
  LET i == Head(todo[p])
  IN /\ Putting(p) /\ ~putting[p] /\ Unused(i) /\ i \notin busy
     /\ busy' = busy \cup {i}
     /\ type' = [type EXCEPT ![i] = "free"]
     /\ ent' = [ent EXCEPT ![i] = NoEntries]
     /\ putting' = [putting EXCEPT ![p] = TRUE]
     /\ UNCHANGED <<nlink, ref, valid, cwd, open, callVars, todo, panicked>>

(* iput() has freed: flags = 0.  By now ialloc() may have handed i out.    *)
iput_done(p) ==
  LET i == Head(todo[p])
  IN /\ Putting(p) /\ putting[p]
     /\ busy' = busy \ {i}
     /\ valid' = valid \ {i}
     /\ ref' = [ref EXCEPT ![i] = @ - 1]
     /\ todo' = [todo EXCEPT ![p] = Tail(@)]
     /\ putting' = [putting EXCEPT ![p] = FALSE]
     /\ UNCHANGED <<diskVars, cwd, open, callVars, panicked>>

iput(p) == iput_keep(p) \/ iput_free(p) \/ iput_done(p)

-----------------------------------------------------------------------------
(* The inode p's next step passes to ilock(), or NoInum. *)
Locks(p) ==
  IF pc[p] \in {"namex", "linkto", "unlink", "create"} THEN dp[p]
  ELSE IF pc[p] \in {"open", "chdir", "link", "linkbad", "unlink_ip", "create_old",
                     "create_new"} THEN ip[p]
  ELSE NoInum

(* The panic() that p's next step runs into, or "no". *)
Complaint(p) ==
  LET i == Locks(p)
  IN IF todo[p] # <<>> THEN
       IF ~putting[p] /\ Unused(Head(todo[p])) /\ Head(todo[p]) \in busy
         THEN "iput busy" ELSE "no"
     ELSE IF i = NoInum \/ i \in busy THEN "no"
     ELSE IF i \notin valid /\ type[i] = "free" THEN "ilock: no type"
     ELSE IF pc[p] \in {"linkto", "unlink", "create"} /\ type[i] # "dir"
       THEN "dirlookup not DIR"
     ELSE IF pc[p] = "unlink_ip" /\ nlink[i] < 1 THEN "unlink: nlink < 1"
     ELSE IF /\ pc[p] = "create" /\ FreeInodes = {}
             /\ \E e \in Elem : ent[i][e] = NoInum
       THEN "ialloc: no inodes"
     ELSE "no"

PanicMessages == {"ilock: no type", "dirlookup not DIR", "unlink: nlink < 1",
                  "ialloc: no inodes", "iput busy"}

panic(p) ==
  /\ panicked = "no" /\ Complaint(p) # "no"
  /\ panicked' = Complaint(p)
  /\ UNCHANGED <<diskVars, cacheVars, cwd, open, callVars, todo, putting>>

Halted == panicked # "no" /\ UNCHANGED vars

(* What a process in a system call does next. *)
Step(p) ==
  \/ namex(p) \/ sys_open(p) \/ sys_open_file(p) \/ sys_chdir(p)
  \/ sys_link(p) \/ sys_link_new(p) \/ sys_link_bad(p)
  \/ sys_unlink(p) \/ sys_unlink_ip(p) \/ sys_unlinked(p)
  \/ create_found(p) \/ create_old(p) \/ ialloc(p) \/ create_new(p) \/ sys_mkdir(p)
  \/ iput(p) \/ panic(p)

Next ==
  \/ \E p \in Proc : Step(p) \/ sys_close(p) \/ \E o \in Ops : call(p, o) \/ call_root(p, o)
  \/ Halted

Spec == Init /\ [][Next]_vars

-----------------------------------------------------------------------------
(* Type invariant. *)
TypeOK ==
  /\ type \in [Inum -> {"free", "file", "dir"}]
  /\ nlink \in [Inum -> Nat]
  /\ ent \in [Inum -> [Elem -> Inum \cup {NoInum}]]
  /\ ref \in [Inum -> Nat] /\ busy \subseteq Inum /\ valid \subseteq Inum
  /\ cwd \in [Proc -> Inum] /\ open \in [Proc -> Inum \cup {NoInum}]
  /\ pc \in [Proc -> Labels] /\ op \in [Proc -> Ops \cup {"linkto", "none"}]
  /\ n \in [Proc -> 0..PathLen] /\ name \in [Proc -> Elem]
  /\ dp \in [Proc -> Inum \cup {NoInum}] /\ ip \in [Proc -> Inum \cup {NoInum}]
  /\ \A p \in Proc : todo[p] \in Seq(Inum)
  /\ putting \in [Proc -> BOOLEAN]
  /\ panicked \in PanicMessages \cup {"no"}

(* The pointers to i that processes hold. *)
Pointers(i) ==
  LET In(f) == Cardinality({p \in Proc : f[p] = i})
      ToPut(k) == Cardinality({p \in Proc : Len(todo[p]) >= k /\ todo[p][k] = i})
  IN In(cwd) + In(open) + In(dp) + In(ip) + ToPut(1) + ToPut(2)

(* ip->ref counts the pointers to the inode that processes hold, on every  *)
(* path through the system calls: nothing leaks and nothing is put twice.  *)
RefsCounted == \A i \in Inum : ref[i] = Pointers(i)

(* The inodes p has locked. *)
Holds(p) ==
  IF putting[p] THEN {Head(todo[p])} \cup
                     (IF pc[p] \in {"unlinked", "opened", "made"} THEN {ip[p]} ELSE {})
  ELSE IF pc[p] \in {"unlink_ip", "create_new"} THEN {dp[p]}
  ELSE IF pc[p] \in {"unlinked", "opened", "made"} THEN {ip[p]}
  ELSE {}

Waits(p) == IF todo[p] = <<>> THEN {Locks(p)} ELSE {}

(* A name always refers to an inode in use, and an inode has at least as   *)
(* many links as names: so iput() frees no inode that still has a name,    *)
(* however link, unlink and create interleave.                             *)
NamesAreLinks ==
  \A i \in Inum : Names(i) # {} => type[i] # "free" /\ nlink[i] >= Cardinality(Names(i))

(* What a process has open, and where it is, is never freed under it. *)
InUseNotFreed ==
  \A p \in Proc : \A i \in {cwd[p], open[p]} \ {NoInum} : type[i] # "free"

(* The panics that are consistency checks of fs.c and sysfile.c never      *)
(* happen; running out of inodes is the only one that does.                *)
NoPanic == panicked \in {"no", "ialloc: no inodes"}

(* References, names and inodes stay in step however the calls interleave: *)
(* the state has its types, ip->ref counts the pointers, every name is a   *)
(* counted link to an inode in use, nothing open is freed, and no          *)
(* consistency check of fs.c or sysfile.c fails.                           *)
InodeSound == TypeOK /\ RefsCounted /\ NamesAreLinks /\ InUseNotFreed /\ NoPanic

(* Every wait for an inode lock ends: a locked inode has one holder, which *)
(* will unlock it (iput() takes the lock without ilock()), and no two      *)
(* processes wait for each other, as the parent's lock is taken first.     *)
WaitsEnd ==
  /\ busy = UNION {Holds(p) : p \in Proc}
  /\ \A p, q \in Proc : p # q => Holds(p) \cap Holds(q) = {}
  /\ \A p, q \in Proc : ~(Waits(p) \cap Holds(q) # {} /\ Waits(q) \cap Holds(p) # {})

Perms == Permutations(Proc)
=============================================================================
