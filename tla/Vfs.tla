-------------------------------- MODULE Vfs --------------------------------
(***************************************************************************)
(* MFS under the kernel's VFS: the operations of namei.c, file.c and dir.c *)
(* on the volume and on the dentry cache in front of it.  create and mkdir *)
(* reach the volume; unlink, rmdir, rename and link are the kernel's       *)
(* simple_* helpers, which change the cache only, as does mknod.  So what  *)
(* a cached name says and what the volume says can part.                   *)
(*                                                                         *)
(* The volume is the sequence of its directory entries in the order they   *)
(* were made.  Nothing is taken off a volume and a search of a directory   *)
(* goes by that order (Mfs), so that is all a search depends on.  The      *)
(* volume does not fill up here: Mfs has what happens then.                *)
(***************************************************************************)
EXTENDS Naturals, Sequences, SequencesExt, FiniteSets

CONSTANTS
  Nodes,      (* Bound: the paths in use, each the sequence of its names.  *)
  MaxEntries, (* Bound: entries on the volume.                             *)
  MaxLen,     (* Bound: length of one write.                               *)
  MaxSize,    (* Bound: of the sizes together, and of where a pwrite ends. *)
  Room        (* Names that fit in the buffer of one getdents.             *)

ASSUME VfsAssumption ==
  /\ \A q \in Nodes :
       q \in Seq(Range(q)) /\ q # <<>> /\ (Len(q) = 1 \/ Front(q) \in Nodes)
  /\ {MaxEntries, MaxLen, MaxSize, Room} \subseteq Nat

VARIABLES
  vol,     (* The entries on the volume.  dir is the number of the         *)
           (* directory's own entry, len where its furthest write ends.    *)
  cache,   (* The dentries in the kernel, by path: what each says there    *)
           (* is, and what it has that from.                               *)
  handle,  (* An open file: its dentry's path, and its position.           *)
  listing, (* An open directory, and what has been read from it.           *)
  state    (* "ok"; "hung": the kernel is in a loop that does not end, or  *)
           (* has given up; or "wrecked": the volume is written through an *)
           (* entry nobody filled in.                                      *)

vars == <<vol, cache, handle, listing, state>>

Names == UNION {Range(q) : q \in Nodes}
Parent(q) == Front(q)

-----------------------------------------------------------------------------
(* Searches on the volume.                                                 *)

Kinds == {"file", "dir"}
Root == 0
Wrong == MaxEntries + 1           \* the 0 of get_cluster_number

Search(v, d, n, kinds) ==
  LET S == {i \in DOMAIN v : v[i].dir = d /\ v[i].name = n /\ v[i].kind \in kinds}
  IN  {i \in S : \A j \in S : i <= j}

get_cluster_number(v, p) ==
  LET d[k \in 0..Len(p)] ==
        IF k = 0 THEN Root
        ELSE LET S == Search(v, d[k - 1], p[k], {"dir"})
             IN  IF S = {} THEN Wrong ELSE CHOOSE i \in S : TRUE
  IN  d[Len(p)]

(* The directory of a dentry, as get_dir_path_from_dentry and              *)
(* get_file_path_from_dentry spell its path for the volume.                *)
Route(v, q) == get_cluster_number(v, Parent(q))

(* A faulty variant of __mfs_lookup: directories are passed over.          *)
LookupFile(v, q) == Search(v, Route(v, q), Last(q), {"file"})

__mfs_lookup(v, q) == Search(v, Route(v, q), Last(q), Kinds)
get_dentry(v, q) == Search(v, Route(v, q), Last(q), {"file"})
Misrouted(q) == Route(vol, q) = Wrong

-----------------------------------------------------------------------------
(* The dentry cache.                                                       *)

(* What a dentry says, and where it has it from: the volume; an operation  *)
(* that did not tell one about the other; or such an operation that pins   *)
(* the dentry as well.                                                     *)
Dentries == [kind : Kinds \cup {"none"}, from : {"volume", "local", "pinned"}]
Says(kind, from) == [kind |-> kind, from |-> from]

Cached(q, kinds) == q \in DOMAIN cache /\ cache[q].kind \in kinds
IsDir(p) == p = <<>> \/ Cached(p, {"dir"})
Local(q) == \E k \in 1..Len(q) :
              LET p == SubSeq(q, 1, k) IN p \in DOMAIN cache /\ cache[p].from # "volume"
With(q, d) == [r \in DOMAIN cache \cup {q} |-> IF r = q THEN d ELSE cache[r]]
Without(S) == [r \in DOMAIN cache \ S |-> cache[r]]
Under(p) == {q \in DOMAIN cache : IsStrictPrefix(p, q)}
simple_empty(p) == \A q \in Under(p) : cache[q].kind = "none"

(* What is open is not removed, and nothing is moved over it.              *)
Held(q) == q \in {handle.path, listing.path}

NoHandle == [path |-> <<>>, pos |-> 0]
NoListing == [path |-> <<>>, pos |-> 0, got |-> <<>>, had |-> {}, over |-> TRUE]

Fail(s) == state' = s /\ UNCHANGED <<vol, cache, handle, listing>>
(* Names that are in use are not created, so a call starts at a dentry     *)
(* that says there is nothing.                                             *)
Negative(q) == state = "ok" /\ IsDir(Parent(q)) /\ Cached(q, {"none"})

-----------------------------------------------------------------------------
(* The operations of namei.c.                                              *)

(* The volume is asked about a name that is not cached.  After a wrong     *)
(* route the search goes on with cluster 0 and never leaves it.            *)
mfs_lookup(q) ==
  /\ state = "ok" /\ IsDir(Parent(q)) /\ q \notin DOMAIN cache
  /\ IF Misrouted(q) THEN Fail("hung")
     ELSE LET S == __mfs_lookup(vol, q)
              kind == IF S = {} THEN "none" ELSE vol[CHOOSE i \in S : TRUE].kind
          IN  /\ cache' = With(q, Says(kind, "volume"))
              /\ UNCHANGED <<vol, handle, listing, state>>

Entry(q, kind) ==
  [dir |-> Route(vol, q), name |-> Last(q), kind |-> kind, size |-> 0, len |-> 0]

(* A faulty variant of mfs_create: the volume is not written.              *)
CreateUnstored(q) ==
  /\ Negative(q)
  /\ cache' = With(q, Says("file", cache[q].from))
  /\ UNCHANGED <<vol, handle, listing, state>>

(* The route is not checked: the entry goes to cluster 0.                  *)
mfs_create(q) ==
  /\ Negative(q) /\ Len(vol) < MaxEntries
  /\ IF Misrouted(q) THEN Fail("wrecked")
     ELSE /\ vol' = Append(vol, Entry(q, "file"))
          /\ cache' = With(q, Says("file", cache[q].from))
          /\ UNCHANGED <<handle, listing, state>>

(* The dentry is not told of the new directory, and stays negative.        *)
mfs_mkdir(q) ==
  /\ Negative(q) /\ Len(vol) < MaxEntries
  /\ IF Misrouted(q) THEN Fail("wrecked")
     ELSE /\ vol' = Append(vol, Entry(q, "dir"))
          /\ cache' = With(q, Says("none", "local"))
          /\ UNCHANGED <<handle, listing, state>>

(* The volume is not told of the new node.                                 *)
mfs_mknod(q) ==
  /\ Negative(q)
  /\ cache' = With(q, Says("file", "pinned"))
  /\ UNCHANGED <<vol, handle, listing, state>>

-----------------------------------------------------------------------------
(* The kernel's helpers that namei.c names in its operations.              *)

(* A faulty variant of Gone: what is cached under the name stays.          *)
GoneAlone(q) ==
  /\ cache' = Without({q})
  /\ UNCHANGED <<vol, handle, listing, state>>

(* The helper gives back a reference nobody took, so whether the dentry    *)
(* stays, without its inode, or goes depends on who else holds it.         *)
Gone(q) ==
  /\ \/ cache' = [r \in DOMAIN cache \ Under(q) |->
                    IF r = q THEN Says("none", "local") ELSE cache[r]]
     \/ cache' = Without({q} \cup Under(q))
  /\ UNCHANGED <<vol, handle, listing, state>>

simple_unlink(q) == state = "ok" /\ Cached(q, {"file"}) /\ ~Held(q) /\ Gone(q)

(* A directory is empty when no name under it is cached.                   *)
simple_rmdir(q) ==
  state = "ok" /\ Cached(q, {"dir"}) /\ simple_empty(q) /\ ~Held(q) /\ Gone(q)

simple_link(q, r) ==
  /\ Cached(q, {"file"}) /\ Negative(r)
  /\ cache' = With(r, Says("file", "pinned"))
  /\ UNCHANGED <<vol, handle, listing, state>>

(* The dentry takes the new name, with all under it.                       *)
simple_rename(q, r) ==
  LET moved == {q} \cup Under(q)
      to(s) == r \o SubSeq(s, Len(q) + 1, Len(s))
      from(s) == q \o SubSeq(s, Len(r) + 1, Len(s))
      dest == {to(s) : s \in moved}
      kept == DOMAIN cache \ (moved \cup {r} \cup Under(r))
  IN
  /\ state = "ok" /\ q # r /\ ~IsStrictPrefix(q, r) /\ ~IsStrictPrefix(r, q)
  /\ Cached(q, Kinds) /\ IsDir(Parent(r))
  /\ Cached(r, {cache[q].kind, "none"}) /\ simple_empty(r) /\ ~Held(r)
  /\ dest \subseteq Nodes
  /\ cache' = [s \in kept \cup dest |->
                 IF s \in kept THEN cache[s]
                 ELSE Says(cache[from(s)].kind,
                           IF cache[from(s)].from = "pinned" THEN "pinned" ELSE "local")]
  /\ handle' = [handle EXCEPT !.path = IF @ \in moved THEN to(@) ELSE @]
  /\ listing' = [listing EXCEPT !.path = IF @ \in moved THEN to(@) ELSE @]
  /\ UNCHANGED <<vol, state>>

(* Memory is short: a dentry that nobody holds goes.                       *)
Drop(q) ==
  /\ q \in DOMAIN cache /\ cache[q].from # "pinned" /\ Under(q) = {}
  /\ state = "ok" /\ ~Held(q)
  /\ cache' = Without({q})
  /\ UNCHANGED <<vol, handle, listing, state>>

(* The volume is unmounted and mounted again, which takes that nothing is  *)
(* open.  mfs_put_super does nothing, and the kernel empties the cache: a  *)
(* pinned dentry is still in use, which is fatal.                          *)
mfs_put_super ==
  /\ state = "ok" /\ handle = NoHandle /\ listing = NoListing
  /\ IF \E q \in DOMAIN cache : cache[q].from = "pinned" THEN Fail("hung")
     ELSE cache' = <<>> /\ UNCHANGED <<vol, handle, listing, state>>

-----------------------------------------------------------------------------
(* Files and directories.                                                  *)

(* Bound: one file or directory is open at a time.                         *)
Closed == state = "ok" /\ handle = NoHandle /\ listing = NoListing
Close ==
  /\ state = "ok" /\ ~Closed
  /\ handle' = NoHandle /\ listing' = NoListing
  /\ UNCHANGED <<vol, cache, state>>

(* However the file is opened, its position starts at 0.                   *)
Open(q) ==
  /\ Closed /\ Cached(q, {"file"})
  /\ handle' = [path |-> q, pos |-> 0]
  /\ UNCHANGED <<vol, cache, listing, state>>

(* A faulty variant of Written: the size becomes that of the last write.   *)
WrittenLast(e, pos, k) ==
  [e EXCEPT !.size = k, !.len = IF pos + k > @ THEN pos + k ELSE @]

Written(e, pos, k) ==
  [e EXCEPT !.size = @ + k, !.len = IF pos + k > @ THEN pos + k ELSE @]

(* The sizes in the entry that stat reports.  There is none when no file   *)
(* has the name, as for a directory: stat then reports whatever is there.  *)
mfs_getattr(q) == {vol[i].size : i \in get_dentry(vol, q)}

(* One call stores k units of what it is given, at position pos, and       *)
(* leaves the handle at position after.  The entry is asked for by name,   *)
(* and what there is in its place when the name is not found is used all   *)
(* the same.                                                               *)
mfs_write(k, pos, after) ==
  LET q == handle.path IN
  /\ state = "ok" /\ handle # NoHandle
  /\ \/ Misrouted(q) /\ Fail("hung")
     \/ ~Misrouted(q) /\ get_dentry(vol, q) = {} /\ Fail("wrecked")
     \/ \E i \in IF Misrouted(q) THEN {} ELSE get_dentry(vol, q) :
          /\ FoldSeq(LAMBDA e, n : e.size + n, 0, vol) + k <= MaxSize
          /\ vol' = [vol EXCEPT ![i] = Written(@, pos, k)]
          /\ handle' = [handle EXCEPT !.pos = after]
          /\ UNCHANGED <<cache, listing, state>>

(* The kernel's calls of it.  A file has no llseek of its own, so only     *)
(* reading and writing move a handle; but pwrite has the client's position *)
(* in place of the handle's.                                               *)
Write(k) == mfs_write(k, handle.pos, handle.pos + k)
Pwrite(k) == \E pos \in 0..MaxSize : pos + k <= MaxSize /\ mfs_write(k, pos, handle.pos)

(* A read that moves the handle by k: not past the size in the entry, which*)
(* may be any when the name is not found (bound: MaxLen).  A pread moves   *)
(* nothing.                                                                *)
mfs_read(k) ==
  LET q == handle.path IN
  /\ state = "ok" /\ handle # NoHandle
  /\ \/ Misrouted(q) /\ Fail("hung")
     \/ /\ ~Misrouted(q)
        /\ \E size \in IF get_dentry(vol, q) = {} THEN {MaxLen} ELSE mfs_getattr(q) :
             handle.pos + k <= size
        /\ handle' = [handle EXCEPT !.pos = @ + k]
        /\ UNCHANGED <<vol, cache, listing, state>>

(* The names in a directory, in the order of its entries.                  *)
Listed(v, p) ==
  LET d == get_cluster_number(v, p)
      names[n \in 0..Len(v)] ==
        IF n = 0 THEN <<>>
        ELSE IF v[n].dir = d THEN Append(names[n - 1], v[n].name) ELSE names[n - 1]
  IN  names[Len(v)]

OpenDir(p) ==
  /\ Closed /\ IsDir(p)
  /\ listing' = [path |-> p, pos |-> 0, got |-> <<>>, had |-> Range(Listed(vol, p)), over |-> FALSE]
  /\ UNCHANGED <<vol, cache, handle, state>>

(* A faulty variant of mfs_readdir: it starts over in every call.          *)
ReaddirAgain ==
  LET names == Listed(vol, listing.path)
      n == IF Len(names) < Room THEN Len(names) ELSE Room
  IN
  /\ state = "ok" /\ ~listing.over /\ Len(listing.got) <= Room
  /\ listing' = [listing EXCEPT !.pos = 2 + n, !.got = @ \o SubSeq(names, 1, n)]
  /\ UNCHANGED <<vol, cache, handle, state>>

(* The first call gives the dots and what fits beside them; every later    *)
(* one gives nothing, which the caller takes for the end.                  *)
mfs_readdir ==
  LET names == Listed(vol, listing.path)
      n == IF Len(names) < Room THEN Len(names) ELSE Room
  IN
  /\ state = "ok" /\ ~listing.over
  /\ listing' = IF listing.pos > 0 THEN [listing EXCEPT !.over = TRUE]
                ELSE [listing EXCEPT !.pos = 2 + n, !.got = SubSeq(names, 1, n)]
  /\ UNCHANGED <<vol, cache, handle, state>>

-----------------------------------------------------------------------------
VfsInit ==
  /\ vol = <<>>
  /\ cache = <<>>
  /\ handle = NoHandle
  /\ listing = NoListing
  /\ state = "ok"

Next ==
  \/ \E q \in Nodes :
       \/ mfs_lookup(q) \/ mfs_create(q) \/ mfs_mkdir(q) \/ mfs_mknod(q)
       \/ simple_unlink(q) \/ simple_rmdir(q) \/ Drop(q) \/ Open(q)
  \/ \E q, r \in Nodes : simple_link(q, r) \/ simple_rename(q, r)
  \/ \E k \in 1..MaxLen : Write(k) \/ Pwrite(k) \/ mfs_read(k)
  \/ \E p \in Nodes \cup {<<>>} : OpenDir(p)
  \/ mfs_readdir \/ Close \/ mfs_put_super

Spec == VfsInit /\ [][Next]_vars

-----------------------------------------------------------------------------
(* Properties.                                                             *)

(* Types of the state; what is open is in the cache, and so are the        *)
(* directories above what is cached.                                       *)
TypeOK ==
  /\ vol \in Seq([dir : Nat, name : Names, kind : Kinds, size : Nat, len : Nat])
  /\ DOMAIN cache \subseteq Nodes
  /\ \A q \in DOMAIN cache : cache[q] \in Dentries /\ IsDir(Parent(q))
  /\ handle = NoHandle \/ Cached(handle.path, {"file"})
  /\ IsDir(listing.path)
  /\ state \in {"ok", "hung", "wrecked"}

(* A name says in the cache what a look at the volume would say, unless it *)
(* or a directory above it went through one of the operations that do not  *)
(* tell one about the other (mfs_mkdir and mfs_mknod in namei.c, and the   *)
(* simple_* helpers): else dropping dentries would change the tree.  And a *)
(* file that is there has a size to report.                                *)
OnVolume(q) == Search(vol, Route(vol, q), Last(q), Kinds)
KindOnVolume(q) ==
  IF OnVolume(q) = {} THEN "none" ELSE vol[CHOOSE i \in OnVolume(q) : TRUE].kind
CacheAgrees ==
  \A q \in DOMAIN cache : ~Local(q) =>
    /\ cache[q].kind = KindOnVolume(q)
    /\ cache[q].kind = "file" => mfs_getattr(q) # {}

(* A directory of the volume gets a second entry of one name only through  *)
(* a dentry that is not the volume's word (mfs_create and mfs_mkdir do not *)
(* look the name up themselves); and a call hangs or writes through a      *)
(* wrong entry only when some name is in use that was moved, linked or     *)
(* made in the cache alone: the unchecked results of get_cluster_number    *)
(* and get_dentry (dir.c, file.c, namei.c) are right on every other        *)
(* history.                                                                *)
HarmOnlyByCache ==
  [][/\ Len(vol') > Len(vol) =>
          LET e == Last(vol') IN
          Search(vol, e.dir, e.name, Kinds) # {} =>
            \E q \in DOMAIN cache : Last(q) = e.name /\ Route(vol, q) = e.dir /\ Local(q)
     /\ state = "ok" /\ state' # "ok" =>
          \E q \in DOMAIN cache : Cached(q, Kinds) /\ cache[q].from # "volume"]_vars

(* How far what was written goes beyond the size stat reports: a write     *)
(* that goes on where its handle stands never takes it further, also when  *)
(* it writes over what is there, for mfs_write adds to the size wherever   *)
(* that is and no read goes past the size.  Only one at a position that    *)
(* was reached under another name does, or one at a position of the        *)
(* client's own, which leaves the handle where it is, beyond the size.     *)
Excess(e) == IF e.len > e.size THEN e.len - e.size ELSE 0
StatCoversFile ==
  [][\A i \in DOMAIN vol :
       Excess(vol'[i]) > Excess(vol[i]) =>
         Local(handle.path) \/ handle' = handle]_vars

(* One reading of a directory, however many calls it takes, gives no entry *)
(* twice, and gives all there were when it began if they fit in one buffer *)
(* (mfs_readdir starts from the position, __mfs_readdir does not).         *)
ListingIsWhole ==
  LET names == Listed(vol, listing.path) IN
  state = "ok" /\ ~Local(listing.path) =>
    /\ Len(listing.got) <= Len(names)
    /\ \A i \in DOMAIN listing.got : listing.got[i] = names[i]
    /\ listing.over /\ Len(names) <= Room => listing.had \subseteq Range(listing.got)
=============================================================================
