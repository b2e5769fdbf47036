# libHX: models, checks and proofs

libHX is a C library of containers (hash maps, red-black trees, deques,
intrusive lists, length-prefixed strings), string and path algorithms, an option
parser, a template formatter, and helpers around files, processes, sockets and
time. This directory holds TLA+ models of these parts, the TLC runs that check them
on small instances, and TLAPS proofs of the properties that matter most for
instances of any size.

Paths below are relative to the repository (`src/` is its root here, so
`src/src/map.c` is `src/map.c` of the repository).

## 1. Inventory

| component | files | state | operations | interacts with |
|---|---|---|---|---|
| hash map | `map.c`, `map_int.h`, `map.h` | bucket array of node lists, `items`, `power`, `min_load`/`max_load`, `tid`, flags; traversers with `head`, `bk_current`, `tid` | `HXmap_init5`, `add`, `find`, `get`, `del`, `keysvalues`, `travinit`, `traverse`, `travfree`, `qfe`, `free` | lists (bucket chains), the user's key/data callbacks, malloc |
| red-black tree | same | nodes with two children and a color, `items`, `tid`; traversers with a path and a checkpoint | the same interface | callbacks, malloc |
| deque | `deque.c` | heads (`first`, `last`, `items`), nodes (`next`, `prev`, `parent`) | `init push unshift pop shift move del find get free genocide2 to_vec to_vecx to_vec_strdup` | malloc, string vectors |
| lists | `list.h` | circular `next`/`prev`; `HXclist_head` with `items` | `init add add_tail del push pop shift unshift`, iteration macros | hash map, deque users |
| memory containers | `mc.c` | a block with `alloc`, `length` and an identifier before the data | `strinit meminit strcpy memcpy trunc setlen strcat memcat memins memdel free` | string, opt, format |
| library init, random numbers | `rand.c` | a reference count under a mutex, a seed | `HX_init HX_exit HX_rand HX_irand` | threads |
| processes | `proc.c` | six descriptors, child pid, callbacks | `run_async run_sync wait switch_user top_fd` | the kernel: pipe, fork, dup2, waitpid |
| option parser | `opt.c` | argv position, state of the current word, result lists | `HX_getopt`, `HX_shconfig*` | deque, map, mc |
| strings | `string.c` | none | splitting, trimming, paths, quoting, units, dates | mc |
| formatter | `format.c` | catalog (a map), the position in the template | `HXformat_add`, `aprintf`, `sprintf`, `fprintf` | map, mc, deque, proc |
| files | `io.c` | descriptors, directories, the file system | `copy_dir copy_file mkdir readlink realpath rrmdir fullread fullwrite sendfile slurp` | the kernel |
| sockets | `socket.c` | listening sockets, LISTEN_FDS | `inet_connect inet_listen local_listen addrport_split socket_from_env` | the kernel |
| time | `time.c` | none | timespec and timeval arithmetic | |

What is hard here. The library has no threads of its own and, `HX_init` aside, no
locks. Inside a process concurrency means *interleaving by the caller*, above all
traversers of a map held across additions and deletions, whose position may have
been rehashed, rotated away or freed (and its address handed out again). Between
processes it means the file system and the addresses of sockets, which others change
between two system calls of one function, and a child that shares its descriptors with
the caller. Within one call the difficulty lies in many-step pointer manipulation
(rehashing node by node, rebalancing along a recorded path), in allocations and system
calls that fail half way or do part of what they were asked, in size limits (load
factor, path arrays on the stack, vectors, buffers that hold one byte more than their
capacity), and, in the parsers, in the number of ways in which small syntactic cases
combine.

What makes each component correct: a map is a dictionary whatever its layout; a
traverser neither follows a dangling pointer nor skips or repeats what its
documentation excludes; a tree is a search tree and balanced; a deque's pointers
agree forward and backward and with its count; everything allocated is reachable
and freed once; loops end. A container never writes past its block and stays
terminated; a copy is exact and complete whatever the kernel does; a removed tree is
gone and nothing else is; a path resolves to where the kernel would go; a server keeps
its address; a command line, a configuration file and a template mean what the
conventions say; quoting can be undone and fits the size computed for it; sums of
durations are exact or reported as overflow.

`PROJECT.json` lists the components with their status, and the hazards, each at
the line where it bites.

## 2. Modules

| module | models | role |
|---|---|---|
| `HXmap` | the interface of `HXmap_*` | abstract specification: a partial function from keys to data, with the results and errno of each call |
| `HXumap` | hash map of `map.c` | detailed specification, implements `HXmap` |
| `HXumap_proofs` | | inductive invariant of `HXumap`, what follows from it, and the proof that `HXumap` implements `HXmap` |
| `HXrbtree` | red-black tree of `map.c` | detailed specification, implements `HXmap` up to two deviations |
| `HXrbshape_proofs` | | facts about search trees and red-black trees made of such nodes, and about each operation on them |
| `HXrbtree_proofs` | | inductive invariant of `HXrbtree`: the tree is ordered, whole and red-black |
| `HXrbmap_proofs` | | what follows for traversers and path arrays, and the proof that `HXrbtree` implements `HXmap` |
| `HXdeque` | `deque.c` | pointer-level specification with the abstract list as a history variable |
| `HXdeque_proofs` | | inductive invariant of `HXdeque` and what follows from it |
| `HXproc` | `run_async`, `run_sync`, `wait` of `proc.c` | caller and child with their descriptor tables |
| `HXmc` | `mc.c`, `HX_readlink`, `HX_getcwd` | containers byte by byte, with what they should hold as history |
| `HXlist` | `list.h` | rings of pointers, counted heads, safe loops |
| `HXtime` | `time.c` | an accumulator against exact time |
| `HXinit` | `HX_init`, `HX_exit` of `rand.c` | threads and the mutex |
| `HXio` | `sendfile`, `copy_file`, `slurp`, `fullread`, `fullwrite` of `io.c` | one step per system call, against an unreliable kernel |
| `HXfs` | `mkdir`, `rrmdir`, `HXdir_*` of `io.c` | one step per system call, next to other processes |
| `HXrealpath` | `HX_realpath` of `io.c` | one step per path component, against the kernel's walk |
| `HXsocket` | `socket.c` | several processes that want one address |
| `HXopt` | `HX_getopt6` of `opt.c` | the state machine, against a reading of the command line |
| `HXdequote`, `HXshconf` | dequoting and `HX_shconfig*` of `opt.c` | one step per line, against the entries the file was written from |
| `HXformat` | `format.c` | expansion, against the template's syntax tree |
| `HXstring`, `HXquote`, `HXamount` | `string.c`, `HX_addrport_split` | pure functions, against reference definitions |
| `HXsys_proofs` (`HXproc`, `HXio`, `HXfs`), `HXlistmc_proofs` (`HXlist`, `HXmc`), `HXbase_proofs` (`HXinit`, `HXtime`, `HXsocket`, `HXrealpath`) | | inductive invariants of these modules and what follows from them |
| `MCHXumap`, `MCHXrbtree`, `MCHXdeque`, `MCHXformat` | | instances of one module for TLC |
| `MCHXrbtrees`, `MCHXlive`, `MCHXparts` | | several instances in one run, see section 3 |

Definitions have the names of the functions they model. A definition `Mut_X`
before `X` is a faulty variant of `X`; no specification uses it. Replacing `X` by
it must make TLC report a violation, which shows that the property in question
depends on what `X` does (`mutants` in `PROJECT.json`).

### HXmap (abstract dictionary)

`dict` is a partial function from `Keys` to data; `ret` is what the last call
returned: value or node key, and errno. Every call of the interface is one
action per outcome: `AddNew`, `AddReplace`, `AddExists`, `AddInval` (data given
to a singular map), `AddNoMem`, `DelHit`, `DelMiss`, `Get`, `TraverseNode`,
`TraverseEnd`. Lookup, iteration order and storage are not part of it.

### HXumap (hash map)

State: `bk_array`, from bucket numbers to sequences of node addresses;
`new_array` while `HXumap_layout` is under way; `node`, the heap of
`struct HXumap_node`; `items`, `power`, `noreplace`, `alive`; `call`, the
add or del under way; `trav`, the traversers with their `head` address,
`bk_current` and `sync` (their `tid` equals the map's, all the code asks of either), plus
history (`seen`, `must`, `fresh`, `moved`) used by properties only.

`HXmap_add`, `HXmap_del` and `HXumap_traverse` take one step unless they relayout the
table. A relayout is `LayoutBegin` (the new array, or ENOMEM), `HXumap_move` (one
step per node relinked), `HXumap_layout` (swap of arrays and `++tid`, which takes every traverser out of step), and the rest
of the caller (`AddAfterLayout`, `DelAfterLayout`). Freed addresses may be
returned by malloc again. Every malloc may fail. Keys are model values with an
arbitrary hash function `Hash`; the copy operations of HXMAP_CKEY/CDATA appear as
an ENOMEM outcome.

### HXrbtree (red-black tree)

State: `node`, the heap, with `ROOT` the address of `btree->root` (the code casts
it to a node, so the root pointer is the left child of `ROOT`); `call`, with the
path recorded on the way down; `trav`, with `current`, path, checkpoint `pos`
and the state `mem` of the checkpoint's memory; `sync`, the outcome of comparing
the traverser's tid with the tree's. An add links its node in one step, then
takes a step per iteration of `HXrbtree_amov`; a del unlinks (with the exchange
of `HXrbtree_del_mm`) and takes a step per iteration of `HXrbtree_dmov`. The
comparison function is the order of the integers. `fault` records a `free` of
memory that is not the map's.

### HXdeque (deque)

State: `dq`, heads; `node`, the heap; `call`, the free or vector copy under way;
`lst`, a history variable with the list each deque should hold by what its
operations are documented to do; `moved`, another, with the number of nodes that came
into each deque from others by `HXdeque_move` less those that left it so. `DropHeap`/`DropHead`
and `AddHeap`/`AddHead` are the two halves, heap and head, of the helpers `HXdeque_drop` and
`HXdeque_add`, which `HXdeque_del` and `HXdeque_move` are made of as in the code. `MoveAnywhere`
says whether callers move nodes behind any node, or only behind the last one of their own
or another deque (`Movable`), the moves after which the chains are right (see the findings).
Moves between deques change no `items`: `ChainOK` states by how much it is off, and
`LoopsOK` that a vector copy of such a deque is overrun by just that many entries.

### HXproc (subprocesses)

State: `fdt` and `child.fdt`, the descriptor tables of caller and child (a number
maps to the file it refers to, the lowest free one is handed out next); `base`,
the caller's table before; `proc`, `pipes`, `nullfd`, the variables of
`HXproc_run_async`; `owed`, a count of `p_prefork` less `p_complete`; the child's own copies
since the fork. Caller: `HXproc_run_async`, `HXproc_run_sync` (argument checks, opening
/dev/null), `BuildPipe`/`PipeFails`, `Fork`/`ForkFails`, `ParentEnds`, `HXproc_wait`,
`WaitInterrupted`. Child: `ChildDup`, `ChildClosePipes`, `ChildDup2`, `ChildExec`. The steps of
both interleave. External: the kernel (`Close`, `DupFd`, `MoveFd`, `AtEnd`), the program run, which
reads a piped stdin to the end and may be killed at any time, and the user, who
closes the child's stdin, reads the other pipes to the end and waits. The command line
(HXPROC_A0, HXPROC_EXECV) and the callbacks' own effects are abstracted.

### HXmc (memory containers)

`mc` has `alloc`, `length` and `data`, the block as malloc returned it with junk in what
nobody has written. `Room` is the reallocation, `Fill` and `Poke` write bytes wherever they
are told to, past the end too, which `McOK` would see. Every call may fail for want of
memory. Where the manual and the code disagree about `HXmc_trunc` (section 4), `txt` follows the code. `HX_readlink` and `HX_getcwd` are `AnswerBegin` followed by `AnswerFits`, `AnswerGrows` or
`AnswerFails`. `txt` is what the calls promise of the contents.

### HXlist, HXtime, HXinit

`HXlist`: `next` and `prev` of heads and nodes; `loop`, a `_safe` loop in either direction whose
body may unlink the node at hand. `HXtime`: one operation after the other on a
`struct timespec` that is also kept as an exact number, `last` being the operand that the
accumulator is compared with; division rounds towards zero as in C.
`HXinit`: `HX_init` and `HX_exit` as lock, test, store, with an `HX_exit` too many allowed.

### HXio (moving data)

A file is the sequence of the numbers of its bytes, so order, loss and repetition
show. `kern` says which of copy_file_range, sendfile and neither the kernel offers for the
two files; `HX_sendfile` falls through them (`Fallback`). Each system call transfers any part,
may be interrupted and may fail; the source may grow. `HX_copy_file` repeats
`HX_sendfile` (`Sent`). `HX_slurp_fd` reads in chunks into a doubling buffer when st_size is 0, and
else what st_size says.

### HXfs, HXrealpath

`HXfs`: a tree `fs` of directories, files and one symbolic link that leads out of it; `others`
says whether nobody else works in it, others who make entries, others who also remove them, or others who
do that and put symbolic links in the place of directories (by removing what is there and making the link, in
steps that may follow each other directly). `stuck` is a place at which calls
are refused. `HX_rrmdir` is recursive in the code and has a `stack` of frames here. A frame holds its
directory as a path, as the code does, and each call resolves it anew: `There` is what a name on it stands
for at that time, behind a link the file there if the names agree (`Same`). `errno` is
part of the state since the result depends on it. `HX_mkdir` is not called where others put links in the place of directories. `HXrealpath`: paths are sequences of
components; every tree over three places with four kinds of links, every path of up to
three components. `Walk` is the kernel's path resolution, a recursive function of the links that may still be
followed and the components left.

### HXsocket

`path` is what the file system has at the local address; each process has its call and
its descriptor. `HX_gai_listen` is `Socket`, `Bind`, `Listen`; `HX_local_listen` goes on with `Stat`,
`TestSocket`, `TestConnect`, `UnlinkAddress` and a second attempt. `HX_socket_from_env` chooses among
inherited descriptors.

### HXopt, HXdequote, HXshconf, HXformat

`HXopt`: the argument at hand, what is left of it (`op0`), the state of the machine and the
deques `desc`, `oarg`, `uarg`; each state's function is an action. `Meaning` reads the same command
line recursively. `HXshconf`: files grow entry by entry, are written out as text (`Render`) in
three styles of quoting, and read back line by line through `HX_shconf_break` and
`HXparse_dequote_int`. `HXformat`: templates grow as syntax trees, are written out as text, and
expanded by `HXformat_aprintf`, `HXformat2_xany` and `HXformat2_xcall`; `ValueOf` evaluates the tree. `scan` is
the search of `HXparse_dequote_fmt`, one step per turn.

### HXstring, HXquote, HXamount

The input is built character by character (or unit by unit), and the properties compare
what each function returns for it with a definition of what it should be: paths put together
again, fields joined, quoted text read back by an inverse of the quoting and compared in
length with `HX_quoted_size`, amounts summed without a limit and compared with the 64-bit
arithmetic, here with a small largest number. errno may be ERANGE from before a period is read. Where a manual page or a test
disagrees with the code about these functions, the properties follow the code, and section 4 names the place.

## 3. Runs

| run | what it checks | instance |
|---|---|---|
| `umap_dict` | the table is well formed at every step of every call (`TableOK`: placement, linked once, unique keys), nothing is lost (`NothingLost`), the load is bounded (`LoadBound`) and the map is a dictionary (`ImplementsMap`) | 4 keys, 1 value and NULL, 4 nodes, sizes 2, 5, 11 |
| `umap_trav` | a traverser never has a dangling head while it trusts it (`HeadLinked`), misses nothing when nothing was deleted or relaid out (`TraversalComplete`), repeats nothing without a relayout (`NoRepeat`), and ends although the map keeps changing between its calls (`TraversalEnds`) | 3 keys, 3 nodes, 1 traverser |
| `umap_twice` | *violated*: never an entry twice, as `doc/maps.rst` says | 3 keys, 3 nodes, 1 traverser |
| `rbtree_parts` | search order and no node lost (`TreeOK`), red-black properties (`RedBlack`), path arrays long enough (`PathFits`) at every step of rebalancing; the tree is a dictionary up to the two deviations below (`ImplementsMap`); a traverser always returns the in-order successor in the present tree, or the end (`WalkInOrder`) | 8 keys; 4 keys with a value; 4 keys, 4 nodes in any assignment, 1 traverser |
| `rbtree_noreplace` | *violated*: HXMAP_NOREPLACE prevents overwriting | 3 keys, 2 values |
| `rbtree_dtrav` | *violated*: a checkpoint outlives the deletion of its entry | 3 keys, HXMAP_CKEY |
| `rbtree_dfree` | *violated*: no bad free | 3 keys, HXMAP_CDATA |
| `live_all` | deques: pointers represent the lists (`ChainOK`), every node owned (`NodesOwned`), frees and vector copies exact (`LoopsOK`) and ending (`LoopsEnd`). Tree: calls return (`CallsReturn`). Processes: no descriptor leaks on any path (`NoLeak`), the program gets the descriptors asked for (`ChildWired`), callbacks are paired (`CallbacksPaired`), nobody waits for ever (`Reaped`). Files: a copy that succeeds is exact (`CopyExact`) and comes back (`CopyReturns`), a slurp is whole (`SlurpWhole`) | 2 deques, 3 nodes, 2 values; 5 keys; all flag combinations, any of 0-2 closed in the caller, limits 5 and 12; files of up to 4 bytes |
| `parts_all` | one property or two for each of the other modules, see below | see `MCHXparts` |
| `deque_move` | *violated*: pointers represent the lists after any `HXdeque_move` | 2 deques, 3 nodes |
| `io_sendfile` | *violated*: `HX_sendfile` transfers no more than it was asked for | files of up to 4 bytes |
| `format_dequote` | *violated*: the search of `HXparse_dequote_fmt` ends | texts with and without a last backslash |

`MCHXrbtrees`, `MCHXlive` and `MCHXparts` each explore several instances that share no state.
The variable `part` says which one a behaviour is about, and the others rest. The states
reached are those of the instances one by one, not their product, and nothing is said of one
instance that another could disturb. `MCHXrbtrees`, `MCHXlive` and `MCHXparts` extend the modules that have theorems, so that
the properties TLC checks are the very definitions that the theorems are about; their
specifications are therefore named apart (`ProcSpec`, `IoSpec`, `McSpec`, `ListSpec`, `UseSpec`, `SocketSpec`, `TimeSpec`, `FsSpec`). The other
instances of `MCHXparts` live in the same registers, so that what rests costs little.

What `parts_all` shows, by property: `McOK` any sequence of calls on a container, any of them
failing, leaves the promised contents, terminated, within the block. `ListOK` rings, counters
and safe loops whatever the body unlinks. `TimeOK` sums, differences, multiples and negation
across zero are exact and in the one normal form. `UsersCounted` the count under overlapping
threads. `RemoveOK` `HX_rrmdir` returns 0 only when the tree has gone, does so whenever nothing
hinders it, and never touches what a link leads to unless others put links in the place of directories. `MakeOK` `HX_mkdir` works next to others
that make the same directories. `SamePlace` `HX_realpath` leads where the kernel leads, or to
its error. `AnswerOK` socket calls leak no descriptor and never return -0. `KeepsAddress` a
local server that came up alone is not displaced (one that binds between another's test connect and
its unlink, `socket.c:299`, is, and the property leaves it out). `OptionsOK` options are understood and
acted on as given. `ConfigOK` files read back as the entries they were written from.
`ExpandsOK` templates expand as their trees evaluate. `TextsOK`, `QuotedOK`, `AmountsOK` the string
functions agree with their definitions. Exceptions, where the code departs from what one
would expect, are stated in the properties' comments and listed in section 4.

Why the bounds are enough for the cases that matter:

- Hash map: sizes 2, 5 and 11 have `max_load` 1, 3 and 7 by the code's own formula, so
  four keys grow the table twice and deletions shrink it again; the four hashes
  collide differently at each size, so chains of two and more entries are split
  and joined by relayouts. Nothing bounds the number of changes, so that `TraversalEnds`
  speaks of traversals during which the map goes on changing for ever. Tables of the code's sizes satisfy
  the assumption the proofs make (`CodePrimesAssumption`).
- Tree: eight keys reach every case of insertion and deletion rebalancing,
  on both sides; the case of deletion that needs the largest tree needs five nodes.
  HXMAP_NOREPLACE and the calls that change nothing are left to the instance where the map's
  answers are checked, since they change no tree. `PathFits` is checked of arrays of 4, 6 and 8 entries
  for trees of up to 4, 8 and 16 nodes, the entry that every deletion writes behind its path (map.c:972) counted, and of
  the code's 48 entries. Two entries for two nodes would not do: deleting the lower one writes three.
  A single traverser suffices: traversers do not see each other, and any number of
  changes by others may come between two of its calls.
- Deque: three nodes allow a node with neighbours on both sides, and two deques that both
  hold something; an operation touches a node and its two neighbours only. `MaxMoved` lets each
  deque gain or lose one node by moves more than it lost or gained: the next would repeat the first.
- Processes: three own descriptors, six pipe ends, and three duplicates are the most
  that are in use at once, so a limit of 12 suffices for everything; with 5 the limit is met
  at /dev/null, at pipes and at duplicates. Children do not overlap.
- Files: with a buffer of 2 and a first chunk of 3 bytes a file of 4 needs several
  transfers, several turns of the loops and one doubling; every split of it and an
  interruption at every point are tried.
- Containers of up to 3 bytes with initial capacities of 2 cross the capacity, fill it
  exactly and double; lists of 4 nodes have a first, a last and middles; three threads can
  wait for the mutex while one holds it.
- Times: seconds of 6 and microseconds of 2 units, up to 20 units either way, so that sums cross zero, a
  whole second and several of them.
- Directory trees: a directory in a directory in the root, with a file or directory and a
  link at the bottom, gives a recursion of depth three with failures at each level. Where others put links in
  the place of directories nothing is refused besides; the file behind the links has the name of the one at the bottom.
- Paths of three components over three places reach links to links, ".." behind a link, a
  link in the middle and more links than `MaxDeref` = 3.
- Sockets: two processes for the race, two addresses for the fallback to the next one.
- Options: up to three of sixteen arguments that use each kind of option in each way;
  configuration files with two entries, of two keys in the table, one that is not, and no key, in two directories; templates of three nested
  elements; texts of up to five characters over the characters that mean something.
- Amounts: a largest number of 63 instead of 2^64 - 1, with factors such that every
  multiplication and addition overflows for some input and does not for another.

Fairness. A library call that has begun goes on: weak fairness of the internal
steps (`HXumap_move`, `HXrbtree_amov`, `FreeNode`, ...), which is what a running thread
does. `TraversalEnds` assumes in addition a caller that keeps calling
`HXmap_traverse` (strong fairness, since the traverser cannot be called while another
call is under way), and nothing of the others, who may add and delete for ever. `Reaped` assumes that both processes go on, that the program run
ends once it has seen the end of its stdin, and that the user closes and waits.
`CopyReturns` assumes that the call goes on and that the kernel does not interrupt or refuse every
transfer for ever (strong fairness of `KernelMoves` and `KernelEnds`). No fairness is assumed of
callers elsewhere.

Symmetry is used on node addresses only, and only in runs without liveness.

## 4. What the violations show

- `umap_twice` (`map.c:1132`): after a relayout, a traverser continues in the new table
  at the next bucket number, where entries it has returned may now be. The
  documentation says that it stops.
- `rbtree_noreplace` (`map.c:668`): the test of HXMAP_NOREPLACE in `HXrbtree_replace` is
  inverted: adding an existing key fails without the flag and overwrites with it.
- `rbtree_dtrav` (`map.c:1161`): whether a checkpoint is copied is decided by bit 0 of the
  *map's* flags, which is HXMAP_NOREPLACE there, not by HXMAP_DTRAV of the traverser.
- `rbtree_dfree` (`map.c:753`): the error path of `HXrbtree_add` passes the key to `d_free`.
- `deque_move` (`deque.c:25`): `HXdeque_add` does not update the `prev` of the node to the
  right of the target.
- `io_sendfile` (`io.c:700`, `io.c:721`): the loops around copy_file_range and sendfile never reduce
  the count, so all that is left of the source is sent.
- `format_dequote` (`opt.c:448`): a backslash at the end of an argument is never stepped over.

Seen while modelling, without a run: `HXdeque_move` changes neither `items` when a node goes to
another deque, so that `HXdeque_to_vec` of that one writes past its allocation (`deque.c:173`); `HXhashmap_init4` frees through a NULL bucket array
when its first allocation fails (`map.c:374`); `HXmap_keysvalues` on an empty tree reads
children of NULL (`map.c:1072`); `HXmap_qfe` on a tree goes on with the ancestors after the
callback asked to stop (`map.c:1393`); `HXmap_del` on an empty tree leaves errno alone
(`map.c:939`), which the mapping of `ret` in `HXrbtree` sets aside;
with HXMAP_CDATA the data `HXmap_del` returns has been freed; a tid that wraps
exactly between two calls of a traverser goes unnoticed;
in a caller without some of its standard descriptors, `nullfd` may be 0, 1 or 2, and the
child closes it again after moving a duplicate onto it (`proc.c:279`), so the program finds
the descriptor closed; a failing `dup` in the child goes unnoticed (`proc.c:244`). `ChildWired`
names these two as exceptions. An interrupted `waitpid` makes `HXproc_run_sync` return with
the child not waited for (`proc.c:334`).

Files: at the end of the source `HX_sendfile_rw` reads 0 bytes and goes round for ever
(`io.c:741`), so `HX_copy_file` does not return where the kernel offers neither of the other ways,
and data read before an EINTR are lost; `CopyReturns` is about the other two. `HX_rrmdir` reports
ENOTEMPTY rather than the first error in a subdirectory, and takes the inner call's 0 for a
failure, which is harmless only because errno is 0 then (`io.c:630`). It opens with `opendir`, which follows
links, what `lstat` found to be a directory (`io.c:623`, `io.c:612`), and unlinks by path what `readdir` returned: when
another process puts a symbolic link in the place of a directory in between, the entries behind it are removed,
as they are when the path it is called with is a link. No document says otherwise. In the model these
removals happen (the file `Kept` goes), so `RemoveOK` claims that what links lead to stays
only where others put no links in the place of directories; that 0 means that the directory has gone
is claimed everywhere. `HX_copy_dir` masks the
file type out of st_mode before it asks for it (`io.c:282`) and copies nothing. `HX_realpath` on a
relative path whose first component is a relative link searches for a slash before its
buffer (`io.c:447`, `outcome = "outside"`); `a/../b` becomes `/b`; resolving ".." without "." turns
`/b/./..` into `/b`; in the working directory `/` paths begin with two slashes; a failing
HXmc_strcat after a link leaves the result 1 with no path. `HXmc_trunc` to more
than the data, but no more than the capacity, makes the data longer (`mc.c:130-132`); `doc/memory_container.rst:122-126` says that the length is not
updated whenever the new one exceeds the data. Only beyond the capacity is that so. `McOK` demands what the code does. And `HXmc_setlen` beyond it leaves the end without a
NUL.

Sockets: two processes at a time in `HX_local_listen` can take the address from each other, and any
error of connect counts as a dead socket (`socket.c:299`). `HX_addrport_split` truncates ports to 16 bits,
accepts spaces before them and takes `host:` for port 0: of `[]:` it returns 2 (`socket.c:103-114`), where
`tc-socket.c:31` expects 1 with port 0. `HostsOK` demands what the code does.

Options and formats: a "-" that cannot be recorded is lost without an error (`opt.c:665`); an
exact long name behind two longer ones is ambiguous (`opt.c:285`); a string option given twice leaks
the first value (`opt.c:231`). A template that ends in "%" is read past its end; a reference that
expands to nothing can make the whole expansion fail with a stale errno; an unterminated
reference returns -errno, possibly 0.

Strings: `HX_split` counts empty fields but `strtok_r` skips them, so ":" has a NULL inside the
vector (`string.c:249`); `HX_strrev` is wrong for even lengths; `HX_basename("")` points before the
string; `HX_strmid` with the smallest long copies everything (`string.c:424`); `HX_split_fixed` with
max = 0 writes one element; `HX_strtoull_period` and its ISO 8601 sibling do not reset
errno, so that the largest number passes for one that is too large while errno is ERANGE from before, with `*out_end` not set
(`string.c:1113-1115`, `1199-1201`; `PeriodOK` excepts just this), and take 1500 ms for 0 s. `HX_strtoull_unit` negates
modulo 2^64 what follows a "-" (`string.c:1004`, `1016`), where `doc/string_ops.rst:416-417` says that negative numbers are
outright rejected; and a duration without a unit ends the parsing (`string.c:1131-1137`), where `doc/string_ops.rst:439-443` lists the
empty string among the units, to mean seconds. `AmountsOK` demands what the code does in both cases, as `tc-string.c` does
("-5k" gives -5000ULL, "1s1" leaves "1").

## 5. Proofs

All proofs hold for every value of the constants that satisfies the named
assumptions, and are checked by TLAPS.

`HXumap_proofs` proves `Spec => []IndInv` from `NodesAssumption` (NULL is no address),
`HashAssumption` (hashes are naturals), `PrimesAssumption` (a table of positive sizes),
`LoadAssumption` (bands of neighbouring sizes overlap) and `SingularAssumption`. What the
runs check is not inductive as it stands: a relayout needs to know that the new size
has room (`CallOK`), that the node of a pending deletion is allocated but in neither
array, that the key of a pending addition is not there yet, and that no traverser
is in step with the map once a call has unlinked something or changed the table (`TravOK`). `IndInv` is the conjunction of the properties with these. From it follow
`TypeCorrect`, `TableCorrect` (placement, linked once, unique keys, across the two arrays of a
relayout), `NothingLostEver`, `LoadBounded` and `HeadAlwaysLinked`. The proof has one lemma per action;
lemmas on appending to and unlinking from a bucket array carry the set reasoning.

What traversers promise relates a whole history and needs `SeenInv` on top of it. It says, for
each traverser, that until the table is relaid out every entry returned so far is behind its
position (`BackOK`), and that until tid changes every entry of travinit that was not returned is
ahead of it (`AheadOK`). "Behind" is exact within a bucket only as long as the traverser follows
`head->next`; once a deletion has changed tid it goes on with the next bucket, and all of
its present bucket counts as behind. Links at the end of a bucket move no other entry
(`SeenAppend`), and unlinking one keeps the order of the rest. From it follow `TraversalsComplete` and the action
property `NeverRepeats`.

`Refinement == Spec => ImplementsMap` is proved with the mapping
`dict <- [k |-> data of the node with key k]`, over the allocated nodes: the step that
links a node or frees it is the abstract one, relayout steps leave the
dictionary alone.

`HXrbshape_proofs`, `HXrbtree_proofs` and `HXrbmap_proofs` are about the red-black tree, for any set of integer keys, any
addresses and traversers, and whatever addresses malloc may return (`RbAssumption`; that NULL is no key is a matter of
the model, in which a node with key NULL is free memory).

A tree without parent pointers is described by the set `L` of its nodes and a function `T` that gives the
nodes at and below each (`Shape`, `Tree`). That there is such a pair is the search tree property: children are in
the tree, the keys below a node are on their side of its key, subtrees are nested, and whatever subtree holds a node holds its
parent, unless it begins with that node. `Rotated`, `Inserted`, `Removed` and `Replaced` say what an operation does to the
pointers, and a lemma for each gives the new `T`. A red-black tree is described by a third function, `B`, the number of
black nodes on every way down; `Balanced` allows one pointer below which it is one short, `RedFree` one place with a red
node below a red one.

*Induction over trees.* The library's induction rules take a predicate as a parameter, and a leaf cannot
instantiate them. A property is therefore a *set* here: the nodes that have it. `LeastNat` (a nonempty set of
naturals has a least element) is the only fact about order needed; `NatInd`, `RankInd` and `TreeInd` follow: a set that contains a
node whenever it contains its children contains the tree. `RecExists` builds, by induction on the
size of the subtree, the function that each recursive definition (`InOrder`, `Spine`, `Walk`, `LeftTurns`, `BlackHeight`) describes; so its
equation may be used at every node, and what it returns is again a `TreeInd`: `InOrder` is the list of the tree's
nodes in strictly increasing order of keys, `Walk` leads to the key or to the empty place where it belongs.

*Invariant.* `RbInv` says that the allocated nodes, without the one a deletion has unlinked, are such a tree below `ROOT`, that
`items` counts them, and, by where the call is, how far it is red-black (`Balance`): `Settled` between calls; `Adding` at the start of each
iteration of `HXrbtree_amov`, where the path leads to the one red node that may have a red parent; `Deleting` at the start of each iteration of
`HXrbtree_dmov`, where the path leads to the one pointer that is a black node short. None of what the run checks is
inductive: the invariant must say where the tree is wrong. There is a lemma per case of the two
loops, done once for both sides. From it follow `TreeOKHolds`, `RedBlackHolds` and `TypeCorrect`.

*Path arrays.* A red-black tree whose ways down have b black nodes has at least 2^b - 1 nodes, and no more than every
other node of a path is red, so a path of more than 2d hops needs more than 2^d nodes. A deletion uses one entry more, for the node to
delete (map.c:972) and later for what `HXrbtree_dmov` pushes, and fits too (`AllFit`, for every d from 2 on): a tree of at most 2^d nodes whose black height
is d has one red node at most (`Counted`), so the path to a node is then all black and no longer than d. With `RBT_MAXDEP` = 48
these are the 16 million objects of the comment in `map_int.h` (`PathFitsHolds`). `FitInv` carries
the bound through a call: no iteration leaves the path longer than the call began with.

*Traversers.* `TravInv` says that while a traverser is in step with tid its path leads to its node and its node has the
key it returned last. An add that rotates nothing does not bump tid; the path stays right because the
new node is a leaf and no node on the path loses a child (`Wider`). A rewalk compares with the checkpoint, and
the two ways it goes on (the successor of the key, or the last left turn of the search when the key is gone) are
both the least key above it (`NextAt`). Hence `WalkInOrderHolds`, an action property.

*Refinement.* `Refinement == Spec => ImplementsMap`: the dictionary has the entries of all allocated nodes but the one an
add has not finished with. `Entries` (no two nodes have the same key; the call's node has the call's key) makes that a function;
rebalancing steps leave keys and data alone and are stutters.

`HXdeque_proofs` proves `Spec => []IndInv` for any deques, nodes and values, under
`MoveAnywhere = FALSE`: nodes are moved to the end of their own or of another deque and nowhere
else. `OtherMovesBreak` proves that this is all that can be allowed: every other move breaks
`ChainOK` in the state it leads to. The invariant says that the pointers of each deque are a chain
for its list (`ChainOK`), that each allocated node is listed once (`NodesOwned`), where the loops
of free and to_vec are (`FreeOK`, `VecOK`), and that new deques start without moved nodes (`NoneMoved`).
`DropChain`, `AppendChain` and `PrependChain` say what
unlinking and linking do to one chain; `Touches`/`TouchesOK` say that an operation on one
deque leaves the others alone; a move is `TakesOK`, then `PutsOK`. `EndsCorrect` is an action
property: pop and shift return what is at the ends.

In what follows `Spec` stands for the specification of the module at hand.

`HXsys_proofs` proves `NoLeak`, `ChildWired` and `CallbacksPaired` for every limit on descriptors and
whichever of 0, 1 and 2 the caller has closed. `LimitsAssumption` says that limits are greater
than 2. The invariant accounts for each descriptor of the caller (`CallerOK`: its
own, or `/dev/null`, or the end of a pipe that `pipes` or `proc` names) and ties what is open to how
far the call has got (`PhaseOK`). For the child it follows the duplicates (`DupOK`, `StdOK`, `MoveOK`).
That the three `dup2` do not destroy a duplicate still to be moved rests on a fact
nobody wrote down: something has been opened before the first `dup`, at the lowest
number, so 0 is in use and no duplicate is 0; and if 1 is redirected, 1 is in use when the
duplicate for 2 is made, so that one is not 1.

`HXbase_proofs` proves `AnswerOK` and `KeepsAddress` for any number of processes and addresses
(`SocketAssumption`: no process has the name of something else that can be at an address, and
addresses and inherited descriptors are counted). The first needs what a call holds at each of its steps (`CallOK`). The second needs that a
process that is alone has its socket at the address from `bind` on, and that once it
listens nobody is about to `unlink` (`AddressOK`): whoever comes later connects, and is answered.

`HXsys_proofs` also proves the action properties `CopyExact` and `SlurpWhole` for files, buffers, page
sizes and limits of any size (`IoAssumption`; a page has at least 3 bytes, so that doubling keeps
room for the read and the NUL). `CopyOK`: as long as the kernel copies, the destination is the file
up to `spos`, and the two counts of the read and write loop add up; with that loop
`HX_copy_file` never succeeds, see section 4. `SlurpOK`: the buffer is what lies between where the slurp began
and `spos`, and its size exceeds what it holds.

`HXlistmc_proofs` proves `ListOK` for any heads and nodes (`ListAssumption`: heads are not nodes, the two
kinds of heads are different). `Rings` says that `next` and `prev` of each head and node are the neighbours in the
list the calls describe, `Once` that no node is at two places. Lemmas on one ring
(inserted at either end, without one element, untouched) do the pointer reasoning. A safe loop
(`LoopOK`) has seen a prefix of what was there, stands at the element behind it with `n` the one
after, and those not yet seen are the last of the list (the first, for a reverse loop), in
order (`Ahead`), whatever its body unlinked.

`HXlistmc_proofs` also proves `McOK` for any capacities and lengths (`McAssumption`: they are naturals). `Block`,
`Holds` and `Closed` say of one container that the allocated block has one byte more than its capacity, holds what
was promised and is terminated. Lemmas say what `Room`, `Fill`, `Poke` and the others do to these, and
the theorem takes each call as a sequence of them. `CallOK` is needed for `HX_readlink` and `HX_getcwd`: the
size given to the kernel never exceeds the capacity.

`HXbase_proofs` also proves `UsersCounted` for any finite set of threads (`ThreadsAssumption`). Mutual exclusion
(`Exclusive`) makes the value that was read the present one (`ReadFresh`); the rest is the cardinality of a set
of references that gains or loses one. It also proves `TimeOK`, for units of any length of which one divides the
other (`TimeAssumption`). The invariant is that the accumulator is `Spec_of` the exact time. Carries are divisions
by a constant, so the lemmas are about `Quo` and `Rem`: they reproduce the dividend (`QuoRem`), turn
around with its sign (`QuoRemNeg`), and the quotient is negative exactly from minus one second downwards
(`QuoSign`), which is the case distinction of the normal form.

`HXsys_proofs` also proves the action properties `RemoveOK` and `MakeOK`, for trees of every shape, paths of
every length and others that work in the tree meanwhile (`FsAssumption`: `ParentOf` is a function into the tree,
the link and the place it leads to are apart from `Root`). That `HX_rrmdir` succeeds on a tree nobody else touches
needs what each pending call knows (`Clean`): entries readdir has still to return are there, those it
has returned have gone, but for the one at hand. The innermost call must not disturb this for
the others. It does not, because calls are chained through their entries at hand and no two are for
the same directory (`Chain`); an entry has one parent, so that follows without an induction over the tree. Where
others put links in the place of directories all this may fail, and `LinksInv` keeps the little that is needed there: the
outermost call is for `Root` and values are 0 or -1. `HX_mkdir` needs
that the prefix before the next one was made or found (`PrefixMade`), which others may not undo as long as
they only make things.

`HXbase_proofs` also proves `SamePlace` for every tree, path, working directory and number of links
(`RealpathAssumption`: no file is called `.`, `..` or nothing, and what is above a place is a place).
That the kernel's walk is what its recursive definition says (`WalkIs`) is proved as `RecExists` is for trees:
a step leaves fewer links, or as many and fewer components (`Less`), and there is no least walk that has no such function. The
invariant, `Arrived`, is that `dest` leads, without a link and whatever follows it, to a directory from which
what is left of the path leads where the whole path leads with the links still allowed. `Plain` says
how `dest` is written. Cutting the last component off for `..` is right because of `Plain` only: it is
the last name of the directory, or stays in the root. Hence `..` after a link goes to what is above the place the link leads to, errors are the kernel's, and a
relative target is never looked for before the beginning of the buffer. The hypotheses of `SamePlace` (an absolute path or
`HX_REALPATH_ABSOLUTE`) are needed: see section 4.

`LiveAssumption` and `PartsAssumption`, which TLC evaluates, say that the instances it explores
satisfy what the theorems assume.

Only model-checked, and why:

- liveness (`TraversalEnds`, `LoopsEnd`, `CallsReturn`, `Reaped`, `CopyReturns`): it needs fairness;
- `HXopt`, `HXshconf`, `HXformat`, `HXstring`, `HXquote`, `HXamount`: they compare with RECURSIVE
  operators over texts and command lines, in whose presence the provers lose their SMT backend.

## 6. Not modelled, and the plan

Not modelled, and why:

- hash functions: mixing without a property; `HXumap` takes any function;
- a hash map whose init fails; `HXmap_keysvalues` and `HXmap_qfe`, which only read;
- `HXproc_switch_user`, `HXproc_switch_group`, `HXproc_top_fd`: what they do is what the kernel and the
  user database do; two children at a time (the pipes are not close-on-exec, so the second
  inherits the first one's stdin, `proc.c:152`);
- help and usage texts and the older entry points of the option parser, integer types of
  every width and callbacks; `HX_shconfig_map`;
- functions of the formatter beyond echo, if and upper, and those that run programs or read files;
- `HX_copy_dir`, and stand-ins for functions that Windows lacks;
- `HX_sockaddr_is_local` and what it needs of interface lists;
- `HX_timespec_mulf` (floating point), `HX_unit_size`, `HX_unit_seconds` (formatting);
- `misc.c`, `dl.c`, the C++ headers: thin wrappers without state; the quality of random numbers.

Worth proving next: the text modules. Their reference definitions are RECURSIVE operators, which keep a module from
being proved about; as recursive functions they could be treated as the walks of the tree and of the kernel
are (`RecExists`, `WalkExists`, with the length of what is left as the rank).
