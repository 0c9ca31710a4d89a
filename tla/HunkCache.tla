----------------------------- MODULE HunkCache -----------------------------
(***************************************************************************)
(* The hunk and the cache (libs/util/zone.c).  One arena of hunk_size      *)
(* units: the low hunk grows from 0, the high hunk from the other end; the *)
(* high hunk is cache blocks and, below them, perhaps one temporary area.  *)
(* Cache blocks form two lists through cache_head: by place (chain, top    *)
(* first) and by use (lru, most recent first).  One thread runs all this;  *)
(* the loops of Cache_Alloc and Cache_Flush take a step per block.         *)
(*                                                                         *)
(* Sizes are in units of 16 bytes, to which the code rounds; the size of a *)
(* block includes its header.  A block is known by its address.            *)
(***************************************************************************)
EXTENDS Integers, Sequences, FiniteSets, SequencesExt

CONSTANTS
    Users,       \* the cache_user_t of the models, sounds, ...
    HunkSize,    \* hunk_size
    Header,      \* sizeof (cache_system_t), rounded up
    HunkHeader,  \* sizeof (hunk_t)
    SizeMod,     \* size_t counts modulo SizeMod
    CacheSizes,  \* sizes of cache blocks
    LowSizes,    \* sizes of low hunk allocations
    TempSizes,   \* sizes of temporary allocations
    MaxLocks,    \* bound: read locks held on a block
    NoUser, NoBlock

ASSUME SizeAssumption ==
    /\ HunkSize \in Nat \ {0} /\ Header \in Nat \ {0} /\ HunkHeader \in Nat \ {0}
    /\ SizeMod \in Nat /\ SizeMod > HunkSize + Header
    /\ CacheSizes \subseteq {n \in Nat : n >= Header}
    /\ LowSizes \subseteq {n \in Nat : n >= HunkHeader}
    /\ TempSizes \subseteq Nat \ {0}
    /\ MaxLocks \in Nat \ {0}
ASSUME NameAssumption == NoUser \notin Users /\ NoBlock \notin Nat

VARIABLES
    marks,           \* the low hunk: 0 and the end of each allocation
    hunk_high_used,
    hunk_tempactive,
    hunk_tempmark,
    chain,           \* cache_head.next, ..., cache_head.prev: addresses
    block,           \* address -> header of the block there
    lru,             \* cache_head.lru_next, ..., cache_head.lru_prev
    data,            \* c->data, as the address of the block, or NoBlock
    added,           \* users with an object and a loader
    running,         \* the loop in progress
    error            \* "", what Sys_Error stopped the program with, or
                     \* "torn header", where the model stops

hunkvars  == <<marks, hunk_high_used, hunk_tempactive, hunk_tempmark>>
cachevars == <<chain, block, lru, data>>
vars      == <<hunkvars, cachevars, added, running, error>>

hunk_low_used == marks[Len(marks)]

Address == 0..HunkSize
Headers == [size : 0..HunkSize, user : Users \cup {NoUser}, readlock : 0..MaxLocks]
Idle == [loop |-> "none"]
Running == {Idle, [loop |-> "flush"]}
           \cup [loop : {"alloc"}, user : Users, size : CacheSizes, lock : BOOLEAN]

TypeOK ==
    /\ marks \in Seq(Address) /\ marks # <<>>
    /\ hunk_high_used \in 0..HunkSize
    /\ hunk_tempactive \in BOOLEAN
    /\ hunk_tempmark \in 0..HunkSize
    /\ chain \in Seq(Address)
    /\ DOMAIN block = ToSet(chain)
    /\ \A a \in DOMAIN block : block[a] \in Headers
    /\ lru \in Seq(DOMAIN block)
    /\ data \in [Users -> Address \cup {NoBlock}]
    /\ added \subseteq Users
    /\ running \in Running
    /\ error \in {"", "out of memory", "locked block", "low hunk", "torn header"}

Init ==     \* Memory_Init, Cache_Init
    /\ marks = <<0>>
    /\ hunk_high_used = 0
    /\ hunk_tempactive = FALSE
    /\ hunk_tempmark = 0
    /\ chain = <<>>
    /\ block = <<>>
    /\ lru = <<>>
    /\ data = [c \in Users |-> NoBlock]
    /\ added = {}
    /\ running = Idle
    /\ error = ""

----------------------------------------------------------------------------
(* The high mark without the temporary area, which the next allocation or  *)
(* release at the high end gives up (Hunk_HighMark).                       *)
HighMark_Forgotten == hunk_high_used
HighMark == IF hunk_tempactive THEN hunk_tempmark ELSE hunk_high_used

Room == HunkSize - hunk_low_used - HighMark

Used(a) == block[a].user # NoUser
Place(a) == CHOOSE i \in DOMAIN chain : chain[i] = a
Without_KeepsLink(s, a) == s
Without(s, a) ==        \* Cache_UnlinkLRU, of a block that is linked
    IF a \in ToSet(s) THEN RemoveAt(s, CHOOSE i \in DOMAIN s : s[i] = a) ELSE s
Recent(a) == <<a>> \o Without(lru, a)      \* Cache_MakeLRU

(* Cache_Free: the block joins a free neighbour on either side, and leaves *)
(* the cache, and the high hunk, when nothing is left below it.  The       *)
(* temporary area survives only if nothing leaves.                         *)
MergeUp(i) == IF i > 1 /\ ~Used(chain[i - 1]) THEN i - 1 ELSE i
MergeDown_Never(i) == i
MergeDown(i) == IF i < Len(chain) /\ ~Used(chain[i + 1]) THEN i + 1 ELSE i

SizeUnless(a, b) == IF a = b THEN 0 ELSE block[a].size

CacheFree(c, keeptemp) ==
    LET a == data[c]
        i == MergeUp(Place(a))
        j == MergeDown(Place(a))
        above == SubSeq(chain, 1, i - 1)
        merged == [size |-> block[a].size + SizeUnless(chain[i], a)
                                          + SizeUnless(chain[j], a),
                   user |-> NoUser, readlock |-> 0]
    IN
    /\ lru' = Without(lru, a)
    /\ data' = [data EXCEPT ![c] = NoBlock]
    /\ IF j = Len(chain)
         THEN /\ chain' = above
              /\ hunk_high_used' = IF i = 1 THEN 0 ELSE HunkSize - chain[i - 1]
              /\ hunk_tempactive' = FALSE
         ELSE /\ chain' = above \o SubSeq(chain, j, Len(chain))
              /\ hunk_high_used' = IF keeptemp THEN hunk_high_used ELSE HighMark
              /\ hunk_tempactive' = (keeptemp /\ hunk_tempactive)
    /\ block' = [b \in ToSet(chain') |-> IF b = chain[j] THEN merged ELSE block[b]]
    /\ UNCHANGED hunk_tempmark

(* Cache_FreeLRU takes the least recently used block that is not locked.   *)
Unlocked_Ignored == ToSet(lru)
Unlocked == {a \in ToSet(lru) : block[a].readlock = 0}
IsVictim(a) ==
    \E i \in DOMAIN lru :
        /\ lru[i] = a /\ a \in Unlocked
        /\ \A k \in i + 1 .. Len(lru) : lru[k] \notin Unlocked

FreeLRU(keeptemp) == \E a \in Unlocked : IsVictim(a) /\ CacheFree(block[a].user, keeptemp)

SysError(msg) ==
    /\ error' = msg
    /\ UNCHANGED <<hunkvars, cachevars, added, running>>

----------------------------------------------------------------------------
(* Hunk *)

Ready == running = Idle /\ error = ""

(* Hunk_AllocName; Cache_FreeLow is the test for "low hunk".               *)
FitsLow_IgnoresHigh(n) == HunkSize - hunk_low_used >= n
FitsLow(n) == HunkSize - hunk_low_used - hunk_high_used >= n

Grow(n) ==
    /\ marks' = Append(marks, hunk_low_used + n)
    /\ error' = IF chain' # <<>> /\ Last(chain') < hunk_low_used + n
                  THEN "low hunk" ELSE ""
    /\ UNCHANGED <<added, running>>

HunkAlloc(n) ==
    /\ Ready
    /\ \/ FitsLow(n) /\ UNCHANGED <<hunk_high_used, hunk_tempactive, hunk_tempmark,
                                    cachevars>> /\ Grow(n)
       \/ /\ ~FitsLow(n)
          /\ IF Unlocked = {}
               THEN /\ hunk_high_used' = HighMark
                    /\ hunk_tempactive' = FALSE
                    /\ UNCHANGED <<hunk_tempmark, cachevars>>
               ELSE FreeLRU(FALSE)
          /\ IF HunkSize - hunk_low_used - hunk_high_used' >= n
               THEN Grow(n)
               ELSE error' = "out of memory" /\ UNCHANGED <<marks, added, running>>

(* Hunk_FreeToLowMark, with a mark Hunk_LowMark returned.                  *)
HunkFreeToLowMark ==
    /\ Ready
    /\ \E i \in DOMAIN marks : marks' = SubSeq(marks, 1, i)
    /\ UNCHANGED <<hunk_high_used, hunk_tempactive, hunk_tempmark, cachevars,
                   added, running, error>>

(* Hunk_TempAlloc: the area in use serves again if it is large enough.  A  *)
(* failing Hunk_HighAlloc leaves an empty temporary area.                  *)
HunkTempAlloc(n) ==
    /\ Ready
    /\ ~(hunk_tempactive /\ hunk_high_used - hunk_tempmark >= n + HunkHeader)
    /\ hunk_tempmark' = HighMark
    /\ hunk_tempactive' = TRUE
    /\ hunk_high_used' = IF Room >= n THEN HighMark + n ELSE HighMark
    /\ UNCHANGED <<marks, cachevars, added, running, error>>

----------------------------------------------------------------------------
(* Cache *)

(* Cache_Alloc, or Cache_TryGet of an absent block through its loader.     *)
CacheAlloc(c, n) ==
    /\ Ready
    /\ data[c] = NoBlock
    /\ c \notin added
    /\ running' = [loop |-> "alloc", user |-> c, size |-> n, lock |-> FALSE]
    /\ UNCHANGED <<hunkvars, cachevars, added, error>>

CacheLoad(c, n) ==
    /\ Ready
    /\ data[c] = NoBlock
    /\ c \in added
    /\ running' = [loop |-> "alloc", user |-> c, size |-> n, lock |-> TRUE]
    /\ UNCHANGED <<hunkvars, cachevars, added, error>>

Allocating == running.loop = "alloc" /\ error = ""

Fits(i, n) == ~Used(chain[i]) /\ block[chain[i]].size >= n
FirstFit(i, n) == Fits(i, n) /\ \A k \in 1 .. i - 1 : ~Fits(k, n)
NoFit(n) == \A i \in DOMAIN chain : ~Fits(i, n)

(* "carve it up for later reuse": the test means the rest, and subtracts   *)
(* the other way round in size_t.                                          *)
Carves(n, have) == (n - have) % SizeMod >= Header

Installed(n) == [size |-> n, user |-> running.user,
                 readlock |-> IF running.lock THEN 1 ELSE 0]

(* Cache_TryAlloc found or made a block at a; the rest of Cache_Alloc and  *)
(* Cache_TryGet.                                                           *)
Install(a) ==
    /\ data' = [data EXCEPT ![running.user] = a]
    /\ lru' = Recent(a)
    /\ running' = Idle
    /\ UNCHANGED <<marks, hunk_tempmark, added, error>>

AllocWhole ==
    /\ Allocating
    /\ \E i \in DOMAIN chain :
          LET a == chain[i] IN
          /\ FirstFit(i, running.size)
          /\ ~Carves(running.size, block[a].size)
          /\ block' = [block EXCEPT ![a] = Installed(@.size)]
          /\ Install(a)
    /\ UNCHANGED <<chain, hunk_high_used, hunk_tempactive>>

(* The upper portion becomes the new block, which precedes the rest.       *)
AllocCarved ==
    /\ Allocating
    /\ \E i \in DOMAIN chain :
          LET a == chain[i]
              rest == block[a].size - running.size
          IN
          /\ FirstFit(i, running.size)
          /\ Carves(running.size, block[a].size)
          /\ rest >= Header
          /\ chain' = InsertAt(chain, i, a + rest)
          /\ block' = [b \in ToSet(chain') |->
                          CASE b = a + rest -> Installed(running.size)
                            [] b = a        -> [block[a] EXCEPT !.size = rest]
                            [] OTHER        -> block[b]]
          /\ Install(a + rest)
    /\ UNCHANGED <<hunk_high_used, hunk_tempactive>>

(* The test lets a rest of less than a header pass.  Then the new block's  *)
(* memset and fields run over the end of the header the rest is to keep:   *)
(* its size, lock and user may become anything, and with them what the     *)
(* next steps do.  Some builds stop at once in Cache_MakeLRU, others go on *)
(* with a wild user or a lost size; the model does not go on.              *)
AllocTorn ==
    /\ Allocating
    /\ \E i \in DOMAIN chain :
          /\ FirstFit(i, running.size)
          /\ Carves(running.size, block[chain[i]].size)
          /\ block[chain[i]].size - running.size < Header
          /\ \E h \in Headers : block' = [block EXCEPT ![chain[i]] = h]
    /\ error' = "torn header"
    /\ UNCHANGED <<hunkvars, chain, lru, data, added, running>>

(* Hunk_HighAlloc: the new bottom of the cache.                            *)
AllocBottom ==
    LET a == HunkSize - HighMark - running.size IN
    /\ Allocating
    /\ NoFit(running.size)
    /\ Room >= running.size
    /\ hunk_high_used' = HighMark + running.size
    /\ hunk_tempactive' = FALSE
    /\ chain' = Append(chain, a)
    /\ block' = [b \in ToSet(chain') |->
                    IF b = a THEN Installed(running.size) ELSE block[b]]
    /\ Install(a)

AllocEvicts_Spins ==
    /\ Allocating
    /\ NoFit(running.size)
    /\ Room < running.size
    /\ FreeLRU(FALSE) /\ UNCHANGED <<marks, added, running, error>>

(* Cache_TryAlloc failed, having given up the temporary area.              *)
AllocEvicts ==
    /\ Allocating
    /\ NoFit(running.size)
    /\ Room < running.size
    /\ IF Unlocked = {}
         THEN SysError("out of memory")
         ELSE FreeLRU(FALSE) /\ UNCHANGED <<marks, added, running, error>>

AllocStep == AllocWhole \/ AllocCarved \/ AllocTorn \/ AllocBottom \/ AllocEvicts

(* Cache_Check *)
CacheCheck(c) ==
    /\ Ready
    /\ data[c] # NoBlock
    /\ lru' = Recent(data[c])
    /\ UNCHANGED <<hunkvars, chain, block, data, added, running, error>>

(* Cache_TryGet of a block that is present.                                *)
CacheGet(c) ==
    /\ Ready
    /\ c \in added
    /\ data[c] # NoBlock
    /\ block[data[c]].readlock < MaxLocks
    /\ block' = [block EXCEPT ![data[c]].readlock = @ + 1]
    /\ lru' = Recent(data[c])
    /\ UNCHANGED <<hunkvars, chain, data, added, running, error>>

CacheRelease(c) ==
    /\ Ready
    /\ data[c] # NoBlock
    /\ block[data[c]].readlock > 0
    /\ block' = [block EXCEPT ![data[c]].readlock = @ - 1]
    /\ UNCHANGED <<hunkvars, chain, lru, data, added, running, error>>

Freeable(c) == data[c] # NoBlock /\ block[data[c]].readlock = 0

CacheFreed(c) ==
    /\ Ready
    /\ Freeable(c)
    /\ CacheFree(c, TRUE)
    /\ UNCHANGED <<marks, added, running, error>>

CacheAdd(c) ==
    /\ Ready
    /\ c \notin added
    /\ data[c] = NoBlock
    /\ added' = added \cup {c}
    /\ UNCHANGED <<hunkvars, cachevars, running, error>>

CacheRemove(c) ==
    /\ Ready
    /\ c \in added
    /\ added' = added \ {c}
    /\ IF data[c] = NoBlock
         THEN UNCHANGED <<hunk_high_used, hunk_tempactive, hunk_tempmark, cachevars>>
         ELSE Freeable(c) /\ CacheFree(c, TRUE)
    /\ UNCHANGED <<marks, running, error>>

(* Cache_Flush frees the bottom block, "guaranteed to not be free", until  *)
(* there is none.                                                          *)
CacheFlush ==
    /\ Ready
    /\ running' = [loop |-> "flush"]
    /\ UNCHANGED <<hunkvars, cachevars, added, error>>

FlushStep ==
    /\ running.loop = "flush" /\ error = ""
    /\ IF chain = <<>>
         THEN running' = Idle /\ UNCHANGED <<hunkvars, cachevars, added, error>>
         ELSE IF block[Last(chain)].readlock > 0
                THEN SysError("locked block")
                ELSE /\ CacheFree(block[Last(chain)].user, TRUE)
                     /\ UNCHANGED <<marks, added, running, error>>

----------------------------------------------------------------------------
Next ==
    \/ \E n \in LowSizes : HunkAlloc(n)
    \/ HunkFreeToLowMark
    \/ \E n \in TempSizes : HunkTempAlloc(n)
    \/ \E c \in Users :
          \/ \E n \in CacheSizes : CacheAlloc(c, n) \/ CacheLoad(c, n)
          \/ CacheCheck(c) \/ CacheGet(c) \/ CacheRelease(c)
          \/ CacheFreed(c) \/ CacheAdd(c) \/ CacheRemove(c)
    \/ AllocStep
    \/ CacheFlush \/ FlushStep

Spec == Init /\ [][Next]_vars

(* Cache_Alloc and Cache_Flush are loops of a running program.             *)
FairSpec == Spec /\ WF_vars(AllocStep) /\ WF_vars(FlushStep)

----------------------------------------------------------------------------
(* Properties *)

Top(i) == IF i = 1 THEN HunkSize ELSE chain[i - 1]

(* check_cache: the blocks tile the high hunk, without a gap or an overlap,*)
(* down to the high mark.                                                  *)
Tiling ==
    /\ \A i \in DOMAIN chain : chain[i] + block[chain[i]].size = Top(i)
    /\ HighMark = IF chain = <<>> THEN 0 ELSE HunkSize - Last(chain)

(* The high hunk and the low hunk never meet.                              *)
HunksApart ==
    /\ hunk_low_used + hunk_high_used <= HunkSize
    /\ hunk_tempactive => hunk_tempmark <= hunk_high_used

(* Free space is never split between neighbours, and never at the bottom,  *)
(* where Cache_Flush relies on finding a block in use.                     *)
Coalesced ==
    /\ \A i \in 1 .. Len(chain) - 1 : Used(chain[i]) \/ Used(chain[i + 1])
    /\ chain # <<>> => Used(Last(chain))

(* The blocks in use, the LRU list and the users' pointers agree, so that  *)
(* neither Cache_UnlinkLRU nor Cache_MakeLRU finds a wrong link.           *)
InUseAgree ==
    /\ \A i, k \in DOMAIN lru : lru[i] = lru[k] => i = k
    /\ ToSet(lru) = {a \in DOMAIN block : Used(a)}
    /\ \A c \in Users : data[c] # NoBlock =>
          data[c] \in DOMAIN block /\ block[data[c]].user = c
    /\ \A a \in DOMAIN block : Used(a) => data[block[a].user] = a

Sound == Tiling /\ HunksApart /\ Coalesced /\ InUseAgree

(* All this holds until a rest of less than a header is carved off, after  *)
(* which the program promises nothing.                                     *)
CacheInv == error # "torn header" => Sound

(* Hunk_AllocName makes its room before Cache_FreeLow looks for it.        *)
LowNeverMeetsCache == error # "low hunk"

(* A read-locked block stays where it is: eviction, coalescing and low     *)
(* hunk growth pass it by; only its user's release unlocks it.             *)
LockedStay ==
    [][\A c \in Users : data[c] # NoBlock /\ block[data[c]].readlock > 0 =>
          /\ data'[c] = data[c]
          /\ block'[data[c]].user = c
          /\ block'[data[c]].size = block[data[c]].size]_vars

(* Cache_Alloc runs out of memory only when no stretch of the arena above  *)
(* the low hunk that is free of locked blocks could hold the new block:    *)
(* eviction and coalescing leave nothing unused, in a program that has not *)
(* torn a header.                                                          *)
Locked == {a \in DOMAIN block : block[a].readlock > 0}
Overlaps(a, n, b) == a < b + block[b].size /\ b < a + n
OutOfMemoryHonest ==
    error = "out of memory" /\ running.loop = "alloc" =>
        \A a \in hunk_low_used .. HunkSize - running.size :
            \E b \in Locked : Overlaps(a, running.size, b)

(* Cache_Alloc and Cache_Flush come to an end, or the program does.        *)
LoopsEnd == running # Idle ~> running = Idle \/ error # ""
=============================================================================
