------------------------------ MODULE Commands ------------------------------
(***************************************************************************)
(* ProcessCommandsInternal of brotli-exp/src/decode.rs: the commands of    *)
(* the compressed metablocks, what the symbols mean and which prefix code  *)
(* each is read with.  A command has literals and a distance; literals,    *)
(* commands and distances come in blocks of several types, and the type    *)
(* (with a context, for literals and distances) tells the prefix code.     *)
(*                                                                         *)
(* The fast version runs while there is plenty of input and looks for it   *)
(* between symbols, the safe one may run out of input in any symbol, puts  *)
(* the bits back and starts the symbol again in a later call.  What bits   *)
(* there are is the matter of StreamInput, the contents of the ring buffer *)
(* that of OutputRing: here a symbol is chosen, and pos is the number of   *)
(* bytes decoded, not wrapped at the end of the ring.                      *)
(***************************************************************************)
EXTENDS Integers, Sequences

CONSTANTS
  BlockTypeCounts,  \* numbers of block types, for each category
  BlockLengths,     \* lengths of the blocks of one of several types
  OneTypeLength,    \* 1 << 24: the block length when there is one type
  LiteralContexts,  \* 1 << kLiteralContextBits: contexts of a literal
  LiteralMaps,      \* context maps: which tree for type and context
  DistanceMaps,     \* the same for distances
  MetablockLengths,
  InsertLengths,    \* literals of a command
  CopyLengths,      \* copied bytes of a command
  WordLengths,      \* copy lengths for which the dictionary has words
  WordBytes,        \* bytes of such a word after its transform
  Distances,        \* distances that symbols may name
  ShortCodes,       \* short codes tried, among 0 .. 15
  MaxBackward,      \* s.max_backward_distance
  MaxAllowed,       \* kBrotliMaxAllowedDistance
  RingSize,         \* s.ringbuffer_size
  MaxMetablocks,    \* bound: metablocks of a stream
  MaxEmptyWords     \* bound: words of no bytes in a metablock

Categories == {"literal", "command", "distance"}

DistanceContexts == 4

ASSUME CommandsAssumption ==
  /\ BlockTypeCounts \subseteq [Categories -> 1 .. 256] /\ LiteralContexts \in Nat \ {0}
  /\ BlockLengths \subseteq Nat \ {0}
  /\ InsertLengths \subseteq Nat /\ CopyLengths \subseteq Nat \ {0, 1}
  /\ WordLengths \subseteq CopyLengths /\ WordBytes \subseteq Nat
  /\ Distances \subseteq 1 .. MaxAllowed + 1 /\ ShortCodes \subseteq 0 .. 15
  /\ MetablockLengths \subseteq 1 .. OneTypeLength /\ OneTypeLength \in Nat
  /\ {MaxBackward, MaxAllowed, RingSize} \subseteq Nat
  /\ 16 <= MaxAllowed /\ MaxBackward < RingSize /\ MaxBackward < MaxAllowed
  /\ {MaxMetablocks, MaxEmptyWords} \subseteq Nat

\* A context map has a tree for every type and context.
ASSUME MapsAssumption ==
  \A counts \in BlockTypeCounts :
    /\ \A map \in LiteralMaps, type \in 0 .. counts["literal"] - 1,
          context \in 0 .. LiteralContexts - 1 :
            map[type * LiteralContexts + context] \in 0 .. 255
    /\ \A map \in DistanceMaps, type \in 0 .. counts["distance"] - 1,
          context \in 0 .. DistanceContexts - 1 :
            map[type * DistanceContexts + context] \in 0 .. 255

VARIABLES
  state,                         \* s.state
  safe,                          \* in the safe version
  num_block_types,               \* of each category
  block_type_rb,                 \* the last two types of each category
  block_length,                  \* what is left of the block of each category;
                                 \* -1 and below when the u32 has wrapped
  context_map,                   \* s.context_map
  dist_context_map,              \* s.dist_context_map
  context_map_slice_index,       \* where the literal type starts in context_map
  trivial_literal_context,       \* all contexts of the literal type have one tree
  literal_htree_index,           \* that tree
  literal_htree,                 \* local: the tree whose next symbol was preloaded
  htree_command_index,           \* the tree of the commands
  dist_context_map_slice_index,  \* where the distance type starts in its map
  dist_htree_index,              \* the tree of the next distance
  hgroups,                       \* the trees are in the state, not in local variables
  distance_code,                 \* -1: to be read, 0: the last one
  distance_context,
  copy_length,
  loop_counter,                  \* literals to go
  dist_rb,                       \* the last four distances
  dist_rb_idx,                   \* modulo 4: its other bits are never used
  max_distance,
  pos,                           \* bytes decoded
  remaining,                     \* s.meta_block_remaining_len
  error_code,
  metablocks,                    \* how many have begun
  reference,                     \* history: the last distance read, and its symbol
  empty_words                    \* history: words of no bytes in this metablock

blocks == <<num_block_types, block_type_rb, block_length>>
maps == <<context_map, dist_context_map>>
literals == <<context_map_slice_index, trivial_literal_context, literal_htree_index>>
distances == <<dist_context_map_slice_index, dist_htree_index, distance_context>>
ring == <<dist_rb, dist_rb_idx, max_distance, reference, empty_words>>
progress == <<pos, remaining, loop_counter>>
outcome == <<hgroups, error_code, metablocks>>
vars == <<state, safe, blocks, maps, literals, literal_htree, htree_command_index,
          distances, distance_code, copy_length, ring, progress, outcome>>

Outside == -1     \* literal_htree: not in a loop over literals
ByContext == -2   \* literal_htree: in the loop that looks each tree up

Success == "SUCCESS"
Errors == {"ERROR_FORMAT_DISTANCE", "ERROR_FORMAT_TRANSFORM", "ERROR_FORMAT_DICTIONARY",
           "ERROR_FORMAT_BLOCK_LENGTH_1"}

ReadStates == {"command_begin", "inner", "post_decode_literals"}

Processing == error_code = Success /\ state \in ReadStates

BlockType(c) == block_type_rb[c][2]

Init ==
  /\ state = "metablock_begin" /\ safe = FALSE
  /\ num_block_types = [c \in Categories |-> 0]
  /\ block_type_rb = [c \in Categories |-> <<0, 0>>]
  /\ block_length = [c \in Categories |-> 0]
  /\ context_map = <<>> /\ dist_context_map = <<>>
  /\ context_map_slice_index = 0 /\ trivial_literal_context = FALSE
  /\ literal_htree_index = 0 /\ literal_htree = Outside
  /\ htree_command_index = 0 /\ dist_context_map_slice_index = 0
  /\ dist_htree_index = 0 /\ hgroups = TRUE
  /\ distance_code = 0 /\ distance_context = 0 /\ copy_length = 0 /\ loop_counter = 0
  /\ dist_rb = [k \in 0 .. 3 |-> <<16, 15, 11, 4>>[k + 1]] /\ dist_rb_idx = 0
  /\ max_distance = 0 /\ pos = 0 /\ remaining = 0
  /\ error_code = Success /\ metablocks = 0
  /\ reference = [symbol |-> [code |-> 16, distance |-> 0], distance |-> 0]
  /\ empty_words = 0
-----------------------------------------------------------------------------
(* Metablocks and their blocks *)

\* DetectTrivialLiteralBlockTypes.
Trivial(map, type) ==
  \A context \in 0 .. LiteralContexts - 1 :
    map[type * LiteralContexts + context] = map[type * LiteralContexts]

PrepareLiteralDecoding(map, type) ==
  /\ context_map_slice_index' = type * LiteralContexts
  /\ trivial_literal_context' = Trivial(map, type)
  /\ literal_htree_index' = map[type * LiteralContexts]

\* Mutation: the one type of a category has a block that is too short.
FirstLengthShort(count, length) == IF count = 1 THEN OneTypeLength - 1 ELSE length

\* HUFFMAN_CODE_0 .. 3: only a category with several types has its first length read.
FirstLength(count, length) == IF count = 1 THEN OneTypeLength ELSE length

\* From METABLOCK_BEGIN to TREE_GROUP.  The recent distances stay.
BeginMetablock(length, counts, lengths, map, dist_map) ==
  /\ error_code = Success /\ state = "metablock_begin" /\ metablocks < MaxMetablocks
  /\ metablocks' = metablocks + 1 /\ remaining' = length
  /\ num_block_types' = counts
  /\ block_type_rb' = [c \in Categories |-> <<1, 0>>]
  /\ block_length' = [c \in Categories |-> FirstLength(counts[c], lengths[c])]
  /\ context_map' = map /\ dist_context_map' = dist_map
  /\ PrepareLiteralDecoding(map, 0)
  /\ dist_context_map_slice_index' = 0 /\ dist_htree_index' = 0
  /\ htree_command_index' = 0
  /\ loop_counter' = 3
  /\ state' = "command_begin" /\ safe' = FALSE /\ empty_words' = 0
  /\ UNCHANGED <<literal_htree, distance_context, distance_code, copy_length, dist_rb,
                 dist_rb_idx, max_distance, reference, pos, hgroups, error_code>>

MetablockDone ==
  /\ error_code = Success /\ state = "metablock_done"
  /\ state' = IF metablocks < MaxMetablocks THEN "metablock_begin" ELSE "done"
  /\ UNCHANGED <<safe, blocks, maps, literals, literal_htree, htree_command_index,
                 distances, distance_code, copy_length, ring, progress, outcome>>

\* What a block type symbol stands for: the type before, the next one, or itself.
NextType(c, symbol) ==
  LET type == CASE symbol = 0 -> block_type_rb[c][1]
                [] symbol = 1 -> BlockType(c) + 1
                [] OTHER -> symbol - 2
  IN  IF type >= num_block_types[c] THEN type - num_block_types[c] ELSE type

\* DecodeBlockTypeAndLength, with enough input.
SwitchBlock(c, symbol, length) ==
  /\ block_length[c] = 0 /\ num_block_types[c] > 1
  /\ block_type_rb' = [block_type_rb EXCEPT ![c] = <<BlockType(c), NextType(c, symbol)>>]
  /\ block_length' = [block_length EXCEPT ![c] = length]
  /\ UNCHANGED num_block_types

\* A symbol may be read: the block has some left, or the fast version does not mind.
BlockGoesOn(c) == block_length[c] # 0 \/ (~safe /\ num_block_types[c] = 1)

TakeSymbol(c) == [block_length EXCEPT ![c] = @ - 1]
-----------------------------------------------------------------------------
(* Running out of input *)

\* The fast version looks for input before a command and before each literal, and
\* when a call enters it; the safe one takes over at the same place.
FastEnds ==
  /\ Processing /\ ~safe
  /\ safe' = TRUE /\ literal_htree' = Outside
  /\ UNCHANGED <<state, blocks, maps, literals, htree_command_index, distances,
                 distance_code, copy_length, ring, progress, outcome>>

\* The safe version has no bits for a symbol, or for both parts of a block switch; a
\* later call begins with the fast one.
SafeEnds ==
  /\ Processing /\ safe
  /\ safe' = FALSE /\ literal_htree' = Outside
  /\ UNCHANGED <<state, blocks, maps, literals, htree_command_index, distances,
                 distance_code, copy_length, ring, progress, outcome>>
-----------------------------------------------------------------------------
(* Commands *)

SwitchCommandBlock(symbol, length) ==
  /\ Processing /\ state = "command_begin"
  /\ SwitchBlock("command", symbol, length)
  /\ htree_command_index' = NextType("command", symbol)
  /\ UNCHANGED <<state, safe, maps, literals, literal_htree, distances, distance_code,
                 copy_length, ring, progress, outcome>>

\* kCmdLut: the context of the distance is that of the copy length.
DistanceContext(copy) == IF copy > 4 THEN 3 ELSE copy - 2

\* The symbol of a command, without its extra bits.
CommandSymbol(copy, implicit) ==
  /\ distance_code' = IF implicit THEN 0 ELSE -1
  /\ distance_context' = DistanceContext(copy)
  /\ dist_htree_index' = dist_context_map[dist_context_map_slice_index + distance_context']
  /\ UNCHANGED dist_context_map_slice_index

ReadCommand(insert, copy, implicit) ==
  /\ Processing /\ state = "command_begin" /\ block_length["command"] # 0
  /\ CommandSymbol(copy, implicit)
  /\ block_length' = TakeSymbol("command")
  /\ copy_length' = copy /\ loop_counter' = insert
  /\ remaining' = remaining - insert
  /\ state' = IF insert = 0 THEN "post_decode_literals" ELSE "inner"
  /\ UNCHANGED <<safe, num_block_types, block_type_rb, maps, literals, literal_htree,
                 htree_command_index, ring, pos, outcome>>

\* The extra bits are not there: the bits of the symbol are put back.
ReadCommandSymbol(insert, copy, implicit) ==
  /\ Processing /\ safe /\ state = "command_begin" /\ block_length["command"] # 0
  /\ CommandSymbol(copy, implicit)
  /\ loop_counter' = insert
  /\ safe' = FALSE
  /\ UNCHANGED <<state, blocks, maps, literals, literal_htree, htree_command_index,
                 copy_length, ring, pos, remaining, outcome>>
-----------------------------------------------------------------------------
(* Literals: one loop for a type with one tree, another for several *)

LiteralTree == IF trivial_literal_context THEN literal_htree_index ELSE ByContext

EnterLiterals ==
  /\ Processing /\ state = "inner" /\ literal_htree = Outside
  /\ literal_htree' = LiteralTree
  /\ UNCHANGED <<state, safe, blocks, maps, literals, htree_command_index, distances,
                 distance_code, copy_length, ring, progress, outcome>>

\* Mutation: the loop goes on with the tree of the block before.
TreeKept == IF trivial_literal_context' = trivial_literal_context THEN literal_htree
            ELSE Outside

\* After a switch a loop stays if it is the right one for the new type.
TreeAfterSwitch ==
  IF trivial_literal_context' = trivial_literal_context THEN LiteralTree' ELSE Outside

SwitchLiteralBlock(symbol, length) ==
  /\ Processing /\ state = "inner" /\ literal_htree # Outside
  /\ SwitchBlock("literal", symbol, length)
  /\ PrepareLiteralDecoding(context_map, NextType("literal", symbol))
  /\ literal_htree' = TreeAfterSwitch
  /\ UNCHANGED <<state, safe, maps, htree_command_index, distances, distance_code,
                 copy_length, ring, progress, outcome>>

After(left, next) == IF left <= 0 THEN "metablock_done" ELSE next

ReadLiteral ==
  /\ Processing /\ state = "inner" /\ literal_htree # Outside
  /\ BlockGoesOn("literal")
  /\ block_length' = TakeSymbol("literal")
  /\ pos' = pos + 1 /\ loop_counter' = loop_counter - 1
  /\ state' = CASE pos' % RingSize = 0 -> "inner_write"
                [] pos' % RingSize # 0 /\ loop_counter' > 0 -> "inner"
                [] OTHER -> After(remaining, "post_decode_literals")
  /\ literal_htree' = IF state' = "inner" THEN literal_htree ELSE Outside
  /\ safe' = (safe /\ state' \in ReadStates)
  /\ UNCHANGED <<num_block_types, block_type_rb, maps, literals, htree_command_index,
                 distances, distance_code, copy_length, ring, remaining, outcome>>

\* INNER_WRITE and POST_WRITE_1, 2: the full ring has been written out.
RingWritten ==
  /\ error_code = Success /\ state \in {"inner_write", "post_write"}
  /\ IF remaining < 0
       THEN error_code' = "ERROR_FORMAT_BLOCK_LENGTH_1" /\ UNCHANGED <<state, max_distance>>
       ELSE /\ max_distance' = MaxBackward
            /\ state' = CASE state = "post_write" -> After(remaining, "command_begin")
                          [] state = "inner_write" /\ loop_counter > 0 -> "inner"
                          [] OTHER -> After(remaining, "post_decode_literals")
            /\ UNCHANGED error_code
  /\ UNCHANGED <<safe, blocks, maps, literals, literal_htree, htree_command_index,
                 distances, distance_code, copy_length, dist_rb, dist_rb_idx, reference,
                 empty_words, progress, hgroups, metablocks>>
-----------------------------------------------------------------------------
(* Distances *)

SwitchDistanceBlock(symbol, length) ==
  /\ Processing /\ state = "post_decode_literals" /\ distance_code < 0
  /\ SwitchBlock("distance", symbol, length)
  /\ dist_context_map_slice_index' = NextType("distance", symbol) * DistanceContexts
  /\ dist_htree_index' = dist_context_map[dist_context_map_slice_index' + distance_context]
  /\ UNCHANGED <<state, safe, maps, literals, literal_htree, htree_command_index,
                 distance_context, distance_code, copy_length, ring, progress, outcome>>

\* 0x7fffffff: refused as soon as it is used.
HugeDistance == MaxAllowed + 3

\* kDistanceShortCodeIndexOffset and kDistanceShortCodeValueOffset, two bits for a code.
IndexOffset == <<3, 2, 1, 0, 3, 3, 3, 3, 3, 3, 2, 2, 2, 2, 2, 2>>
ValueOffset == <<0, 0, 0, 0, 1, 1, 2, 2, 3, 3, 1, 1, 2, 2, 3, 3>>

\* Mutation: a neighbour below 1 is taken as it is.
ShortDistanceUnchecked(code) ==
  LET d == dist_rb[(dist_rb_idx + IndexOffset[code + 1]) % 4]
  IN  IF code % 2 = 1 THEN d + ValueOffset[code + 1] ELSE d - ValueOffset[code + 1]

\* TakeDistanceFromRingBuffer, for a code other than 0.
ShortDistance(code) ==
  LET d == dist_rb[(dist_rb_idx + IndexOffset[code + 1]) % 4]
      v == ValueOffset[code + 1]
  IN  CASE code % 2 = 1 -> d + v
        [] code % 2 = 0 /\ d > v -> d - v
        [] OTHER -> HugeDistance

LastDistance == dist_rb[(dist_rb_idx - 1) % 4]

\* How far back a copy may reach.
NewMaxDistance ==
  IF max_distance # MaxBackward /\ pos < MaxBackward THEN pos ELSE MaxBackward

\* FORMAT_DISTANCE leaves the function with the trees in local variables.
FailReference(code) ==
  /\ error_code' = code
  /\ hgroups' = (code # "ERROR_FORMAT_DISTANCE")
  /\ UNCHANGED <<state, safe, dist_rb, pos, remaining, metablocks, empty_words>>

\* So many bytes have been written, by a copy or as a word of the dictionary, of which
\* its transform may leave nothing.
FinishCommand(bytes) ==
  /\ bytes = 0 => empty_words < MaxEmptyWords
  /\ empty_words' = empty_words + (IF bytes = 0 THEN 1 ELSE 0)
  /\ pos' = pos + bytes /\ remaining' = remaining - bytes
  /\ state' = IF pos' \div RingSize > pos \div RingSize THEN "post_write"
              ELSE After(remaining', "command_begin")
  /\ safe' = (safe /\ state' \in ReadStates)
  /\ UNCHANGED outcome

\* Mutation: a word of the dictionary leaves the index where the distance was taken.
WordReferenceForgets(index) ==
  /\ dist_rb_idx' = index
  /\ \/ FailReference("ERROR_FORMAT_TRANSFORM")
     \/ UNCHANGED dist_rb /\ \E bytes \in WordBytes : FinishCommand(bytes)

\* A word of the dictionary is not remembered: the index that the last distance was
\* taken from goes forward again.
WordReference(index) ==
  /\ dist_rb_idx' = (index + distance_context') % 4
  /\ \/ FailReference("ERROR_FORMAT_TRANSFORM")
     \/ UNCHANGED dist_rb /\ \E bytes \in WordBytes : FinishCommand(bytes)

\* postReadDistance, with the index that the distance left.
Reference(symbol, distance, index) ==
  /\ reference' = [symbol |-> symbol, distance |-> distance]
  /\ distance_code' = distance
  /\ max_distance' = NewMaxDistance
  /\ loop_counter' = copy_length
  /\ \/ /\ distance > NewMaxDistance /\ distance > MaxAllowed
        /\ dist_rb_idx' = index
        /\ FailReference("ERROR_FORMAT_DISTANCE")
     \/ /\ distance > NewMaxDistance /\ distance <= MaxAllowed
        /\ copy_length \notin WordLengths
        /\ dist_rb_idx' = index
        /\ FailReference("ERROR_FORMAT_DICTIONARY")
     \/ /\ distance > NewMaxDistance /\ distance <= MaxAllowed
        /\ copy_length \in WordLengths
        /\ WordReference(index)
     \/ /\ distance <= NewMaxDistance
        /\ dist_rb' = [dist_rb EXCEPT ![index] = distance]
        /\ dist_rb_idx' = (index + 1) % 4
        /\ FinishCommand(copy_length)

Symbol(code, distance) == [code |-> code, distance |-> distance]

\* The command itself asks for the last distance.
ImplicitDistance ==
  /\ Processing /\ state = "post_decode_literals" /\ distance_code >= 0
  /\ distance_context' = (IF distance_code = 0 THEN 1 ELSE 0)
  /\ Reference(Symbol(0, 0), LastDistance, (dist_rb_idx - 1) % 4)
  /\ UNCHANGED <<blocks, maps, literals, literal_htree, htree_command_index,
                 dist_context_map_slice_index, dist_htree_index, copy_length>>

\* ReadDistanceInternal with a short code; code 0 moves the index back.
ReadShortDistance(code) ==
  /\ Processing /\ state = "post_decode_literals" /\ distance_code < 0
  /\ BlockGoesOn("distance") /\ block_length' = TakeSymbol("distance")
  /\ distance_context' = (IF code = 0 THEN 1 ELSE 0)
  /\ IF code = 0
       THEN Reference(Symbol(0, 0), LastDistance, (dist_rb_idx - 1) % 4)
       ELSE Reference(Symbol(code, 0), ShortDistance(code), dist_rb_idx)
  /\ UNCHANGED <<num_block_types, block_type_rb, maps, literals, literal_htree,
                 htree_command_index, dist_context_map_slice_index, dist_htree_index,
                 copy_length>>

\* The same with a symbol that names the distance.
ReadDistance(distance) ==
  /\ Processing /\ state = "post_decode_literals" /\ distance_code < 0
  /\ BlockGoesOn("distance") /\ block_length' = TakeSymbol("distance")
  /\ distance_context' = 0
  /\ Reference(Symbol(16, distance), distance, dist_rb_idx)
  /\ UNCHANGED <<num_block_types, block_type_rb, maps, literals, literal_htree,
                 htree_command_index, dist_context_map_slice_index, dist_htree_index,
                 copy_length>>

\* Its extra bits are not there: the bits of the symbol are put back.
ReadDistanceSymbol ==
  /\ Processing /\ safe /\ state = "post_decode_literals" /\ distance_code < 0
  /\ block_length["distance"] # 0
  /\ distance_context' = 0 /\ distance_code' = -1
  /\ safe' = FALSE
  /\ UNCHANGED <<state, blocks, maps, literals, literal_htree, htree_command_index,
                 dist_context_map_slice_index, dist_htree_index, copy_length, ring,
                 progress, outcome>>
-----------------------------------------------------------------------------
Begin ==
  \E length \in MetablockLengths, counts \in BlockTypeCounts,
     lengths \in [Categories -> BlockLengths], map \in LiteralMaps, dist_map \in DistanceMaps :
       BeginMetablock(length, counts, lengths, map, dist_map)

TypeSymbols(c) == 0 .. num_block_types[c] + 1

Switch ==
  \E length \in BlockLengths :
    \/ \E symbol \in TypeSymbols("command") : SwitchCommandBlock(symbol, length)
    \/ \E symbol \in TypeSymbols("literal") : SwitchLiteralBlock(symbol, length)
    \/ \E symbol \in TypeSymbols("distance") : SwitchDistanceBlock(symbol, length)

Command ==
  \E insert \in InsertLengths, copy \in CopyLengths, implicit \in BOOLEAN :
    \/ ReadCommand(insert, copy, implicit)
    \/ ReadCommandSymbol(insert, copy, implicit)

Finished ==
  /\ state = "done" \/ error_code \in Errors
  /\ UNCHANGED vars

Next ==
  \/ Begin \/ MetablockDone
  \/ FastEnds \/ SafeEnds
  \/ Switch \/ Command
  \/ EnterLiterals \/ ReadLiteral \/ RingWritten
  \/ ImplicitDistance
  \/ \E code \in ShortCodes : ReadShortDistance(code)
  \/ \E distance \in Distances : ReadDistance(distance)
  \/ ReadDistanceSymbol
  \/ Finished

Spec == Init /\ [][Next]_vars
-----------------------------------------------------------------------------
(* Properties *)

Trees == 0 .. 255

\* The state has its types; a type is one of its category, the remembered ones too
\* where a symbol may ask for them.
TypeOK ==
  /\ state \in ReadStates \cup {"metablock_begin", "metablock_done", "inner_write",
                                "post_write", "done"}
  /\ safe \in BOOLEAN /\ hgroups \in BOOLEAN /\ trivial_literal_context \in BOOLEAN
  /\ \A c \in Categories :
       /\ num_block_types[c] \in Nat /\ block_length[c] \in Int
       /\ metablocks > 0 => BlockType(c) \in 0 .. num_block_types[c] - 1
       /\ num_block_types[c] > 1 => block_type_rb[c][1] \in 0 .. num_block_types[c] - 1
  /\ {literal_htree_index, htree_command_index, dist_htree_index} \subseteq Trees
  /\ literal_htree \in Trees \cup {Outside, ByContext}
  /\ distance_context \in 0 .. DistanceContexts - 1
  /\ distance_code \in -1 .. HugeDistance /\ copy_length \in Nat /\ loop_counter \in Nat
  /\ dist_rb \in [0 .. 3 -> 1 .. MaxAllowed] /\ dist_rb_idx \in 0 .. 3
  /\ max_distance \in 0 .. MaxBackward /\ pos \in Nat /\ remaining \in Int
  /\ error_code \in Errors \cup {Success}

\* Every symbol is read with the prefix code that its block type, and the context of
\* the literal or of the copy length, call for: the indexes that block switches,
\* commands and half-read symbols leave behind, and the tree that a loop over literals
\* holds on to, are never those of another block, command or metablock.
TreesAreOfBlocks ==
  Processing =>
    /\ hgroups
    /\ htree_command_index = BlockType("command")
    /\ context_map_slice_index = BlockType("literal") * LiteralContexts
    /\ state = "inner" /\ literal_htree # Outside =>
         \A context \in 0 .. LiteralContexts - 1 :
           (IF literal_htree = ByContext THEN context_map[context_map_slice_index + context]
            ELSE literal_htree)
             = context_map[BlockType("literal") * LiteralContexts + context]
    /\ state = "post_decode_literals" /\ distance_code < 0 /\ block_length["distance"] > 0 =>
         dist_htree_index = dist_context_map[BlockType("distance") * DistanceContexts
                                               + DistanceContext(copy_length)]

NextSymbolIs(c) ==
  CASE state = "command_begin" -> c = "command"
    [] state = "inner" -> c = "literal"
    [] OTHER -> c = "distance" /\ distance_code < 0

\* A category with one type is never asked for a block switch, for which it has no
\* prefix codes: its block outlasts the metablock, unless as many commands copy words of
\* which their transform leaves nothing.  (Without symbols left, commands, and the safe
\* version, would ask for input forever; the fast one would go on with a length that wraps.)
OneTypeLasts ==
  Processing /\ remaining >= 0 =>
    \A c \in Categories :
      NextSymbolIs(c) /\ num_block_types[c] = 1 =>
        block_length[c] + (IF c = "literal" THEN 0 ELSE empty_words) > 0

Recent ==
  IF error_code \in Errors \ {"ERROR_FORMAT_BLOCK_LENGTH_1"} THEN <<>>
  ELSE [k \in 1 .. 4 |-> dist_rb[(dist_rb_idx - k) % 4]]

Symbols ==
  {Symbol(code, 0) : code \in ShortCodes \cup {0}} \cup {Symbol(16, d) : d \in Distances}

Meaning == INSTANCE RecentDistances
  WITH InitialDistances <- <<4, 11, 15, 16>>, Huge <- HugeDistance, recent <- Recent,
       written <- pos

\* The ring of four distances with an index that goes back and forth, half-read
\* distances, words of the dictionary in between and new metablocks mean what the list
\* of recent distances means: every distance read is the one that its symbol stands for.
DistancesSpec == Meaning!Spec
=============================================================================
