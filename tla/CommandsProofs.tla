---------------------------- MODULE CommandsProofs ----------------------------
(***************************************************************************)
(* Theorems about the commands of the compressed metablocks, for every     *)
(* number of block types, every context map, ring size and distance limit, *)
(* and wherever the input runs out.                                        *)
(***************************************************************************)
EXTENDS Commands, TLAPS, SequenceTheorems

\* The types of what the arithmetic is about.
Types ==
  /\ num_block_types \in [Categories -> Nat] /\ block_length \in [Categories -> Int]
  /\ block_type_rb \in [Categories -> Nat \X Nat]
  /\ metablocks \in Nat /\ empty_words \in Nat

\* The blocks are those of a metablock, and the indexes belong to the block types; a
\* loop over literals has the tree, or looks the trees up, as the block type wants.
BlocksInvariant ==
  /\ state # "metablock_begin" => metablocks > 0
  /\ metablocks > 0 =>
       /\ num_block_types \in BlockTypeCounts
       /\ context_map \in LiteralMaps /\ dist_context_map \in DistanceMaps
       /\ literal_htree_index = context_map[context_map_slice_index]
       /\ trivial_literal_context = Trivial(context_map, BlockType("literal"))
  /\ htree_command_index = BlockType("command")
  /\ context_map_slice_index = BlockType("literal") * LiteralContexts
  /\ dist_context_map_slice_index = BlockType("distance") * DistanceContexts
  /\ literal_htree # Outside => state = "inner" /\ literal_htree = LiteralTree

InCommand == state \in {"inner", "inner_write", "post_decode_literals"}

\* What a command has left to do: its literals, then a distance, read with the tree that
\* its copy length asked for.  A half-read distance has forgotten the context only when
\* no block switch can come before it is read again.
CommandInvariant ==
  /\ error_code = Success => hgroups
  /\ state = "inner" => loop_counter > 0
  /\ error_code = Success /\ InCommand =>
       /\ copy_length \in CopyLengths /\ distance_code \in {-1, 0}
       /\ distance_code < 0 =>
            /\ dist_htree_index = dist_context_map[dist_context_map_slice_index
                                                     + DistanceContext(copy_length)]
            /\ block_length["distance"] = 0 => distance_context = DistanceContext(copy_length)

\* Literals of the command that are not decoded yet: remaining has been charged for them.
Pending == IF state \in {"inner", "inner_write"} THEN loop_counter ELSE 0

\* The symbols left to a category of one type are enough for the bytes left, where a
\* command or a distance decodes a byte or an empty word.
LengthInvariant ==
  error_code = Success =>
    /\ state \in {"command_begin", "post_decode_literals"} => remaining > 0
    /\ InCommand \/ state \in {"command_begin", "post_write"} =>
         /\ num_block_types["literal"] = 1 => block_length["literal"] >= remaining + Pending
         /\ num_block_types["command"] = 1 =>
              block_length["command"] + empty_words + (IF InCommand THEN 1 ELSE 0) >= remaining
         /\ num_block_types["distance"] = 1 =>
              block_length["distance"] + empty_words >= remaining

\* When the farthest distance is allowed, enough has been decoded for it.
ReachInvariant ==
  /\ max_distance = MaxBackward => pos >= MaxBackward
  /\ state \in {"inner_write", "post_write"} => pos >= MaxBackward

CommandsInvariant ==
  /\ TypeOK /\ Types
  /\ BlocksInvariant /\ CommandInvariant /\ LengthInvariant /\ ReachInvariant
-----------------------------------------------------------------------------
(* Constants, block types and trees *)

LEMMA ConstantsAre ==
  /\ \A counts \in BlockTypeCounts, c \in Categories : counts[c] \in 1 .. 256
  /\ BlockTypeCounts \subseteq [Categories -> Nat]
  /\ BlockLengths \subseteq Nat \ {0} /\ LiteralContexts \in Nat \ {0}
  /\ InsertLengths \subseteq Nat /\ CopyLengths \subseteq Nat \ {0, 1}
  /\ WordBytes \subseteq Nat /\ ShortCodes \subseteq 0 .. 15
  /\ MaxAllowed \in Nat /\ 16 <= MaxAllowed /\ MaxBackward \in Nat /\ MaxBackward < MaxAllowed
  /\ RingSize \in Nat /\ MaxBackward < RingSize
  /\ Distances \subseteq 1 .. MaxAllowed + 1
  /\ OneTypeLength \in Nat /\ MetablockLengths \subseteq 1 .. OneTypeLength
  BY CommandsAssumption

LEMMA SmallRemainder ==
  ASSUME NEW n \in Nat, NEW m \in Nat, n < m
  PROVE  n % m = n /\ n \div m = 0
  OBVIOUS

LEMMA QuotientsGrow ==
  ASSUME NEW n \in Nat, NEW m \in Nat \ {0}, n \div m > 0
  PROVE  n >= m
  BY SmallRemainder

\* A block type symbol always stands for a type of its category.
LEMMA NextTypeIsAType ==
  ASSUME TypeOK, Types, NEW c \in Categories, metablocks > 0, num_block_types[c] > 1,
         NEW symbol \in TypeSymbols(c)
  PROVE  NextType(c, symbol) \in 0 .. num_block_types[c] - 1
  <1>1. /\ num_block_types[c] \in Nat /\ BlockType(c) \in 0 .. num_block_types[c] - 1
        /\ block_type_rb[c][1] \in 0 .. num_block_types[c] - 1
    BY DEF TypeOK
  <1>2. symbol \in 0 .. num_block_types[c] + 1
    BY DEF TypeSymbols
  <1>3. QED
    BY <1>1, <1>2 DEF NextType

LEMMA LiteralTrees ==
  ASSUME NEW counts \in BlockTypeCounts, NEW map \in LiteralMaps,
         NEW type \in 0 .. counts["literal"] - 1
  PROVE  map[type * LiteralContexts] \in Trees
  <1>1. counts["literal"] \in Nat /\ type \in Nat /\ LiteralContexts \in Nat \ {0}
    BY ConstantsAre DEF Categories
  <1>2. 0 \in 0 .. LiteralContexts - 1
    BY <1>1
  <1>3. map[type * LiteralContexts + 0] \in 0 .. 255
    BY <1>2, MapsAssumption
  <1>4. type * LiteralContexts + 0 = type * LiteralContexts
    BY <1>1
  <1>5. QED
    BY <1>3, <1>4 DEF Trees

LEMMA DistanceTrees ==
  ASSUME NEW counts \in BlockTypeCounts, NEW map \in DistanceMaps,
         NEW type \in 0 .. counts["distance"] - 1, NEW context \in 0 .. 3
  PROVE  map[type * DistanceContexts + context] \in Trees
  <1>1. context \in 0 .. DistanceContexts - 1
    BY DEF DistanceContexts
  <1>2. QED
    BY <1>1, MapsAssumption DEF Trees
-----------------------------------------------------------------------------
(* The steps *)

LEMMA MetablockDoneKeeps ==
  ASSUME CommandsInvariant, MetablockDone
  PROVE  CommandsInvariant'
  <1>1. /\ TypeOK /\ Types
        /\ BlocksInvariant /\ CommandInvariant /\ LengthInvariant /\ ReachInvariant
    BY DEF CommandsInvariant
  <1>2. TypeOK'
    BY <1>1 DEF MetablockDone, TypeOK, Types, BlockType, blocks, maps, literals,
        distances, ring, progress, outcome, ReadStates, Errors, Success
  <1>3. Types'
    BY <1>1 DEF MetablockDone, Types, TypeOK, blocks, maps, literals, distances, ring,
        progress, outcome, ReadStates, Errors, Success
  <1>4. BlocksInvariant'
    BY <1>1 DEF MetablockDone, BlocksInvariant, Types, TypeOK, LiteralTree, BlockType,
        blocks, maps, literals, distances, ring, progress, outcome, ReadStates, Errors,
        Success
  <1>5. CommandInvariant'
    BY <1>1 DEF MetablockDone, CommandInvariant, InCommand, TypeOK, Types, blocks, maps,
        literals, distances, ring, progress, outcome, ReadStates, Errors, Success
  <1>6. LengthInvariant'
    BY <1>1 DEF MetablockDone, LengthInvariant, InCommand, Pending, TypeOK, Types,
        CommandInvariant, blocks, maps, literals, distances, ring, progress, outcome,
        ReadStates, Errors, Success
  <1>7. ReachInvariant'
    BY <1>1 DEF MetablockDone, ReachInvariant, TypeOK, Types, blocks, maps, literals,
        distances, ring, progress, outcome, ReadStates, Errors, Success
  <1>8. QED
    BY <1>2, <1>3, <1>4, <1>5, <1>6, <1>7 DEF CommandsInvariant

LEMMA FastEndsKeeps ==
  ASSUME CommandsInvariant, FastEnds
  PROVE  CommandsInvariant'
  <1>1. /\ TypeOK /\ Types
        /\ BlocksInvariant /\ CommandInvariant /\ LengthInvariant /\ ReachInvariant
    BY DEF CommandsInvariant
  <1>2. TypeOK'
    BY <1>1 DEF FastEnds, Processing, TypeOK, Types, BlockType, blocks, maps, literals,
        distances, ring, progress, outcome, ReadStates, Errors, Success
  <1>3. Types'
    BY <1>1 DEF FastEnds, Processing, Types, TypeOK, blocks, maps, literals, distances,
        ring, progress, outcome, ReadStates, Errors, Success
  <1>4. BlocksInvariant'
    BY <1>1 DEF FastEnds, Processing, BlocksInvariant, Types, TypeOK, LiteralTree,
        BlockType, blocks, maps, literals, distances, ring, progress, outcome, ReadStates,
        Errors, Success
  <1>5. CommandInvariant'
    BY <1>1 DEF FastEnds, Processing, CommandInvariant, InCommand, TypeOK, Types, blocks,
        maps, literals, distances, ring, progress, outcome, ReadStates, Errors, Success
  <1>6. LengthInvariant'
    BY <1>1 DEF FastEnds, Processing, LengthInvariant, InCommand, Pending, TypeOK, Types,
        CommandInvariant, blocks, maps, literals, distances, ring, progress, outcome,
        ReadStates, Errors, Success
  <1>7. ReachInvariant'
    BY <1>1 DEF FastEnds, Processing, ReachInvariant, TypeOK, Types, blocks, maps,
        literals, distances, ring, progress, outcome, ReadStates, Errors, Success
  <1>8. QED
    BY <1>2, <1>3, <1>4, <1>5, <1>6, <1>7 DEF CommandsInvariant

LEMMA SafeEndsKeeps ==
  ASSUME CommandsInvariant, SafeEnds
  PROVE  CommandsInvariant'
  <1>1. /\ TypeOK /\ Types
        /\ BlocksInvariant /\ CommandInvariant /\ LengthInvariant /\ ReachInvariant
    BY DEF CommandsInvariant
  <1>2. TypeOK'
    BY <1>1 DEF SafeEnds, Processing, TypeOK, Types, BlockType, blocks, maps, literals,
        distances, ring, progress, outcome, ReadStates, Errors, Success
  <1>3. Types'
    BY <1>1 DEF SafeEnds, Processing, Types, TypeOK, blocks, maps, literals, distances,
        ring, progress, outcome, ReadStates, Errors, Success
  <1>4. BlocksInvariant'
    BY <1>1 DEF SafeEnds, Processing, BlocksInvariant, Types, TypeOK, LiteralTree,
        BlockType, blocks, maps, literals, distances, ring, progress, outcome, ReadStates,
        Errors, Success
  <1>5. CommandInvariant'
    BY <1>1 DEF SafeEnds, Processing, CommandInvariant, InCommand, TypeOK, Types, blocks,
        maps, literals, distances, ring, progress, outcome, ReadStates, Errors, Success
  <1>6. LengthInvariant'
    BY <1>1 DEF SafeEnds, Processing, LengthInvariant, InCommand, Pending, TypeOK, Types,
        CommandInvariant, blocks, maps, literals, distances, ring, progress, outcome,
        ReadStates, Errors, Success
  <1>7. ReachInvariant'
    BY <1>1 DEF SafeEnds, Processing, ReachInvariant, TypeOK, Types, blocks, maps,
        literals, distances, ring, progress, outcome, ReadStates, Errors, Success
  <1>8. QED
    BY <1>2, <1>3, <1>4, <1>5, <1>6, <1>7 DEF CommandsInvariant

LEMMA BeginMetablockKeeps ==
  ASSUME CommandsInvariant, NEW length \in MetablockLengths, NEW counts \in BlockTypeCounts,
         NEW lengths \in [Categories -> BlockLengths],
         NEW map \in LiteralMaps, NEW dist_map \in DistanceMaps,
         BeginMetablock(length, counts, lengths, map, dist_map)
  PROVE  CommandsInvariant'
  <1>1. /\ TypeOK /\ Types
        /\ BlocksInvariant /\ CommandInvariant /\ LengthInvariant /\ ReachInvariant
    BY DEF CommandsInvariant
  <1>2. length \in 1 .. OneTypeLength /\ OneTypeLength \in Nat
    BY ConstantsAre
  <1>3. /\ \A c \in Categories : counts[c] \in Nat /\ counts[c] >= 1
        /\ counts \in [Categories -> Nat]
    BY ConstantsAre
  <1>4. /\ \A c \in Categories : FirstLength(counts[c], lengths[c]) \in Nat
        /\ \A c \in Categories : counts[c] = 1 => FirstLength(counts[c], lengths[c]) = OneTypeLength
    BY <1>2, <1>3, ConstantsAre DEF FirstLength
  <1>5. map[0 * LiteralContexts] \in Trees
    <2>1. 0 \in 0 .. counts["literal"] - 1
      BY <1>3 DEF Categories
    <2>2. QED
      BY <2>1, LiteralTrees
  <1>6. TypeOK'
    <2>1. \A c \in Categories :
            /\ num_block_types'[c] \in Nat /\ block_length'[c] \in Int
            /\ BlockType(c)' \in 0 .. num_block_types'[c] - 1
            /\ num_block_types'[c] > 1 => block_type_rb'[c][1] \in 0 .. num_block_types'[c] - 1
      BY <1>3, <1>4 DEF BeginMetablock, BlockType
    <2>2. trivial_literal_context' \in BOOLEAN /\ literal_htree_index' \in Trees
      BY <1>5 DEF BeginMetablock, PrepareLiteralDecoding, Trivial
    <2>3. htree_command_index' = 0 /\ dist_htree_index' = 0 /\ 0 \in Trees
      BY DEF BeginMetablock, Trees
    <2>4. loop_counter' = 3 /\ remaining' = length /\ state' = "command_begin" /\ metablocks' > 0
      BY <1>1 DEF BeginMetablock, Types
    <2>5. safe' \in BOOLEAN
      BY DEF BeginMetablock
    <2>6. /\ UNCHANGED <<literal_htree, distance_context, distance_code, copy_length, dist_rb, dist_rb_idx>>
          /\ UNCHANGED <<max_distance, pos, hgroups, error_code>>
      BY DEF BeginMetablock
    <2>7. loop_counter' \in Nat /\ remaining' \in Int
      BY <1>2, <2>4
    <2>8. QED
      BY <1>1, <2>1, <2>2, <2>3, <2>4, <2>5, <2>6, <2>7 DEF TypeOK, Types, BlockType,
          ReadStates
  <1>7. Types'
    BY <1>1, <1>2, <1>3, <1>4, <1>5 DEF BeginMetablock, PrepareLiteralDecoding,
        FirstLength, Types, TypeOK, blocks, maps, literals, distances, ring, progress,
        outcome, ReadStates, Errors, Success
  <1>8. BlocksInvariant'
    <2>1. BlockType("literal")' = 0 /\ BlockType("command")' = 0 /\ BlockType("distance")' = 0
      BY DEF BeginMetablock, BlockType, Categories
    <2>2. literal_htree = Outside
      BY <1>1 DEF BeginMetablock, BlocksInvariant
    <2>3. /\ state' = "command_begin" /\ metablocks' > 0 /\ literal_htree' = Outside
          /\ htree_command_index' = 0 /\ dist_context_map_slice_index' = 0
          /\ num_block_types' = counts /\ context_map' = map /\ dist_context_map' = dist_map
      BY <1>1, <2>2 DEF BeginMetablock, Types
    <2>4. /\ context_map_slice_index' = 0 * LiteralContexts
          /\ literal_htree_index' = map[0 * LiteralContexts]
          /\ trivial_literal_context' = Trivial(map, 0)
      BY DEF BeginMetablock, PrepareLiteralDecoding
    <2>5. Trivial(context_map, BlockType("literal"))' = Trivial(map, 0)
      BY <2>1, <2>3 DEF Trivial
    <2>6. 0 = 0 * DistanceContexts
      BY DEF DistanceContexts
    <2>7. QED
      BY <2>1, <2>3, <2>4, <2>5, <2>6 DEF BlocksInvariant
  <1>9. CommandInvariant'
    BY <1>1, <1>2, <1>3, <1>4, <1>5 DEF BeginMetablock, PrepareLiteralDecoding,
        FirstLength, CommandInvariant, InCommand, TypeOK, Types, blocks, maps, literals,
        distances, ring, progress, outcome, ReadStates, Errors, Success
  <1>10. LengthInvariant'
    <2>1. /\ state' = "command_begin" /\ remaining' = length /\ empty_words' = 0
          /\ num_block_types' = counts
      BY DEF BeginMetablock
    <2>2. \A c \in Categories : counts[c] = 1 => block_length'[c] = OneTypeLength
      BY <1>4 DEF BeginMetablock
    <2>3. Pending' = 0 /\ ~InCommand'
      BY <2>1 DEF Pending, InCommand
    <2>4. {"literal", "command", "distance"} \subseteq Categories
      BY DEF Categories
    <2>5. QED
      BY <1>2, <2>1, <2>2, <2>3, <2>4 DEF LengthInvariant
  <1>11. ReachInvariant'
    BY <1>1, <1>2, <1>3, <1>4, <1>5 DEF BeginMetablock, PrepareLiteralDecoding,
        FirstLength, ReachInvariant, TypeOK, Types, blocks, maps, literals, distances,
        ring, progress, outcome, ReadStates, Errors, Success
  <1>12. QED
    BY <1>6, <1>7, <1>8, <1>9, <1>10, <1>11 DEF CommandsInvariant

LEMMA SwitchCommandBlockKeeps ==
  ASSUME CommandsInvariant, NEW length \in BlockLengths, NEW symbol \in TypeSymbols("command"),
         SwitchCommandBlock(symbol, length)
  PROVE  CommandsInvariant'
  <1>1. /\ TypeOK /\ Types
        /\ BlocksInvariant /\ CommandInvariant /\ LengthInvariant /\ ReachInvariant
    BY DEF CommandsInvariant
  <1>2. "command" \in Categories /\ metablocks > 0 /\ num_block_types["command"] > 1
    BY <1>1 DEF BlocksInvariant, Categories, SwitchBlock, Processing, ReadStates,
        SwitchCommandBlock
  <1>3. NextType("command", symbol) \in 0 .. num_block_types["command"] - 1
    BY <1>1, <1>2, NextTypeIsAType
  <1>4. length \in Nat \ {0}
    BY ConstantsAre
  <1>5. TypeOK'
    <2>1. /\ num_block_types' = num_block_types
          /\ block_type_rb' = [block_type_rb EXCEPT !["command"] = <<BlockType("command"), NextType("command", symbol)>>]
          /\ block_length' = [block_length EXCEPT !["command"] = length]
      BY DEF SwitchBlock, SwitchCommandBlock
    <2>2. \A c \in Categories :
            /\ num_block_types'[c] \in Nat /\ block_length'[c] \in Int
            /\ BlockType(c)' \in 0 .. num_block_types'[c] - 1
            /\ num_block_types'[c] > 1 => block_type_rb'[c][1] \in 0 .. num_block_types'[c] - 1
      <3> SUFFICES ASSUME NEW c \in Categories
                   PROVE  /\ num_block_types'[c] \in Nat /\ block_length'[c] \in Int
                          /\ BlockType(c)' \in 0 .. num_block_types'[c] - 1
                          /\ num_block_types'[c] > 1 =>
                               block_type_rb'[c][1] \in 0 .. num_block_types'[c] - 1
        OBVIOUS
      <3>1. /\ num_block_types[c] \in Nat /\ block_length[c] \in Int
            /\ BlockType(c) \in 0 .. num_block_types[c] - 1
            /\ num_block_types[c] > 1 => block_type_rb[c][1] \in 0 .. num_block_types[c] - 1
        BY <1>1, <1>2 DEF TypeOK
      <3>2. CASE c = "command"
        <4>1. block_type_rb'[c] = <<BlockType(c), NextType(c, symbol)>> /\ block_length'[c] = length
          BY <1>1, <2>1, <3>2 DEF Types
        <4>2. BlockType(c)' = NextType(c, symbol) /\ block_type_rb'[c][1] = BlockType(c)
          BY <4>1 DEF BlockType
        <4>3. QED
          BY <1>3, <1>4, <2>1, <3>1, <3>2, <4>1, <4>2
      <3>3. CASE c # "command"
        <4>1. block_type_rb'[c] = block_type_rb[c] /\ block_length'[c] = block_length[c]
          BY <1>1, <2>1, <3>3 DEF Types
        <4>2. QED
          BY <2>1, <3>1, <4>1 DEF BlockType
      <3>4. QED
        BY <3>2, <3>3
    <2>3. htree_command_index' \in Trees
      <3>1. num_block_types["command"] \in 1 .. 256
        BY <1>1, <1>2, ConstantsAre DEF BlocksInvariant
      <3>2. QED
        BY <1>3, <3>1 DEF SwitchCommandBlock, Trees
    <2>4. /\ UNCHANGED <<state, safe, distance_code, copy_length, dist_rb, dist_rb_idx, max_distance, pos,
                         remaining, loop_counter, hgroups, error_code, metablocks, distance_context>>
          /\ UNCHANGED <<trivial_literal_context, literal_htree_index, literal_htree, dist_htree_index>>
      BY DEF SwitchCommandBlock, blocks, maps, literals, distances, ring, progress,
          outcome
    <2>5. QED
      BY <1>1, <2>1, <2>2, <2>3, <2>4 DEF TypeOK, Types, BlockType
  <1>6. Types'
    BY <1>1, <1>2, <1>3, <1>4 DEF SwitchCommandBlock, SwitchBlock, PrepareLiteralDecoding,
        TreeAfterSwitch, Processing, Types, TypeOK, blocks, maps, literals, distances,
        ring, progress, outcome, ReadStates, Errors, Success
  <1>7. BlocksInvariant'
    BY <1>1, <1>2, <1>3, <1>4 DEF SwitchCommandBlock, SwitchBlock, PrepareLiteralDecoding,
        TreeAfterSwitch, Processing, BlocksInvariant, Types, TypeOK, LiteralTree,
        BlockType, blocks, maps, literals, distances, ring, progress, outcome, ReadStates,
        Errors, Success
  <1>8. CommandInvariant'
    BY <1>1, <1>2, <1>3, <1>4 DEF SwitchCommandBlock, SwitchBlock, PrepareLiteralDecoding,
        TreeAfterSwitch, Processing, CommandInvariant, InCommand, TypeOK, Types, blocks,
        maps, literals, distances, ring, progress, outcome, ReadStates, Errors, Success
  <1>9. LengthInvariant'
    BY <1>1, <1>2, <1>3, <1>4 DEF SwitchCommandBlock, SwitchBlock, PrepareLiteralDecoding,
        TreeAfterSwitch, Processing, LengthInvariant, InCommand, Pending, TypeOK, Types,
        CommandInvariant, blocks, maps, literals, distances, ring, progress, outcome,
        ReadStates, Errors, Success
  <1>10. ReachInvariant'
    BY <1>1, <1>2, <1>3, <1>4 DEF SwitchCommandBlock, SwitchBlock, PrepareLiteralDecoding,
        TreeAfterSwitch, Processing, ReachInvariant, TypeOK, Types, blocks, maps,
        literals, distances, ring, progress, outcome, ReadStates, Errors, Success
  <1>11. QED
    BY <1>5, <1>6, <1>7, <1>8, <1>9, <1>10 DEF CommandsInvariant

LEMMA SwitchLiteralBlockKeeps ==
  ASSUME CommandsInvariant, NEW length \in BlockLengths, NEW symbol \in TypeSymbols("literal"),
         SwitchLiteralBlock(symbol, length)
  PROVE  CommandsInvariant'
  <1>1. /\ TypeOK /\ Types
        /\ BlocksInvariant /\ CommandInvariant /\ LengthInvariant /\ ReachInvariant
    BY DEF CommandsInvariant
  <1>2. "literal" \in Categories /\ metablocks > 0 /\ num_block_types["literal"] > 1
    BY <1>1 DEF BlocksInvariant, Categories, SwitchBlock, Processing, ReadStates,
        SwitchLiteralBlock
  <1>3. NextType("literal", symbol) \in 0 .. num_block_types["literal"] - 1
    BY <1>1, <1>2, NextTypeIsAType
  <1>4. length \in Nat \ {0}
    BY ConstantsAre
  <1>5. TypeOK'
    <2>1. /\ num_block_types' = num_block_types
          /\ block_type_rb' = [block_type_rb EXCEPT !["literal"] = <<BlockType("literal"), NextType("literal", symbol)>>]
          /\ block_length' = [block_length EXCEPT !["literal"] = length]
      BY DEF SwitchBlock, SwitchLiteralBlock
    <2>2. \A c \in Categories :
            /\ num_block_types'[c] \in Nat /\ block_length'[c] \in Int
            /\ BlockType(c)' \in 0 .. num_block_types'[c] - 1
            /\ num_block_types'[c] > 1 => block_type_rb'[c][1] \in 0 .. num_block_types'[c] - 1
      <3> SUFFICES ASSUME NEW c \in Categories
                   PROVE  /\ num_block_types'[c] \in Nat /\ block_length'[c] \in Int
                          /\ BlockType(c)' \in 0 .. num_block_types'[c] - 1
                          /\ num_block_types'[c] > 1 =>
                               block_type_rb'[c][1] \in 0 .. num_block_types'[c] - 1
        OBVIOUS
      <3>1. /\ num_block_types[c] \in Nat /\ block_length[c] \in Int
            /\ BlockType(c) \in 0 .. num_block_types[c] - 1
            /\ num_block_types[c] > 1 => block_type_rb[c][1] \in 0 .. num_block_types[c] - 1
        BY <1>1, <1>2 DEF TypeOK
      <3>2. CASE c = "literal"
        <4>1. block_type_rb'[c] = <<BlockType(c), NextType(c, symbol)>> /\ block_length'[c] = length
          BY <1>1, <2>1, <3>2 DEF Types
        <4>2. BlockType(c)' = NextType(c, symbol) /\ block_type_rb'[c][1] = BlockType(c)
          BY <4>1 DEF BlockType
        <4>3. QED
          BY <1>3, <1>4, <2>1, <3>1, <3>2, <4>1, <4>2
      <3>3. CASE c # "literal"
        <4>1. block_type_rb'[c] = block_type_rb[c] /\ block_length'[c] = block_length[c]
          BY <1>1, <2>1, <3>3 DEF Types
        <4>2. QED
          BY <2>1, <3>1, <4>1 DEF BlockType
      <3>4. QED
        BY <3>2, <3>3
    <2>3. literal_htree_index' \in Trees /\ trivial_literal_context' \in BOOLEAN
      <3>1. num_block_types \in BlockTypeCounts /\ context_map \in LiteralMaps
        BY <1>1, <1>2 DEF BlocksInvariant
      <3>2. context_map[NextType("literal", symbol) * LiteralContexts] \in Trees
        BY <1>3, <3>1, LiteralTrees
      <3>3. QED
        BY <3>2 DEF SwitchLiteralBlock, PrepareLiteralDecoding, Trivial
    <2>4. literal_htree' \in Trees \cup {Outside, ByContext}
      BY <2>3 DEF SwitchLiteralBlock, TreeAfterSwitch, LiteralTree
    <2>5. /\ UNCHANGED <<state, safe, distance_code, copy_length, dist_rb, dist_rb_idx, max_distance, pos,
                         remaining, loop_counter, hgroups, error_code, metablocks, distance_context>>
          /\ UNCHANGED <<htree_command_index, dist_htree_index>>
      BY DEF SwitchLiteralBlock, blocks, maps, literals, distances, ring, progress,
          outcome
    <2>6. QED
      BY <1>1, <2>1, <2>2, <2>3, <2>4, <2>5 DEF TypeOK, Types, BlockType
  <1>6. Types'
    BY <1>1, <1>2, <1>3, <1>4 DEF SwitchLiteralBlock, SwitchBlock, PrepareLiteralDecoding,
        TreeAfterSwitch, Processing, Types, TypeOK, blocks, maps, literals, distances,
        ring, progress, outcome, ReadStates, Errors, Success
  <1>7. BlocksInvariant'
    BY <1>1, <1>2, <1>3, <1>4 DEF SwitchLiteralBlock, SwitchBlock, PrepareLiteralDecoding,
        TreeAfterSwitch, Processing, BlocksInvariant, Types, TypeOK, LiteralTree,
        BlockType, blocks, maps, literals, distances, ring, progress, outcome, ReadStates,
        Errors, Success
  <1>8. CommandInvariant'
    BY <1>1, <1>2, <1>3, <1>4 DEF SwitchLiteralBlock, SwitchBlock, PrepareLiteralDecoding,
        TreeAfterSwitch, Processing, CommandInvariant, InCommand, TypeOK, Types, blocks,
        maps, literals, distances, ring, progress, outcome, ReadStates, Errors, Success
  <1>9. LengthInvariant'
    BY <1>1, <1>2, <1>3, <1>4 DEF SwitchLiteralBlock, SwitchBlock, PrepareLiteralDecoding,
        TreeAfterSwitch, Processing, LengthInvariant, InCommand, Pending, TypeOK, Types,
        CommandInvariant, blocks, maps, literals, distances, ring, progress, outcome,
        ReadStates, Errors, Success
  <1>10. ReachInvariant'
    BY <1>1, <1>2, <1>3, <1>4 DEF SwitchLiteralBlock, SwitchBlock, PrepareLiteralDecoding,
        TreeAfterSwitch, Processing, ReachInvariant, TypeOK, Types, blocks, maps,
        literals, distances, ring, progress, outcome, ReadStates, Errors, Success
  <1>11. QED
    BY <1>5, <1>6, <1>7, <1>8, <1>9, <1>10 DEF CommandsInvariant

LEMMA SwitchDistanceBlockKeeps ==
  ASSUME CommandsInvariant, NEW length \in BlockLengths, NEW symbol \in TypeSymbols("distance"),
         SwitchDistanceBlock(symbol, length)
  PROVE  CommandsInvariant'
  <1>1. /\ TypeOK /\ Types
        /\ BlocksInvariant /\ CommandInvariant /\ LengthInvariant /\ ReachInvariant
    BY DEF CommandsInvariant
  <1>2. "distance" \in Categories /\ metablocks > 0 /\ num_block_types["distance"] > 1
    BY <1>1 DEF BlocksInvariant, Categories, SwitchBlock, Processing, ReadStates,
        SwitchDistanceBlock
  <1>3. NextType("distance", symbol) \in 0 .. num_block_types["distance"] - 1
    BY <1>1, <1>2, NextTypeIsAType
  <1>4. length \in Nat \ {0}
    BY ConstantsAre
  <1>5. TypeOK'
    <2>1. /\ num_block_types' = num_block_types
          /\ block_type_rb' = [block_type_rb EXCEPT !["distance"] = <<BlockType("distance"), NextType("distance", symbol)>>]
          /\ block_length' = [block_length EXCEPT !["distance"] = length]
      BY DEF SwitchBlock, SwitchDistanceBlock
    <2>2. \A c \in Categories :
            /\ num_block_types'[c] \in Nat /\ block_length'[c] \in Int
            /\ BlockType(c)' \in 0 .. num_block_types'[c] - 1
            /\ num_block_types'[c] > 1 => block_type_rb'[c][1] \in 0 .. num_block_types'[c] - 1
      <3> SUFFICES ASSUME NEW c \in Categories
                   PROVE  /\ num_block_types'[c] \in Nat /\ block_length'[c] \in Int
                          /\ BlockType(c)' \in 0 .. num_block_types'[c] - 1
                          /\ num_block_types'[c] > 1 =>
                               block_type_rb'[c][1] \in 0 .. num_block_types'[c] - 1
        OBVIOUS
      <3>1. /\ num_block_types[c] \in Nat /\ block_length[c] \in Int
            /\ BlockType(c) \in 0 .. num_block_types[c] - 1
            /\ num_block_types[c] > 1 => block_type_rb[c][1] \in 0 .. num_block_types[c] - 1
        BY <1>1, <1>2 DEF TypeOK
      <3>2. CASE c = "distance"
        <4>1. block_type_rb'[c] = <<BlockType(c), NextType(c, symbol)>> /\ block_length'[c] = length
          BY <1>1, <2>1, <3>2 DEF Types
        <4>2. BlockType(c)' = NextType(c, symbol) /\ block_type_rb'[c][1] = BlockType(c)
          BY <4>1 DEF BlockType
        <4>3. QED
          BY <1>3, <1>4, <2>1, <3>1, <3>2, <4>1, <4>2
      <3>3. CASE c # "distance"
        <4>1. block_type_rb'[c] = block_type_rb[c] /\ block_length'[c] = block_length[c]
          BY <1>1, <2>1, <3>3 DEF Types
        <4>2. QED
          BY <2>1, <3>1, <4>1 DEF BlockType
      <3>4. QED
        BY <3>2, <3>3
    <2>3. dist_htree_index' \in Trees
      <3>1. num_block_types \in BlockTypeCounts /\ dist_context_map \in DistanceMaps
        BY <1>1, <1>2 DEF BlocksInvariant
      <3>2. distance_context \in 0 .. 3
        BY <1>1 DEF TypeOK, DistanceContexts
      <3>3. dist_context_map[NextType("distance", symbol) * DistanceContexts + distance_context]
              \in Trees
        BY <1>3, <3>1, <3>2, DistanceTrees
      <3>4. QED
        BY <3>3 DEF SwitchDistanceBlock
    <2>4. /\ UNCHANGED <<state, safe, distance_code, copy_length, dist_rb, dist_rb_idx, max_distance, pos,
                         remaining, loop_counter, hgroups, error_code, metablocks, distance_context>>
          /\ UNCHANGED <<trivial_literal_context, literal_htree_index, literal_htree, htree_command_index>>
      BY DEF SwitchDistanceBlock, blocks, maps, literals, distances, ring, progress,
          outcome
    <2>5. QED
      BY <1>1, <2>1, <2>2, <2>3, <2>4 DEF TypeOK, Types, BlockType
  <1>6. Types'
    BY <1>1, <1>2, <1>3, <1>4 DEF SwitchDistanceBlock, SwitchBlock,
        PrepareLiteralDecoding, TreeAfterSwitch, Processing, Types, TypeOK, blocks, maps,
        literals, distances, ring, progress, outcome, ReadStates, Errors, Success
  <1>7. BlocksInvariant'
    BY <1>1, <1>2, <1>3, <1>4 DEF SwitchDistanceBlock, SwitchBlock,
        PrepareLiteralDecoding, TreeAfterSwitch, Processing, BlocksInvariant, Types,
        TypeOK, LiteralTree, BlockType, blocks, maps, literals, distances, ring, progress,
        outcome, ReadStates, Errors, Success
  <1>8. CommandInvariant'
    BY <1>1, <1>2, <1>3, <1>4 DEF SwitchDistanceBlock, SwitchBlock,
        PrepareLiteralDecoding, TreeAfterSwitch, Processing, CommandInvariant, InCommand,
        TypeOK, Types, blocks, maps, literals, distances, ring, progress, outcome,
        ReadStates, Errors, Success
  <1>9. LengthInvariant'
    BY <1>1, <1>2, <1>3, <1>4 DEF SwitchDistanceBlock, SwitchBlock,
        PrepareLiteralDecoding, TreeAfterSwitch, Processing, LengthInvariant, InCommand,
        Pending, TypeOK, Types, CommandInvariant, blocks, maps, literals, distances, ring,
        progress, outcome, ReadStates, Errors, Success
  <1>10. ReachInvariant'
    BY <1>1, <1>2, <1>3, <1>4 DEF SwitchDistanceBlock, SwitchBlock,
        PrepareLiteralDecoding, TreeAfterSwitch, Processing, ReachInvariant, TypeOK,
        Types, blocks, maps, literals, distances, ring, progress, outcome, ReadStates,
        Errors, Success
  <1>11. QED
    BY <1>5, <1>6, <1>7, <1>8, <1>9, <1>10 DEF CommandsInvariant

LEMMA ReadCommandKeeps ==
  ASSUME CommandsInvariant, NEW insert \in InsertLengths, NEW copy \in CopyLengths,
         NEW implicit \in BOOLEAN, ReadCommand(insert, copy, implicit)
  PROVE  CommandsInvariant'
  <1>1. /\ TypeOK /\ Types
        /\ BlocksInvariant /\ CommandInvariant /\ LengthInvariant /\ ReachInvariant
    BY DEF CommandsInvariant
  <1>2. insert \in Nat /\ copy \in Nat /\ copy >= 2
    BY ConstantsAre
  <1>3. TypeOK'
    <2>1. distance_context' \in 0 .. 3 /\ distance_code' \in {0, -1}
      BY <1>2 DEF ReadCommand, CommandSymbol, DistanceContext
    <2>2. dist_htree_index' \in Trees
      <3>1. /\ metablocks > 0 /\ num_block_types \in BlockTypeCounts
            /\ dist_context_map \in DistanceMaps
        BY <1>1 DEF BlocksInvariant, ReadCommand, Processing, ReadStates
      <3>2. BlockType("distance") \in 0 .. num_block_types["distance"] - 1
        BY <1>1, <3>1 DEF TypeOK, Categories
      <3>3. dist_context_map[BlockType("distance") * DistanceContexts + distance_context'] \in Trees
        BY <2>1, <3>1, <3>2, DistanceTrees
      <3>4. QED
        BY <1>1, <3>3 DEF BlocksInvariant, ReadCommand, CommandSymbol
    <2>3. /\ block_length' \in [Categories -> Int] /\ UNCHANGED <<num_block_types, block_type_rb>>
          /\ \A c \in Categories : block_length'[c] \in Int
      BY <1>1 DEF Types, ReadCommand, TakeSymbol, Categories
    <2>4. /\ copy_length' \in Nat /\ loop_counter' \in Nat /\ remaining' \in Int
          /\ state' \in {"post_decode_literals", "inner"}
      BY <1>1, <1>2 DEF ReadCommand, TypeOK
    <2>5. /\ UNCHANGED <<safe, trivial_literal_context, literal_htree_index, literal_htree,
                         htree_command_index, dist_rb, dist_rb_idx, max_distance, pos>>
          /\ UNCHANGED <<hgroups, error_code, metablocks>>
      BY DEF ReadCommand, blocks, maps, literals, distances, ring, progress, outcome
    <2>6. distance_code' \in -1 .. HugeDistance /\ distance_context' \in 0 .. DistanceContexts - 1
      BY <2>1, ConstantsAre DEF DistanceContexts, HugeDistance
    <2>7. QED
      BY <1>1, <2>1, <2>2, <2>3, <2>4, <2>5, <2>6 DEF TypeOK, Types, BlockType, ReadStates
  <1>4. Types'
    <2>1. block_length' \in [Categories -> Int]
      BY <1>1 DEF Types, ReadCommand, TakeSymbol, Categories
    <2>2. QED
      BY <1>1, <2>1 DEF Types, ReadCommand, ring, outcome
  <1>5. BlocksInvariant'
    BY <1>1, <1>2 DEF ReadCommand, CommandSymbol, TakeSymbol, DistanceContext, Processing,
        BlocksInvariant, Types, TypeOK, LiteralTree, BlockType, blocks, maps, literals,
        distances, ring, progress, outcome, ReadStates, Errors, Success
  <1>6. CommandInvariant'
    BY <1>1, <1>2 DEF ReadCommand, CommandSymbol, TakeSymbol, DistanceContext, Processing,
        CommandInvariant, InCommand, TypeOK, Types, blocks, maps, literals, distances,
        ring, progress, outcome, ReadStates, Errors, Success
  <1>7. LengthInvariant'
    <2>1. /\ UNCHANGED <<num_block_types, empty_words, error_code>>
          /\ remaining' = remaining - insert /\ loop_counter' = insert
          /\ state = "command_begin" /\ error_code = Success
      BY DEF ReadCommand, Processing, ring, outcome
    <2>2. /\ block_length'["literal"] = block_length["literal"]
          /\ block_length'["distance"] = block_length["distance"]
          /\ block_length'["command"] = block_length["command"] - 1
      BY <1>1 DEF ReadCommand, TakeSymbol, Types, Categories
    <2>3. \/ insert = 0 /\ state' = "post_decode_literals" /\ Pending' = 0 /\ InCommand'
          \/ state' = "inner" /\ Pending' = insert /\ InCommand'
      BY <1>2, <2>1 DEF ReadCommand, Pending, InCommand
    <2>4. /\ block_length["literal"] \in Int /\ block_length["command"] \in Int
          /\ block_length["distance"] \in Int /\ remaining \in Int /\ empty_words \in Nat
      BY <1>1 DEF TypeOK, Types, Categories
    <2>5. /\ remaining > 0
          /\ num_block_types["literal"] = 1 => block_length["literal"] >= remaining
          /\ num_block_types["command"] = 1 => block_length["command"] + empty_words >= remaining
          /\ num_block_types["distance"] = 1 => block_length["distance"] + empty_words >= remaining
      BY <1>1, <2>1, <2>4 DEF LengthInvariant, Pending, InCommand
    <2>6. QED
      BY <1>2, <2>1, <2>2, <2>3, <2>4, <2>5 DEF LengthInvariant
  <1>8. ReachInvariant'
    BY <1>1, <1>2 DEF ReadCommand, CommandSymbol, TakeSymbol, DistanceContext, Processing,
        ReachInvariant, TypeOK, Types, blocks, maps, literals, distances, ring, progress,
        outcome, ReadStates, Errors, Success
  <1>9. QED
    BY <1>3, <1>4, <1>5, <1>6, <1>7, <1>8 DEF CommandsInvariant

LEMMA ReadCommandSymbolKeeps ==
  ASSUME CommandsInvariant, NEW insert \in InsertLengths, NEW copy \in CopyLengths,
         NEW implicit \in BOOLEAN, ReadCommandSymbol(insert, copy, implicit)
  PROVE  CommandsInvariant'
  <1>1. /\ TypeOK /\ Types
        /\ BlocksInvariant /\ CommandInvariant /\ LengthInvariant /\ ReachInvariant
    BY DEF CommandsInvariant
  <1>2. insert \in Nat /\ copy \in Nat /\ copy >= 2
    BY ConstantsAre
  <1>3. TypeOK'
    <2>1. distance_context' \in 0 .. 3 /\ distance_code' \in {0, -1}
      BY <1>2 DEF ReadCommandSymbol, CommandSymbol, DistanceContext
    <2>2. dist_htree_index' \in Trees
      <3>1. /\ metablocks > 0 /\ num_block_types \in BlockTypeCounts
            /\ dist_context_map \in DistanceMaps
        BY <1>1 DEF BlocksInvariant, ReadCommandSymbol, Processing, ReadStates
      <3>2. BlockType("distance") \in 0 .. num_block_types["distance"] - 1
        BY <1>1, <3>1 DEF TypeOK, Categories
      <3>3. dist_context_map[BlockType("distance") * DistanceContexts + distance_context'] \in Trees
        BY <2>1, <3>1, <3>2, DistanceTrees
      <3>4. QED
        BY <1>1, <3>3 DEF BlocksInvariant, ReadCommandSymbol, CommandSymbol
    <2>3. loop_counter' \in Nat /\ safe' \in BOOLEAN
      BY <1>2 DEF ReadCommandSymbol
    <2>4. /\ UNCHANGED <<state, num_block_types, block_type_rb, block_length, copy_length>>
          /\ UNCHANGED <<trivial_literal_context, literal_htree_index, literal_htree,
                         htree_command_index, dist_rb, dist_rb_idx, max_distance, pos>>
          /\ UNCHANGED <<remaining, hgroups, error_code, metablocks>>
      BY DEF ReadCommandSymbol, blocks, maps, literals, distances, ring, progress, outcome
    <2>5. distance_code' \in -1 .. HugeDistance /\ distance_context' \in 0 .. DistanceContexts - 1
      BY <2>1, ConstantsAre DEF DistanceContexts, HugeDistance
    <2>6. QED
      BY <1>1, <2>1, <2>2, <2>3, <2>4, <2>5 DEF TypeOK, Types, BlockType, ReadStates
  <1>4. Types'
    BY <1>1, <1>2 DEF ReadCommandSymbol, CommandSymbol, DistanceContext, Processing,
        Types, TypeOK, blocks, maps, literals, distances, ring, progress, outcome,
        ReadStates, Errors, Success
  <1>5. BlocksInvariant'
    BY <1>1, <1>2 DEF ReadCommandSymbol, CommandSymbol, DistanceContext, Processing,
        BlocksInvariant, Types, TypeOK, LiteralTree, BlockType, blocks, maps, literals,
        distances, ring, progress, outcome, ReadStates, Errors, Success
  <1>6. CommandInvariant'
    BY <1>1, <1>2 DEF ReadCommandSymbol, CommandSymbol, DistanceContext, Processing,
        CommandInvariant, InCommand, TypeOK, Types, blocks, maps, literals, distances,
        ring, progress, outcome, ReadStates, Errors, Success
  <1>7. LengthInvariant'
    BY <1>1, <1>2 DEF ReadCommandSymbol, CommandSymbol, DistanceContext, Processing,
        LengthInvariant, InCommand, Pending, TypeOK, Types, CommandInvariant, blocks,
        maps, literals, distances, ring, progress, outcome, ReadStates, Errors, Success
  <1>8. ReachInvariant'
    BY <1>1, <1>2 DEF ReadCommandSymbol, CommandSymbol, DistanceContext, Processing,
        ReachInvariant, TypeOK, Types, blocks, maps, literals, distances, ring, progress,
        outcome, ReadStates, Errors, Success
  <1>9. QED
    BY <1>3, <1>4, <1>5, <1>6, <1>7, <1>8 DEF CommandsInvariant

LEMMA EnterLiteralsKeeps ==
  ASSUME CommandsInvariant, EnterLiterals
  PROVE  CommandsInvariant'
  <1>1. /\ TypeOK /\ Types
        /\ BlocksInvariant /\ CommandInvariant /\ LengthInvariant /\ ReachInvariant
    BY DEF CommandsInvariant
  <1>2. TypeOK'
    BY <1>1 DEF EnterLiterals, LiteralTree, Processing, TypeOK, Types, BlockType, blocks,
        maps, literals, distances, ring, progress, outcome, ReadStates, Errors, Success
  <1>3. Types'
    BY <1>1 DEF EnterLiterals, LiteralTree, Processing, Types, TypeOK, blocks, maps,
        literals, distances, ring, progress, outcome, ReadStates, Errors, Success
  <1>4. BlocksInvariant'
    BY <1>1 DEF EnterLiterals, LiteralTree, Processing, BlocksInvariant, Types, TypeOK,
        BlockType, blocks, maps, literals, distances, ring, progress, outcome, ReadStates,
        Errors, Success
  <1>5. CommandInvariant'
    BY <1>1 DEF EnterLiterals, LiteralTree, Processing, CommandInvariant, InCommand,
        TypeOK, Types, blocks, maps, literals, distances, ring, progress, outcome,
        ReadStates, Errors, Success
  <1>6. LengthInvariant'
    BY <1>1 DEF EnterLiterals, LiteralTree, Processing, LengthInvariant, InCommand,
        Pending, TypeOK, Types, CommandInvariant, blocks, maps, literals, distances, ring,
        progress, outcome, ReadStates, Errors, Success
  <1>7. ReachInvariant'
    BY <1>1 DEF EnterLiterals, LiteralTree, Processing, ReachInvariant, TypeOK, Types,
        blocks, maps, literals, distances, ring, progress, outcome, ReadStates, Errors,
        Success
  <1>8. QED
    BY <1>2, <1>3, <1>4, <1>5, <1>6, <1>7 DEF CommandsInvariant

LEMMA ReadLiteralKeeps ==
  ASSUME CommandsInvariant, ReadLiteral
  PROVE  CommandsInvariant'
  <1>1. /\ TypeOK /\ Types
        /\ BlocksInvariant /\ CommandInvariant /\ LengthInvariant /\ ReachInvariant
    BY DEF CommandsInvariant
  <1>2. TypeOK'
    <2>1. /\ block_length' = [block_length EXCEPT !["literal"] = @ - 1]
          /\ pos' = pos + 1 /\ loop_counter' = loop_counter - 1
          /\ UNCHANGED <<num_block_types, block_type_rb, remaining, empty_words, error_code, metablocks>>
          /\ state = "inner" /\ error_code = Success
      BY DEF ReadLiteral, TakeSymbol, Processing, ring, outcome
    <2>2. \/ state' = "inner_write" /\ pos' % RingSize = 0
          \/ state' = "inner" /\ loop_counter' > 0
          \/ /\ state' = "post_decode_literals" /\ remaining > 0 /\ ~(loop_counter' > 0)
          \/ state' = "metablock_done"
      <3>1. state' = CASE pos' % RingSize = 0 -> "inner_write"
                       [] pos' % RingSize # 0 /\ loop_counter' > 0 -> "inner"
                       [] OTHER -> After(remaining, "post_decode_literals")
        BY DEF ReadLiteral
      <3>2. CASE pos' % RingSize = 0
        BY <3>1, <3>2
      <3>3. CASE pos' % RingSize # 0 /\ loop_counter' > 0
        BY <3>1, <3>3
      <3>4. CASE pos' % RingSize # 0 /\ ~(loop_counter' > 0)
        <4>1. state' = After(remaining, "post_decode_literals")
          BY <3>1, <3>4
        <4>2. remaining \in Int
          BY <1>1 DEF TypeOK
        <4>3. QED
          BY <3>4, <4>1, <4>2 DEF After
      <3>5. QED
        BY <3>2, <3>3, <3>4
    <2>3. loop_counter \in Nat /\ loop_counter > 0 /\ pos \in Nat /\ remaining \in Int
      BY <1>1, <2>1 DEF TypeOK, CommandInvariant
    <2>4. \A c \in Categories : block_length'[c] \in Int
      BY <1>1, <2>1 DEF Types, Categories
    <2>5. loop_counter' \in Nat /\ pos' \in Nat
      BY <2>1, <2>3
    <2>6. literal_htree' \in Trees \cup {Outside, ByContext} /\ safe' \in BOOLEAN
      BY <1>1 DEF ReadLiteral, TypeOK
    <2>7. /\ UNCHANGED <<trivial_literal_context, literal_htree_index, htree_command_index, dist_htree_index>>
          /\ UNCHANGED <<distance_context, distance_code, copy_length, dist_rb, dist_rb_idx, max_distance>>
          /\ UNCHANGED hgroups
      BY DEF ReadLiteral, blocks, maps, literals, distances, ring, progress, outcome
    <2>8. QED
      BY <1>1, <2>1, <2>2, <2>3, <2>4, <2>5, <2>6, <2>7 DEF TypeOK, Types, BlockType,
          ReadStates
  <1>3. Types'
    <2>1. /\ block_length' = [block_length EXCEPT !["literal"] = @ - 1]
          /\ pos' = pos + 1 /\ loop_counter' = loop_counter - 1
          /\ UNCHANGED <<num_block_types, block_type_rb, remaining, empty_words, error_code, metablocks>>
          /\ state = "inner" /\ error_code = Success
      BY DEF ReadLiteral, TakeSymbol, Processing, ring, outcome
    <2>2. block_length' \in [Categories -> Int]
      BY <1>1, <2>1 DEF Types, Categories
    <2>3. QED
      BY <1>1, <2>1, <2>2 DEF Types
  <1>4. BlocksInvariant'
    BY <1>1 DEF ReadLiteral, TakeSymbol, BlockGoesOn, After, Processing, BlocksInvariant,
        Types, TypeOK, LiteralTree, BlockType, blocks, maps, literals, distances, ring,
        progress, outcome, ReadStates, Errors, Success
  <1>5. CommandInvariant'
    BY <1>1 DEF ReadLiteral, TakeSymbol, BlockGoesOn, After, Processing, CommandInvariant,
        InCommand, TypeOK, Types, blocks, maps, literals, distances, ring, progress,
        outcome, ReadStates, Errors, Success
  <1>6. LengthInvariant'
    <2>1. /\ block_length' = [block_length EXCEPT !["literal"] = @ - 1]
          /\ pos' = pos + 1 /\ loop_counter' = loop_counter - 1
          /\ UNCHANGED <<num_block_types, block_type_rb, remaining, empty_words, error_code, metablocks>>
          /\ state = "inner" /\ error_code = Success
      BY DEF ReadLiteral, TakeSymbol, Processing, ring, outcome
    <2>2. \/ state' = "inner_write" /\ pos' % RingSize = 0
          \/ state' = "inner" /\ loop_counter' > 0
          \/ /\ state' = "post_decode_literals" /\ remaining > 0 /\ ~(loop_counter' > 0)
          \/ state' = "metablock_done"
      <3>1. state' = CASE pos' % RingSize = 0 -> "inner_write"
                       [] pos' % RingSize # 0 /\ loop_counter' > 0 -> "inner"
                       [] OTHER -> After(remaining, "post_decode_literals")
        BY DEF ReadLiteral
      <3>2. CASE pos' % RingSize = 0
        BY <3>1, <3>2
      <3>3. CASE pos' % RingSize # 0 /\ loop_counter' > 0
        BY <3>1, <3>3
      <3>4. CASE pos' % RingSize # 0 /\ ~(loop_counter' > 0)
        <4>1. state' = After(remaining, "post_decode_literals")
          BY <3>1, <3>4
        <4>2. remaining \in Int
          BY <1>1 DEF TypeOK
        <4>3. QED
          BY <3>4, <4>1, <4>2 DEF After
      <3>5. QED
        BY <3>2, <3>3, <3>4
    <2>3. loop_counter \in Nat /\ loop_counter > 0 /\ pos \in Nat /\ remaining \in Int
      BY <1>1, <2>1 DEF TypeOK, CommandInvariant
    <2>4. /\ block_length'["literal"] = block_length["literal"] - 1
          /\ block_length'["distance"] = block_length["distance"]
          /\ block_length'["command"] = block_length["command"]
          /\ block_length["literal"] \in Int
      BY <1>1, <2>1 DEF Types, Categories
    <2>5. /\ num_block_types["literal"] = 1 => block_length["literal"] >= remaining + loop_counter
          /\ num_block_types["command"] = 1 => block_length["command"] + empty_words + 1 >= remaining
          /\ num_block_types["distance"] = 1 => block_length["distance"] + empty_words >= remaining
      BY <1>1, <2>1 DEF LengthInvariant, InCommand, Pending
    <2>6. CASE state' \in {"inner_write", "inner"}
      <3>1. Pending' = loop_counter - 1 /\ InCommand'
        BY <2>1, <2>6 DEF Pending, InCommand
      <3>2. num_block_types["literal"] = 1 =>
              block_length["literal"] - 1 >= remaining + (loop_counter - 1)
        BY <2>3, <2>4, <2>5
      <3>3. QED
        BY <2>1, <2>4, <2>5, <2>6, <3>1, <3>2 DEF LengthInvariant
    <2>7. CASE state' = "post_decode_literals"
      <3>1. Pending' = 0 /\ InCommand' /\ remaining > 0
        BY <2>2, <2>7 DEF Pending, InCommand
      <3>2. num_block_types["literal"] = 1 => block_length["literal"] - 1 >= remaining + 0
        BY <2>3, <2>4, <2>5
      <3>3. QED
        BY <2>1, <2>4, <2>5, <2>7, <3>1, <3>2 DEF LengthInvariant
    <2>8. CASE state' = "metablock_done"
      BY <2>8 DEF LengthInvariant, InCommand
    <2>9. QED
      BY <2>2, <2>6, <2>7, <2>8
  <1>7. ReachInvariant'
    <2>1. /\ block_length' = [block_length EXCEPT !["literal"] = @ - 1]
          /\ pos' = pos + 1 /\ loop_counter' = loop_counter - 1
          /\ UNCHANGED <<num_block_types, block_type_rb, remaining, empty_words, error_code, metablocks>>
          /\ state = "inner" /\ error_code = Success
      BY DEF ReadLiteral, TakeSymbol, Processing, ring, outcome
    <2>2. \/ state' = "inner_write" /\ pos' % RingSize = 0
          \/ state' = "inner" /\ loop_counter' > 0
          \/ /\ state' = "post_decode_literals" /\ remaining > 0 /\ ~(loop_counter' > 0)
          \/ state' = "metablock_done"
      <3>1. state' = CASE pos' % RingSize = 0 -> "inner_write"
                       [] pos' % RingSize # 0 /\ loop_counter' > 0 -> "inner"
                       [] OTHER -> After(remaining, "post_decode_literals")
        BY DEF ReadLiteral
      <3>2. CASE pos' % RingSize = 0
        BY <3>1, <3>2
      <3>3. CASE pos' % RingSize # 0 /\ loop_counter' > 0
        BY <3>1, <3>3
      <3>4. CASE pos' % RingSize # 0 /\ ~(loop_counter' > 0)
        <4>1. state' = After(remaining, "post_decode_literals")
          BY <3>1, <3>4
        <4>2. remaining \in Int
          BY <1>1 DEF TypeOK
        <4>3. QED
          BY <3>4, <4>1, <4>2 DEF After
      <3>5. QED
        BY <3>2, <3>3, <3>4
    <2>3. loop_counter \in Nat /\ loop_counter > 0 /\ pos \in Nat /\ remaining \in Int
      BY <1>1, <2>1 DEF TypeOK, CommandInvariant
    <2>4. max_distance' = max_distance
      BY DEF ReadLiteral, ring
    <2>5. MaxBackward \in Nat /\ RingSize \in Nat /\ MaxBackward < RingSize
      BY ConstantsAre
    <2>6. state' = "inner_write" => pos' >= MaxBackward
      <3> SUFFICES ASSUME (pos + 1) % RingSize = 0
                   PROVE  pos + 1 >= MaxBackward
        BY <2>1, <2>2
      <3>1. ~(pos + 1 < RingSize)
        <4> SUFFICES ASSUME pos + 1 < RingSize
                     PROVE  FALSE
          OBVIOUS
        <4>1. (pos + 1) % RingSize = pos + 1
          BY <2>3, <2>5, SmallRemainder
        <4>2. QED
          BY <2>3, <4>1
      <3>2. QED
        BY <2>3, <2>5, <3>1
    <2>7. max_distance = MaxBackward => pos' >= MaxBackward
      BY <1>1, <2>1, <2>3, <2>5 DEF ReachInvariant
    <2>8. QED
      BY <2>2, <2>4, <2>6, <2>7 DEF ReachInvariant
  <1>8. QED
    BY <1>2, <1>3, <1>4, <1>5, <1>6, <1>7 DEF CommandsInvariant

LEMMA RingWrittenKeeps ==
  ASSUME CommandsInvariant, RingWritten
  PROVE  CommandsInvariant'
  <1>1. /\ TypeOK /\ Types
        /\ BlocksInvariant /\ CommandInvariant /\ LengthInvariant /\ ReachInvariant
    BY DEF CommandsInvariant
  <1>2. MaxBackward \in Nat
    BY ConstantsAre
  <1>3. TypeOK'
    BY <1>1, <1>2 DEF RingWritten, After, TypeOK, Types, BlockType, blocks, maps,
        literals, distances, ring, progress, outcome, ReadStates, Errors, Success
  <1>4. Types'
    BY <1>1, <1>2 DEF RingWritten, After, Types, TypeOK, blocks, maps, literals,
        distances, ring, progress, outcome, ReadStates, Errors, Success
  <1>5. BlocksInvariant'
    BY <1>1, <1>2 DEF RingWritten, After, BlocksInvariant, Types, TypeOK, LiteralTree,
        BlockType, blocks, maps, literals, distances, ring, progress, outcome, ReadStates,
        Errors, Success
  <1>6. CommandInvariant'
    BY <1>1, <1>2 DEF RingWritten, After, CommandInvariant, InCommand, TypeOK, Types,
        blocks, maps, literals, distances, ring, progress, outcome, ReadStates, Errors,
        Success
  <1>7. LengthInvariant'
    BY <1>1, <1>2 DEF RingWritten, After, LengthInvariant, InCommand, Pending, TypeOK,
        Types, CommandInvariant, blocks, maps, literals, distances, ring, progress,
        outcome, ReadStates, Errors, Success
  <1>8. ReachInvariant'
    BY <1>1, <1>2 DEF RingWritten, After, ReachInvariant, TypeOK, Types, blocks, maps,
        literals, distances, ring, progress, outcome, ReadStates, Errors, Success
  <1>9. QED
    BY <1>3, <1>4, <1>5, <1>6, <1>7, <1>8 DEF CommandsInvariant

LEMMA ReadDistanceSymbolKeeps ==
  ASSUME CommandsInvariant, ReadDistanceSymbol
  PROVE  CommandsInvariant'
  <1>1. /\ TypeOK /\ Types
        /\ BlocksInvariant /\ CommandInvariant /\ LengthInvariant /\ ReachInvariant
    BY DEF CommandsInvariant
  <1>2. TypeOK'
    <2>1. distance_context' \in 0 .. DistanceContexts - 1 /\ distance_code' \in -1 .. HugeDistance
      BY ConstantsAre DEF ReadDistanceSymbol, DistanceContexts, HugeDistance
    <2>2. QED
      BY <1>1, <2>1 DEF TypeOK, Types, BlockType, ReadDistanceSymbol, blocks, maps,
          literals, distances, ring, progress, outcome
  <1>3. Types'
    BY <1>1 DEF ReadDistanceSymbol, Processing, Types, TypeOK, blocks, maps, literals,
        distances, ring, progress, outcome, ReadStates, Errors, Success
  <1>4. BlocksInvariant'
    BY <1>1 DEF ReadDistanceSymbol, Processing, BlocksInvariant, Types, TypeOK,
        LiteralTree, BlockType, blocks, maps, literals, distances, ring, progress,
        outcome, ReadStates, Errors, Success
  <1>5. CommandInvariant'
    BY <1>1 DEF ReadDistanceSymbol, Processing, CommandInvariant, InCommand, TypeOK,
        Types, blocks, maps, literals, distances, ring, progress, outcome, ReadStates,
        Errors, Success
  <1>6. LengthInvariant'
    BY <1>1 DEF ReadDistanceSymbol, Processing, LengthInvariant, InCommand, Pending,
        TypeOK, Types, CommandInvariant, blocks, maps, literals, distances, ring,
        progress, outcome, ReadStates, Errors, Success
  <1>7. ReachInvariant'
    BY <1>1 DEF ReadDistanceSymbol, Processing, ReachInvariant, TypeOK, Types, blocks,
        maps, literals, distances, ring, progress, outcome, ReadStates, Errors, Success
  <1>8. QED
    BY <1>2, <1>3, <1>4, <1>5, <1>6, <1>7 DEF CommandsInvariant

\* How far back a copy may reach is what has been decoded, as far as the window goes.
LEMMA ReachIs ==
  ASSUME CommandsInvariant
  PROVE  /\ NewMaxDistance = (IF pos < MaxBackward THEN pos ELSE MaxBackward)
         /\ NewMaxDistance \in 0 .. MaxBackward
         /\ NewMaxDistance = MaxBackward => pos >= MaxBackward
  <1>1. pos \in Nat /\ MaxBackward \in Nat /\ (max_distance = MaxBackward => pos >= MaxBackward)
    BY ConstantsAre DEF CommandsInvariant, TypeOK, ReachInvariant
  <1>2. QED
    BY <1>1 DEF NewMaxDistance

\* A reference leaves the next command, or the next metablock, to be read, with the ring
\* of distances back where it was or one further; or it ends the stream.
LEMMA ReferenceKeeps ==
  ASSUME CommandsInvariant, Processing, state = "post_decode_literals",
         NEW symbol, NEW distance \in 1 .. HugeDistance, NEW index \in 0 .. 3,
         Reference(symbol, distance, index), distance_context' \in 0 .. 1,
         block_length' = (IF distance_code < 0 THEN TakeSymbol("distance") ELSE block_length),
         UNCHANGED <<num_block_types, block_type_rb, maps, literals, literal_htree,
                     htree_command_index, dist_context_map_slice_index, dist_htree_index,
                     copy_length>>
  PROVE  CommandsInvariant'
  <1>1. /\ TypeOK /\ Types
        /\ BlocksInvariant /\ CommandInvariant /\ LengthInvariant /\ ReachInvariant
    BY DEF CommandsInvariant
  <1>2. /\ distance_code' = distance /\ max_distance' = NewMaxDistance
        /\ loop_counter' = copy_length
    BY DEF Reference
  <1>3. /\ copy_length \in Nat /\ copy_length >= 2 /\ MaxAllowed \in Nat /\ MaxBackward \in Nat
        /\ MaxBackward < MaxAllowed
    <2>1. copy_length \in CopyLengths
      BY <1>1 DEF CommandInvariant, InCommand, Processing
    <2>2. QED
      BY <2>1, ConstantsAre
  <1>4. NewMaxDistance \in 0 .. MaxBackward /\ (NewMaxDistance = MaxBackward => pos >= MaxBackward)
    BY ReachIs
  <1>5. block_length' \in [Categories -> Int]
    BY <1>1 DEF Types, TakeSymbol, Categories
  <1>6. /\ block_length'["literal"] = block_length["literal"]
        /\ block_length'["command"] = block_length["command"]
        /\ block_length'["distance"] \in {block_length["distance"], block_length["distance"] - 1}
    BY <1>1 DEF Types, TakeSymbol, Categories
  <1>7. \/ \E bytes \in Nat : FinishCommand(bytes)
        \/ /\ error_code' \in Errors
           /\ UNCHANGED <<state, safe, dist_rb, pos, remaining, metablocks, empty_words>>
           /\ hgroups' \in BOOLEAN
    <2>1. WordBytes \subseteq Nat
      BY ConstantsAre
    <2>2. QED
      BY <1>3, <2>1 DEF Reference, WordReference, FailReference, Errors
  <1>8. dist_rb' \in [0 .. 3 -> 1 .. MaxAllowed] /\ dist_rb_idx' \in 0 .. 3
    <2>1. dist_rb \in [0 .. 3 -> 1 .. MaxAllowed]
      BY <1>1 DEF TypeOK
    <2>2. dist_rb' = dist_rb \/ (dist_rb' = [dist_rb EXCEPT ![index] = distance]
                                  /\ distance <= NewMaxDistance)
      BY DEF Reference, FailReference, WordReference
    <2>3. distance <= NewMaxDistance => distance \in 1 .. MaxAllowed
      BY <1>3, <1>4
    <2>4. dist_rb' \in [0 .. 3 -> 1 .. MaxAllowed]
      BY <2>1, <2>2, <2>3
    <2>5. (index + distance_context') % 4 \in 0 .. 3 /\ (index + 1) % 4 \in 0 .. 3
      <3>1. PICK c \in 0 .. 1 : c = distance_context'
        OBVIOUS
      <3>2. (index + c) % 4 \in 0 .. 3 /\ (index + 1) % 4 \in 0 .. 3
        BY SMT
      <3>3. QED
        BY <3>1, <3>2
    <2>6. dist_rb_idx' \in 0 .. 3
      BY <2>5 DEF Reference, FailReference, WordReference
    <2>7. QED
      BY <2>4, <2>6
  <1>9. /\ UNCHANGED <<context_map, dist_context_map, context_map_slice_index,
                       trivial_literal_context, literal_htree_index>>
        /\ literal_htree = Outside /\ metablocks > 0 /\ error_code = Success
        /\ \A c \in Categories : BlockType(c)' = BlockType(c)
    BY <1>1 DEF maps, literals, BlocksInvariant, Processing, BlockType
  <1>10. CASE \E bytes \in Nat : FinishCommand(bytes)
    <2>1. PICK bytes \in Nat : FinishCommand(bytes)
      BY <1>10
    <2>2. /\ pos' = pos + bytes /\ remaining' = remaining - bytes
          /\ empty_words' = empty_words + (IF bytes = 0 THEN 1 ELSE 0)
          /\ UNCHANGED <<hgroups, error_code, metablocks>>
          /\ safe' = (safe /\ state' \in ReadStates)
      BY <2>1 DEF FinishCommand, outcome
    <2>3. pos \in Nat /\ remaining \in Int /\ empty_words \in Nat /\ safe \in BOOLEAN
      BY <1>1 DEF TypeOK, Types
    <2>4. \/ state' = "post_write" /\ pos' >= MaxBackward
          \/ state' = "metablock_done"
          \/ state' = "command_begin" /\ remaining' > 0
      <3>1. CASE pos' \div RingSize > pos \div RingSize
        <4>1. state' = "post_write"
          BY <2>1, <3>1 DEF FinishCommand
        <4>2. RingSize \in Nat \ {0} /\ MaxBackward < RingSize
          BY ConstantsAre
        <4>3. pos \div RingSize >= 0
          BY <2>3, <4>2
        <4>4. PICK p \in Nat : p = pos'
          BY <2>2, <2>3
        <4>5. p \div RingSize > 0
          <5>1. p \div RingSize > pos \div RingSize
            BY <3>1, <4>4
          <5>2. p \div RingSize \in Nat /\ pos \div RingSize \in Nat
            BY <2>3, <4>2
          <5>3. QED
            BY <4>3, <5>1, <5>2
        <4>6. p >= RingSize
          BY <4>2, <4>5, QuotientsGrow
        <4>7. QED
          BY <1>3, <4>1, <4>2, <4>4, <4>6
      <3>2. CASE ~(pos' \div RingSize > pos \div RingSize)
        <4>1. state' = After(remaining', "command_begin")
          BY <2>1, <3>2 DEF FinishCommand
        <4>2. PICK r \in Int : r = remaining'
          BY <2>2, <2>3
        <4>3. QED
          BY <4>1, <4>2 DEF After
      <3>3. QED
        BY <3>1, <3>2
    <2>5. TypeOK'
      <3>1. /\ pos' \in Nat /\ remaining' \in Int /\ safe' \in BOOLEAN
        BY <2>2, <2>3
      <3>2. /\ distance_code' \in -1 .. HugeDistance /\ loop_counter' \in Nat
            /\ max_distance' \in 0 .. MaxBackward
            /\ distance_context' \in 0 .. DistanceContexts - 1
        BY <1>2, <1>3, <1>4 DEF DistanceContexts, HugeDistance
      <3>3. \A c \in Categories : block_length'[c] \in Int
        BY <1>5
      <3>4. QED
        BY <1>1, <1>8, <1>9, <2>2, <2>4, <3>1, <3>2, <3>3 DEF TypeOK, ReadStates
    <2>6. Types'
      <3>1. empty_words' \in Nat
        BY <2>2, <2>3
      <3>2. QED
        BY <1>1, <1>5, <2>2, <3>1 DEF Types
    <2>7. BlocksInvariant'
      <3>1. {"command", "literal", "distance"} \subseteq Categories
        BY DEF Categories
      <3>2. QED
        BY <1>1, <1>9, <2>2, <2>4, <3>1 DEF BlocksInvariant, Trivial
    <2>8. CommandInvariant'
      BY <1>1, <1>9, <2>2, <2>4 DEF CommandInvariant, InCommand
    <2>9. LengthInvariant'
      <3>1. Pending' = 0 /\ ~InCommand'
        BY <2>4 DEF Pending, InCommand
      <3>2. Pending = 0 /\ InCommand
        BY DEF Pending, InCommand
      <3>3. /\ block_length["literal"] \in Int /\ block_length["command"] \in Int
            /\ block_length["distance"] \in Int
        BY <1>1 DEF Types, Categories
      <3>4. /\ num_block_types["literal"] = 1 => block_length["literal"] >= remaining
            /\ num_block_types["command"] = 1 =>
                 block_length["command"] + empty_words + 1 >= remaining
            /\ num_block_types["distance"] = 1 => block_length["distance"] + empty_words >= remaining
        BY <1>1, <1>9, <2>3, <3>2, <3>3 DEF LengthInvariant
      <3>5. PICK e \in Nat, r \in Int, d \in Int :
              e = empty_words' /\ r = remaining' /\ d = block_length'["distance"]
        BY <1>6, <2>2, <2>3, <3>3
      <3>6. e - 1 >= empty_words \/ (e = empty_words /\ bytes >= 1)
        BY <2>2, <2>3, <3>5
      <3>7. r = remaining - bytes /\ d >= block_length["distance"] - 1
        BY <1>6, <2>2, <3>3, <3>5
      <3>8. /\ num_block_types["literal"] = 1 => block_length["literal"] >= r
            /\ num_block_types["command"] = 1 => block_length["command"] + e >= r
            /\ num_block_types["distance"] = 1 => d + e >= r
        BY <2>3, <3>3, <3>4, <3>6, <3>7
      <3>9. /\ num_block_types'["literal"] = 1 => block_length'["literal"] >= remaining' + Pending'
            /\ num_block_types'["command"] = 1 =>
                 block_length'["command"] + empty_words' + (IF InCommand' THEN 1 ELSE 0) >= remaining'
            /\ num_block_types'["distance"] = 1 =>
                 block_length'["distance"] + empty_words' >= remaining'
        <4>1. /\ block_length["literal"] + 0 = block_length["literal"] /\ r + 0 = r
              /\ block_length["command"] + e + 0 = block_length["command"] + e
          BY <3>3
        <4>2. QED
          BY <1>6, <3>1, <3>5, <3>8, <4>1
      <3>10. state' \in {"command_begin", "post_decode_literals"} => remaining' > 0
        BY <2>4
      <3>11. QED
        BY <3>9, <3>10 DEF LengthInvariant
    <2>10. ReachInvariant'
      <3>1. max_distance' = MaxBackward => pos' >= MaxBackward
        <4>1. pos + bytes >= pos
          BY <2>3
        <4>2. NewMaxDistance = MaxBackward => pos + bytes >= MaxBackward
          BY <1>3, <1>4, <2>3
        <4>3. QED
          BY <1>2, <2>2, <4>2
      <3>2. QED
        BY <2>4, <3>1 DEF ReachInvariant
    <2>11. QED
      BY <2>5, <2>6, <2>7, <2>8, <2>9, <2>10 DEF CommandsInvariant
  <1>11. CASE /\ error_code' \in Errors
              /\ UNCHANGED <<state, safe, dist_rb, pos, remaining, metablocks, empty_words>>
              /\ hgroups' \in BOOLEAN
    <2>1. error_code' # Success
      BY <1>11 DEF Errors, Success
    <2>2. TypeOK'
      <3>1. /\ distance_code' \in -1 .. HugeDistance /\ loop_counter' \in Nat
            /\ max_distance' \in 0 .. MaxBackward
            /\ distance_context' \in 0 .. DistanceContexts - 1
        BY <1>2, <1>3, <1>4 DEF DistanceContexts, HugeDistance
      <3>2. \A c \in Categories : block_length'[c] \in Int
        BY <1>5
      <3>3. QED
        BY <1>1, <1>8, <1>9, <1>11, <3>1, <3>2 DEF TypeOK
    <2>3. Types'
      BY <1>1, <1>5, <1>11 DEF Types
    <2>4. BlocksInvariant'
      <3>1. {"command", "literal", "distance"} \subseteq Categories
        BY DEF Categories
      <3>2. QED
        BY <1>1, <1>9, <1>11, <3>1 DEF BlocksInvariant, Trivial
    <2>5. CommandInvariant' /\ LengthInvariant'
      BY <1>11, <2>1 DEF CommandInvariant, LengthInvariant
    <2>6. ReachInvariant'
      BY <1>2, <1>4, <1>11 DEF ReachInvariant
    <2>7. QED
      BY <2>2, <2>3, <2>4, <2>5, <2>6 DEF CommandsInvariant
  <1>12. QED
    BY <1>7, <1>10, <1>11

\* What a distance symbol stands for is a distance.
LEMMA DistancesAre ==
  ASSUME TypeOK
  PROVE  /\ LastDistance \in 1 .. MaxAllowed /\ (dist_rb_idx - 1) % 4 \in 0 .. 3
         /\ \A code \in 1 .. 15 : ShortDistance(code) \in 1 .. HugeDistance
  <1>1. dist_rb \in [0 .. 3 -> 1 .. MaxAllowed] /\ dist_rb_idx \in 0 .. 3 /\ MaxAllowed \in Nat
    BY ConstantsAre DEF TypeOK
  <1>2. (dist_rb_idx - 1) % 4 \in 0 .. 3
    BY <1>1
  <1>3. ASSUME NEW code \in 1 .. 15
        PROVE  ShortDistance(code) \in 1 .. HugeDistance
    <2>1. IndexOffset[code + 1] \in 0 .. 3 /\ ValueOffset[code + 1] \in 0 .. 3
      BY DEF IndexOffset, ValueOffset
    <2>2. PICK i \in 0 .. 3, v \in 0 .. 3 : i = IndexOffset[code + 1] /\ v = ValueOffset[code + 1]
      BY <2>1
    <2>3. (dist_rb_idx + i) % 4 \in 0 .. 3
      BY <1>1
    <2>4. PICK d \in 1 .. MaxAllowed : d = dist_rb[(dist_rb_idx + i) % 4]
      BY <1>1, <2>3
    <2>5. ShortDistance(code) = (IF code % 2 = 1 THEN d + v
                                 ELSE IF d > v THEN d - v ELSE HugeDistance)
      <3>1. ShortDistance(code) = CASE code % 2 = 1 -> d + v
                                    [] code % 2 = 0 /\ d > v -> d - v
                                    [] OTHER -> HugeDistance
        BY <2>2, <2>4 DEF ShortDistance
      <3>2. code % 2 \in {0, 1}
        OBVIOUS
      <3>3. QED
        BY <3>1, <3>2
    <2>6. QED
      BY <1>1, <2>5 DEF HugeDistance
  <1>4. QED
    BY <1>1, <1>2, <1>3 DEF LastDistance

LEMMA ImplicitDistanceKeeps ==
  ASSUME CommandsInvariant, ImplicitDistance
  PROVE  CommandsInvariant'
  <1>1. LastDistance \in 1 .. HugeDistance /\ (dist_rb_idx - 1) % 4 \in 0 .. 3
    BY DistancesAre, ConstantsAre DEF CommandsInvariant, HugeDistance
  <1>2. distance_context' \in 0 .. 1
    BY DEF ImplicitDistance
  <1>3. /\ Processing /\ state = "post_decode_literals"
        /\ Reference(Symbol(0, 0), LastDistance, (dist_rb_idx - 1) % 4)
        /\ UNCHANGED <<num_block_types, block_type_rb, maps, literals, literal_htree,
                       htree_command_index, dist_context_map_slice_index, dist_htree_index,
                       copy_length>>
    BY DEF ImplicitDistance, blocks
  <1>4. block_length' = (IF distance_code < 0 THEN TakeSymbol("distance") ELSE block_length)
    <2>1. distance_code \in Int /\ distance_code >= 0 /\ UNCHANGED block_length
      BY DEF ImplicitDistance, blocks, CommandsInvariant, TypeOK
    <2>2. QED
      BY <2>1
  <1>5. QED
    BY <1>1, <1>2, <1>3, <1>4, ReferenceKeeps

LEMMA ReadShortDistanceKeeps ==
  ASSUME CommandsInvariant, NEW code \in ShortCodes, ReadShortDistance(code)
  PROVE  CommandsInvariant'
  <1>1. /\ LastDistance \in 1 .. HugeDistance /\ (dist_rb_idx - 1) % 4 \in 0 .. 3
        /\ dist_rb_idx \in 0 .. 3
    BY DistancesAre, ConstantsAre DEF CommandsInvariant, HugeDistance, TypeOK
  <1>2. distance_context' \in 0 .. 1
    BY DEF ReadShortDistance
  <1>3. /\ Processing /\ state = "post_decode_literals"
        /\ UNCHANGED <<num_block_types, block_type_rb, maps, literals, literal_htree,
                       htree_command_index, dist_context_map_slice_index, dist_htree_index,
                       copy_length>>
    BY DEF ReadShortDistance
  <1>4. block_length' = (IF distance_code < 0 THEN TakeSymbol("distance") ELSE block_length)
    BY DEF ReadShortDistance
  <1>5. CASE code = 0
    <2>1. Reference(Symbol(0, 0), LastDistance, (dist_rb_idx - 1) % 4)
      BY <1>5 DEF ReadShortDistance
    <2>2. QED
      BY <1>1, <1>2, <1>3, <1>4, <2>1, ReferenceKeeps
  <1>6. CASE code # 0
    <2>1. code \in 1 .. 15
      BY <1>6, ConstantsAre
    <2>2. ShortDistance(code) \in 1 .. HugeDistance
      BY <2>1, DistancesAre DEF CommandsInvariant
    <2>3. Reference(Symbol(code, 0), ShortDistance(code), dist_rb_idx)
      BY <1>6 DEF ReadShortDistance
    <2>4. QED
      BY <1>1, <1>2, <1>3, <1>4, <2>2, <2>3, ReferenceKeeps
  <1>7. QED
    BY <1>5, <1>6

LEMMA ReadDistanceKeeps ==
  ASSUME CommandsInvariant, NEW distance \in Distances, ReadDistance(distance)
  PROVE  CommandsInvariant'
  <1>1. distance \in 1 .. HugeDistance /\ dist_rb_idx \in 0 .. 3
    BY ConstantsAre DEF CommandsInvariant, HugeDistance, TypeOK
  <1>2. distance_context' \in 0 .. 1
    BY DEF ReadDistance
  <1>3. /\ Processing /\ state = "post_decode_literals"
        /\ Reference(Symbol(16, distance), distance, dist_rb_idx)
        /\ UNCHANGED <<num_block_types, block_type_rb, maps, literals, literal_htree,
                       htree_command_index, dist_context_map_slice_index, dist_htree_index,
                       copy_length>>
    BY DEF ReadDistance
  <1>4. block_length' = (IF distance_code < 0 THEN TakeSymbol("distance") ELSE block_length)
    BY DEF ReadDistance
  <1>5. QED
    BY <1>1, <1>2, <1>3, <1>4, ReferenceKeeps

LEMMA UnchangedKeeps ==
  ASSUME CommandsInvariant, UNCHANGED vars
  PROVE  CommandsInvariant'
  <1>1. /\ UNCHANGED <<state, safe, num_block_types, block_type_rb, block_length, context_map,
                       dist_context_map, context_map_slice_index, trivial_literal_context,
                       literal_htree_index, literal_htree, htree_command_index>>
        /\ UNCHANGED <<dist_context_map_slice_index, dist_htree_index, distance_context,
                       distance_code, copy_length, dist_rb, dist_rb_idx, max_distance,
                       empty_words, pos, remaining, loop_counter, hgroups, error_code,
                       metablocks>>
    BY DEF vars, blocks, maps, literals, distances, ring, progress, outcome
  <1>2. TypeOK' /\ Types'
    BY <1>1 DEF CommandsInvariant, TypeOK, Types, BlockType
  <1>3. BlocksInvariant'
    BY <1>1 DEF CommandsInvariant, BlocksInvariant, BlockType, Trivial, LiteralTree
  <1>4. CommandInvariant' /\ LengthInvariant' /\ ReachInvariant'
    BY <1>1 DEF CommandsInvariant, CommandInvariant, LengthInvariant, ReachInvariant, InCommand,
                Pending
  <1>5. QED
    BY <1>2, <1>3, <1>4 DEF CommandsInvariant

LEMMA InitHolds ==
  Init => CommandsInvariant
  <1> SUFFICES ASSUME Init
               PROVE  CommandsInvariant
    OBVIOUS
  <1>1. {"command", "literal", "distance"} \subseteq Categories
    BY DEF Categories
  <1>2. \A c \in Categories : num_block_types[c] = 0 /\ block_length[c] = 0 /\ BlockType(c) = 0
    BY DEF Init, BlockType
  <1>3. TypeOK
    <2>1. dist_rb \in [0 .. 3 -> 1 .. MaxAllowed] /\ dist_rb_idx \in 0 .. 3
      <3>1. \A k \in 0 .. 3 : <<16, 15, 11, 4>>[k + 1] \in 1 .. 16
        OBVIOUS
      <3>2. MaxAllowed \in Nat /\ 16 <= MaxAllowed
        BY ConstantsAre
      <3>3. \A k \in 0 .. 3 : <<16, 15, 11, 4>>[k + 1] \in 1 .. MaxAllowed
        BY <3>1, <3>2
      <3>4. QED
        BY <3>3 DEF Init
    <2>2. max_distance \in 0 .. MaxBackward /\ distance_code \in -1 .. HugeDistance
      BY ConstantsAre DEF Init, HugeDistance
    <2>3. /\ {literal_htree_index, htree_command_index, dist_htree_index} \subseteq Trees
          /\ distance_context \in 0 .. DistanceContexts - 1
      BY DEF Init, Trees, DistanceContexts
    <2>4. /\ state = "metablock_begin" /\ safe = FALSE /\ hgroups = TRUE
          /\ trivial_literal_context = FALSE /\ literal_htree = Outside
          /\ copy_length = 0 /\ loop_counter = 0 /\ pos = 0 /\ remaining = 0
          /\ error_code = Success /\ metablocks = 0
      BY DEF Init
    <2>5. \A c \in Categories :
            /\ num_block_types[c] \in Nat /\ block_length[c] \in Int
            /\ metablocks > 0 => BlockType(c) \in 0 .. num_block_types[c] - 1
            /\ num_block_types[c] > 1 => block_type_rb[c][1] \in 0 .. num_block_types[c] - 1
      BY <1>2, <2>4
    <2>6. /\ state \in ReadStates \cup {"metablock_begin", "metablock_done", "inner_write",
                                        "post_write", "done"}
          /\ error_code \in Errors \cup {Success}
          /\ literal_htree \in Trees \cup {Outside, ByContext}
      BY <2>4
    <2>7. copy_length \in Nat /\ loop_counter \in Nat /\ pos \in Nat /\ remaining \in Int
      BY <2>4
    <2>8. safe \in BOOLEAN /\ hgroups \in BOOLEAN /\ trivial_literal_context \in BOOLEAN
      BY DEF Init
    <2>9. QED
      BY <2>1, <2>2, <2>3, <2>5, <2>6, <2>7, <2>8 DEF TypeOK
  <1>4. Types
    BY DEF Init, Types
  <1>5. BlocksInvariant
    <2>1. LiteralContexts \in Nat
      BY ConstantsAre
    <2>2. QED
      BY <1>1, <1>2, <2>1 DEF Init, BlocksInvariant, DistanceContexts
  <1>6. CommandInvariant /\ LengthInvariant
    BY DEF Init, CommandInvariant, LengthInvariant, InCommand
  <1>7. ReachInvariant
    BY ConstantsAre DEF Init, ReachInvariant
  <1>8. QED
    BY <1>3, <1>4, <1>5, <1>6, <1>7 DEF CommandsInvariant

LEMMA NextKeeps ==
  CommandsInvariant /\ [Next]_vars => CommandsInvariant'
  <1> SUFFICES ASSUME CommandsInvariant, [Next]_vars
               PROVE  CommandsInvariant'
    OBVIOUS
  <1>1. CASE Begin
    BY <1>1, BeginMetablockKeeps DEF Begin
  <1>2. CASE MetablockDone
    BY <1>2, MetablockDoneKeeps
  <1>3. CASE FastEnds \/ SafeEnds
    BY <1>3, FastEndsKeeps, SafeEndsKeeps
  <1>4. CASE Switch
    BY <1>4, SwitchCommandBlockKeeps, SwitchLiteralBlockKeeps, SwitchDistanceBlockKeeps
       DEF Switch
  <1>5. CASE Command
    BY <1>5, ReadCommandKeeps, ReadCommandSymbolKeeps DEF Command
  <1>6. CASE EnterLiterals \/ ReadLiteral \/ RingWritten
    BY <1>6, EnterLiteralsKeeps, ReadLiteralKeeps, RingWrittenKeeps
  <1>7. CASE ImplicitDistance
    BY <1>7, ImplicitDistanceKeeps
  <1>8. CASE \E code \in ShortCodes : ReadShortDistance(code)
    BY <1>8, ReadShortDistanceKeeps
  <1>9. CASE \E distance \in Distances : ReadDistance(distance)
    BY <1>9, ReadDistanceKeeps
  <1>10. CASE ReadDistanceSymbol
    BY <1>10, ReadDistanceSymbolKeeps
  <1>11. CASE Finished \/ UNCHANGED vars
    BY <1>11, UnchangedKeeps DEF Finished
  <1>12. QED
    BY <1>1, <1>2, <1>3, <1>4, <1>5, <1>6, <1>7, <1>8, <1>9, <1>10, <1>11 DEF Next
-----------------------------------------------------------------------------
(* Safety *)

\* The inductive invariant of the command loop.
THEOREM InvariantHolds ==
  Spec => []CommandsInvariant
  <1>1. Init => CommandsInvariant
    BY InitHolds
  <1>2. CommandsInvariant /\ [Next]_vars => CommandsInvariant'
    BY NextKeeps
  <1>3. QED
    BY <1>1, <1>2, PTL DEF Spec

\* Block types are those of the metablock, trees those of its maps, and the ring holds
\* four distances that a copy may use.
THEOREM TypesHold ==
  Spec => []TypeOK
  <1>1. CommandsInvariant => TypeOK
    BY DEF CommandsInvariant
  <1>2. QED
    BY <1>1, InvariantHolds, PTL

LEMMA InvariantMeansTrees ==
  CommandsInvariant => TreesAreOfBlocks
  <1> SUFFICES ASSUME CommandsInvariant, Processing
               PROVE  TreesAreOfBlocks
    BY DEF TreesAreOfBlocks
  <1>1. TypeOK /\ Types /\ BlocksInvariant /\ CommandInvariant
    BY DEF CommandsInvariant
  <1>2. metablocks > 0 /\ error_code = Success
    BY <1>1 DEF Processing, ReadStates, BlocksInvariant
  <1>3. /\ hgroups /\ htree_command_index = BlockType("command")
        /\ context_map_slice_index = BlockType("literal") * LiteralContexts
    BY <1>1, <1>2 DEF BlocksInvariant, CommandInvariant
  <1>4. ASSUME state = "inner", literal_htree # Outside, NEW context \in 0 .. LiteralContexts - 1
        PROVE  (IF literal_htree = ByContext THEN context_map[context_map_slice_index + context]
                ELSE literal_htree)
                 = context_map[BlockType("literal") * LiteralContexts + context]
    <2>1. literal_htree = LiteralTree
      BY <1>1, <1>4 DEF BlocksInvariant
    <2>2. CASE trivial_literal_context
      <3>1. literal_htree = context_map[BlockType("literal") * LiteralContexts]
        BY <1>1, <1>2, <1>3, <2>1, <2>2 DEF LiteralTree, BlocksInvariant
      <3>2. Trivial(context_map, BlockType("literal"))
        BY <1>1, <1>2, <2>2 DEF BlocksInvariant
      <3>3. context_map[BlockType("literal") * LiteralContexts + context]
              = context_map[BlockType("literal") * LiteralContexts]
        BY <1>4, <3>2 DEF Trivial
      <3>4. literal_htree # ByContext
        <4>1. literal_htree \in Trees
          BY <1>1, <2>1, <2>2 DEF LiteralTree, TypeOK
        <4>2. QED
          BY <4>1 DEF Trees, ByContext
      <3>5. QED
        BY <3>1, <3>3, <3>4
    <2>3. CASE ~trivial_literal_context
      BY <1>3, <2>1, <2>3 DEF LiteralTree
    <2>4. QED
      BY <2>2, <2>3
  <1>5. ASSUME state = "post_decode_literals", distance_code < 0
        PROVE  dist_htree_index = dist_context_map[BlockType("distance") * DistanceContexts
                                                     + DistanceContext(copy_length)]
    BY <1>1, <1>2, <1>5 DEF CommandInvariant, InCommand, BlocksInvariant
  <1>6. QED
    BY <1>3, <1>4, <1>5 DEF TreesAreOfBlocks

\* Whatever blocks, commands and half-read symbols came before, every symbol is read with
\* the prefix code of its block type and context (decode.rs:2301, 2460).
THEOREM TreesFollowBlocks ==
  Spec => []TreesAreOfBlocks
  BY InvariantMeansTrees, InvariantHolds, PTL

LEMMA InvariantMeansLengths ==
  CommandsInvariant => OneTypeLasts
  <1> SUFFICES ASSUME CommandsInvariant, Processing, remaining >= 0, NEW c \in Categories,
                      NextSymbolIs(c), num_block_types[c] = 1
               PROVE  block_length[c] + (IF c = "literal" THEN 0 ELSE empty_words) > 0
    BY DEF OneTypeLasts
  <1>1. /\ error_code = Success /\ LengthInvariant /\ CommandInvariant
        /\ \A x \in Categories : block_length[x] \in Int
        /\ empty_words \in Nat /\ remaining \in Int /\ loop_counter \in Nat
    BY DEF CommandsInvariant, TypeOK, Types, Processing
  <1>2. block_length[c] \in Int
    BY <1>1
  <1>3. CASE state = "command_begin"
    <2>1. c = "command"
      BY <1>3 DEF NextSymbolIs
    <2>2. block_length["command"] + empty_words + 0 >= remaining /\ remaining > 0
      BY <1>1, <1>3, <2>1 DEF LengthInvariant, InCommand
    <2>3. QED
      BY <1>1, <1>2, <2>1, <2>2
  <1>4. CASE state = "inner"
    <2>1. c = "literal"
      BY <1>4 DEF NextSymbolIs
    <2>2. block_length["literal"] >= remaining + loop_counter /\ loop_counter > 0
      BY <1>1, <1>4, <2>1 DEF LengthInvariant, CommandInvariant, InCommand, Pending
    <2>3. QED
      BY <1>1, <1>2, <2>1, <2>2
  <1>5. CASE state = "post_decode_literals"
    <2>1. c = "distance"
      BY <1>5 DEF NextSymbolIs
    <2>2. block_length["distance"] + empty_words >= remaining /\ remaining > 0
      BY <1>1, <1>5, <2>1 DEF LengthInvariant, InCommand
    <2>3. QED
      BY <1>1, <1>2, <2>1, <2>2
  <1>6. QED
    BY <1>3, <1>4, <1>5 DEF Processing, ReadStates

\* The one block of a category of one type outlasts the metablock, empty words apart
\* (state.rs:422).
THEOREM OneTypeOutlasts ==
  Spec => []OneTypeLasts
  BY InvariantMeansLengths, InvariantHolds, PTL
-----------------------------------------------------------------------------
(* The ring of distances implements the list of recent distances *)

LEMMA RecentStays ==
  ASSUME UNCHANGED <<dist_rb, dist_rb_idx, error_code>>
  PROVE  Recent' = Recent
  BY DEF Recent

\* While the stream is valid, the ring read backwards is the list.
LEMMA RecentIsRing ==
  ASSUME TypeOK, error_code = Success
  PROVE  /\ Recent = [k \in 1 .. 4 |-> dist_rb[(dist_rb_idx - k) % 4]]
         /\ Recent \in Seq(Nat) /\ Len(Recent) = 4 /\ Recent # <<>>
         /\ \A k \in 1 .. 4 : Recent[k] = dist_rb[(dist_rb_idx - k) % 4]
         /\ \A k \in 1 .. 4 : Recent[k] \in 1 .. MaxAllowed
  <1>1. dist_rb \in [0 .. 3 -> 1 .. MaxAllowed] /\ dist_rb_idx \in 0 .. 3 /\ MaxAllowed \in Nat
    BY ConstantsAre DEF TypeOK
  <1>2. Recent = [k \in 1 .. 4 |-> dist_rb[(dist_rb_idx - k) % 4]]
    BY DEF Recent, Errors, Success
  <1>3. \A k \in 1 .. 4 : (dist_rb_idx - k) % 4 \in 0 .. 3
    BY <1>1
  <1>4. \A k \in 1 .. 4 : /\ Recent[k] = dist_rb[(dist_rb_idx - k) % 4]
                          /\ Recent[k] \in 1 .. MaxAllowed
    BY <1>1, <1>2, <1>3
  <1>5. Recent \in [1 .. 4 -> Nat]
    BY <1>1, <1>2, <1>3
  <1>6. Recent \in Seq(Nat) /\ Len(Recent) = 4
    <2>1. Recent = [k \in 1 .. 4 |-> Recent[k]]
      BY <1>5
    <2>2. \A k \in 1 .. 4 : Recent[k] \in Nat
      BY <1>5
    <2>3. [k \in 1 .. 4 |-> Recent[k]] \in Seq(Nat) /\ Len([k \in 1 .. 4 |-> Recent[k]]) = 4
      BY <2>2
    <2>4. QED
      BY <2>1, <2>3
  <1>7. QED
    BY <1>2, <1>4, <1>6

\* The tables of the code and those of the abstract list name the same neighbours.
LEMMA TablesAgree ==
  ASSUME NEW code \in 0 .. 15
  PROVE  /\ Meaning!Which[code + 1] \in 1 .. 4 /\ ValueOffset[code + 1] \in 0 .. 3
         /\ IndexOffset[code + 1] \in 0 .. 3
         /\ code # 0 => IndexOffset[code + 1] = 4 - Meaning!Which[code + 1]
         /\ Meaning!Offset[code + 1] = (IF code % 2 = 1 THEN ValueOffset[code + 1]
                                        ELSE 0 - ValueOffset[code + 1])
         /\ code = 0 => Meaning!Which[code + 1] = 1 /\ Meaning!Offset[code + 1] = 0
  <1>1. /\ Meaning!Which[code + 1] \in 1 .. 4 /\ ValueOffset[code + 1] \in 0 .. 3
        /\ IndexOffset[code + 1] \in 0 .. 3
    BY DEF Meaning!Which, ValueOffset, IndexOffset
  <1>2. code # 0 => IndexOffset[code + 1] = 4 - Meaning!Which[code + 1]
    BY DEF Meaning!Which, IndexOffset
  <1>3. Meaning!Offset[code + 1] = (IF code % 2 = 1 THEN ValueOffset[code + 1]
                                    ELSE 0 - ValueOffset[code + 1])
    BY DEF Meaning!Offset, ValueOffset
  <1>4. code = 0 => Meaning!Which[code + 1] = 1 /\ Meaning!Offset[code + 1] = 0
    BY DEF Meaning!Which, Meaning!Offset
  <1>5. QED
    BY <1>1, <1>2, <1>3, <1>4

\* A short code stands for the same distance in the ring as in the list.
LEMMA ShortDistancesMean ==
  ASSUME TypeOK, error_code = Success
  PROVE  /\ Meaning!Distance(Symbol(0, 0)) = LastDistance
         /\ \A code \in 1 .. 15 : Meaning!Distance(Symbol(code, 0)) = ShortDistance(code)
  <1>1. dist_rb \in [0 .. 3 -> 1 .. MaxAllowed] /\ dist_rb_idx \in 0 .. 3 /\ MaxAllowed \in Nat
    BY ConstantsAre DEF TypeOK
  <1>2. \A k \in 1 .. 4 : Recent[k] = dist_rb[(dist_rb_idx - k) % 4]
    BY RecentIsRing
  <1>3. \A k \in 1 .. 4 : Recent[k] \in 1 .. MaxAllowed
    BY RecentIsRing
  <1>4. ASSUME NEW code \in 0 .. 15, NEW w \in 1 .. 4, NEW o \in Int,
               w = Meaning!Which[code + 1], o = Meaning!Offset[code + 1]
        PROVE  Meaning!Distance(Symbol(code, 0))
                 = (IF Recent[w] + o > 0 THEN Recent[w] + o ELSE HugeDistance)
    <2>1. Symbol(code, 0).code = code /\ code # 16
      BY DEF Symbol
    <2>2. QED
      BY <1>4, <2>1 DEF Meaning!Distance, Meaning!Named
  <1>5. Meaning!Distance(Symbol(0, 0)) = LastDistance
    <2>1. Meaning!Which[0 + 1] = 1 /\ Meaning!Offset[0 + 1] = 0
      BY TablesAgree
    <2>2. PICK d \in 1 .. MaxAllowed : d = Recent[1]
      BY <1>3
    <2>3. Meaning!Distance(Symbol(0, 0)) = (IF d + 0 > 0 THEN d + 0 ELSE HugeDistance)
      BY <1>4, <2>1, <2>2
    <2>4. Meaning!Distance(Symbol(0, 0)) = d
      BY <1>1, <2>3
    <2>5. QED
      BY <1>2, <2>2, <2>4 DEF LastDistance
  <1>6. ASSUME NEW code \in 1 .. 15
        PROVE  Meaning!Distance(Symbol(code, 0)) = ShortDistance(code)
    <2>1. PICK w \in 1 .. 4, v \in 0 .. 3 :
            /\ w = Meaning!Which[code + 1] /\ v = ValueOffset[code + 1]
            /\ IndexOffset[code + 1] = 4 - w
            /\ Meaning!Offset[code + 1] = (IF code % 2 = 1 THEN v ELSE 0 - v)
      <3>1. code \in 0 .. 15 /\ code # 0
        OBVIOUS
      <3>2. QED
        BY <3>1, TablesAgree
    <2>2. (dist_rb_idx + (4 - w)) % 4 = (dist_rb_idx - w) % 4
      BY <1>1
    <2>3. PICK d \in 1 .. MaxAllowed : d = Recent[w] /\ d = dist_rb[(dist_rb_idx - w) % 4]
      BY <1>2, <1>3
    <2>4. ShortDistance(code) = CASE code % 2 = 1 -> d + v
                                  [] code % 2 = 0 /\ d > v -> d - v
                                  [] OTHER -> HugeDistance
      BY <2>1, <2>2, <2>3 DEF ShortDistance
    <2>5. PICK o \in Int : o = (IF code % 2 = 1 THEN v ELSE 0 - v)
      OBVIOUS
    <2>6. Meaning!Distance(Symbol(code, 0)) = (IF d + o > 0 THEN d + o ELSE HugeDistance)
      <3>1. code \in 0 .. 15 /\ o = Meaning!Offset[code + 1]
        BY <2>1, <2>5
      <3>2. QED
        BY <1>4, <2>1, <2>3, <3>1
    <2>7. code % 2 \in {0, 1} /\ d \in Nat /\ d > 0
      BY <1>1
    <2>8. CASE code % 2 = 1
      BY <2>4, <2>5, <2>6, <2>7, <2>8
    <2>9. CASE code % 2 = 0
      BY <2>4, <2>5, <2>6, <2>7, <2>9
    <2>10. QED
      BY <2>7, <2>8, <2>9
  <1>7. QED
    BY <1>5, <1>6

LEMMA SequenceShifts ==
  ASSUME NEW s \in Seq(Nat), Len(s) = 4, NEW t \in Seq(Nat), Len(t) = 4, NEW d \in Nat,
         t[1] = d, \A k \in 2 .. 4 : t[k] = s[k - 1]
  PROVE  t = <<d>> \o SubSeq(s, 1, 3)
  <1>1. SubSeq(s, 1, 3) \in Seq(Nat) /\ Len(SubSeq(s, 1, 3)) = 3
    <2>1. ASSUME NEW i \in 1 .. 3
          PROVE  s[i] \in Nat
      <3>1. i \in 1 .. Len(s)
        OBVIOUS
      <3>2. QED
        BY <3>1, ElementOfSeq
    <2>2. /\ SubSeq(s, 1, 3) \in Seq(Nat)
          /\ Len(SubSeq(s, 1, 3)) = IF 1 <= 3 THEN 3 - 1 + 1 ELSE 0
      BY <2>1, SubSeqProperties
    <2>3. QED
      BY <2>2
  <1>2. \A k \in 1 .. 3 : SubSeq(s, 1, 3)[k] = s[k]
    OBVIOUS
  <1>3. <<d>> \o SubSeq(s, 1, 3) \in Seq(Nat) /\ Len(<<d>> \o SubSeq(s, 1, 3)) = 4
    BY <1>1
  <1>4. ASSUME NEW k \in 1 .. 4
        PROVE  t[k] = (<<d>> \o SubSeq(s, 1, 3))[k]
    <2>1. CASE k = 1
      BY <1>1, <2>1
    <2>2. CASE k \in 2 .. 4
      <3>1. (<<d>> \o SubSeq(s, 1, 3))[k] = SubSeq(s, 1, 3)[k - 1]
        BY <1>1, <2>2
      <3>2. k - 1 \in 1 .. 3
        BY <2>2
      <3>3. QED
        BY <1>2, <2>2, <3>1, <3>2
    <2>3. QED
      BY <2>1, <2>2
  <1>5. QED
    BY <1>3, <1>4

\* A reference is one that the list of recent distances allows, wherever its index is.
LEMMA ReferenceRefers ==
  ASSUME CommandsInvariant, Processing, state = "post_decode_literals",
         NEW symbol \in Symbols, NEW distance \in 1 .. HugeDistance, NEW index \in 0 .. 3,
         Reference(symbol, distance, index), distance = Meaning!Distance(symbol),
         symbol.code \in Nat,
         symbol.code = 0 => distance = LastDistance,
         index = (IF symbol.code = 0 THEN (dist_rb_idx - 1) % 4 ELSE dist_rb_idx),
         distance_context' = (IF symbol.code = 0 THEN 1 ELSE 0)
  PROVE  Meaning!Refer(symbol)
  <1>1. TypeOK /\ CommandInvariant /\ error_code = Success
    BY DEF CommandsInvariant, Processing
  <1>2. /\ dist_rb \in [0 .. 3 -> 1 .. MaxAllowed] /\ dist_rb_idx \in 0 .. 3 /\ pos \in Nat
        /\ MaxAllowed \in Nat /\ MaxBackward \in Nat
    BY <1>1, ConstantsAre DEF TypeOK
  <1>3. /\ Recent \in Seq(Nat) /\ Len(Recent) = 4 /\ Recent # <<>>
        /\ Recent = [k \in 1 .. 4 |-> dist_rb[(dist_rb_idx - k) % 4]]
        /\ \A k \in 1 .. 4 : Recent[k] = dist_rb[(dist_rb_idx - k) % 4]
    BY <1>1, RecentIsRing
  <1>4. Meaning!Reach = NewMaxDistance /\ NewMaxDistance \in Nat
    BY <1>2, ReachIs DEF Meaning!Reach
  <1>5. reference' = [symbol |-> symbol, distance |-> Meaning!Distance(symbol)]
    BY DEF Reference
  <1>6. distance \in Nat /\ distance > 0
    BY <1>2 DEF HugeDistance
  <1>7. CASE /\ distance > NewMaxDistance
             /\ \/ FailReference("ERROR_FORMAT_DISTANCE")
                \/ FailReference("ERROR_FORMAT_DICTIONARY")
                \/ FailReference("ERROR_FORMAT_TRANSFORM")
    <2>1. error_code' \in Errors \ {"ERROR_FORMAT_BLOCK_LENGTH_1"} /\ UNCHANGED pos
      BY <1>7 DEF FailReference, Errors
    <2>2. Recent' = <<>>
      BY <2>1 DEF Recent
    <2>3. QED
      BY <1>3, <1>4, <1>5, <1>7, <2>1, <2>2 DEF Meaning!Refer
  <1>8. CASE /\ distance > NewMaxDistance /\ dist_rb_idx' = (index + distance_context') % 4
             /\ UNCHANGED dist_rb /\ \E bytes \in WordBytes : FinishCommand(bytes)
    <2>1. (index + distance_context') % 4 = dist_rb_idx
      <3>1. CASE symbol.code = 0
        <4>1. (((dist_rb_idx - 1) % 4) + 1) % 4 = dist_rb_idx
          BY <1>2
        <4>2. QED
          BY <3>1, <4>1
      <3>2. CASE symbol.code # 0
        <4>1. (dist_rb_idx + 0) % 4 = dist_rb_idx
          BY <1>2
        <4>2. QED
          BY <3>2, <4>1
      <3>3. QED
        BY <3>1, <3>2
    <2>2. error_code' = error_code /\ dist_rb' = dist_rb /\ dist_rb_idx' = dist_rb_idx
      BY <1>8, <2>1 DEF FinishCommand, outcome
    <2>3. Recent' = Recent
      BY <2>2, RecentStays
    <2>4. PICK bytes \in Nat : pos' = pos + bytes
      BY <1>8, ConstantsAre DEF FinishCommand
    <2>5. pos' >= pos
      BY <1>2, <2>4
    <2>6. QED
      BY <1>3, <1>4, <1>5, <1>8, <2>3, <2>5 DEF Meaning!Refer
  <1>9. CASE /\ distance <= NewMaxDistance
             /\ dist_rb' = [dist_rb EXCEPT ![index] = distance]
             /\ dist_rb_idx' = (index + 1) % 4
             /\ FinishCommand(copy_length)
    <2>1. copy_length \in Nat /\ copy_length > 0
      <3>1. copy_length \in CopyLengths
        BY <1>1 DEF CommandInvariant, InCommand
      <3>2. QED
        BY <3>1, ConstantsAre
    <2>2. pos' > pos
      <3>1. pos' = pos + copy_length
        BY <1>9 DEF FinishCommand
      <3>2. QED
        BY <1>2, <2>1, <3>1
    <2>3. error_code' = Success
      BY <1>1, <1>9 DEF FinishCommand, outcome
    <2>4. Recent' = [k \in 1 .. 4 |-> dist_rb'[(dist_rb_idx' - k) % 4]]
      BY <2>3 DEF Recent, Errors, Success
    <2>5. CASE symbol.code = 0
      <3>1. (((dist_rb_idx - 1) % 4) + 1) % 4 = dist_rb_idx /\ (dist_rb_idx - 1) % 4 \in 0 .. 3
        BY <1>2
      <3>2. dist_rb' = dist_rb
        BY <1>2, <1>9, <2>5, <3>1 DEF LastDistance
      <3>3. dist_rb_idx' = dist_rb_idx
        BY <1>9, <2>5, <3>1
      <3>4. Recent' = Recent
        BY <1>3, <2>4, <3>2, <3>3
      <3>5. QED
        BY <1>3, <1>4, <1>5, <1>6, <1>9, <2>2, <2>5, <3>4 DEF Meaning!Refer
    <2>6. CASE symbol.code # 0
      <3>1. index = dist_rb_idx
        BY <2>6
      <3>2. PICK next \in 0 .. 3 : next = (dist_rb_idx + 1) % 4
        BY <1>2
      <3>3. /\ (next - 1) % 4 = dist_rb_idx
            /\ \A k \in 2 .. 4 : /\ (next - k) % 4 = (dist_rb_idx - (k - 1)) % 4
                                 /\ (next - k) % 4 \in 0 .. 3 /\ (next - k) % 4 # dist_rb_idx
        BY <1>2, <3>2
      <3>4. Recent' = [k \in 1 .. 4 |-> [dist_rb EXCEPT ![dist_rb_idx] = distance][(next - k) % 4]]
        BY <1>9, <2>4, <3>1, <3>2
      <3>5. /\ Recent'[1] = distance
            /\ \A k \in 2 .. 4 : Recent'[k] = Recent[k - 1]
        <4>1. Recent'[1] = distance
          BY <1>2, <3>3, <3>4
        <4>2. ASSUME NEW k \in 2 .. 4
              PROVE  Recent'[k] = Recent[k - 1]
          <5>1. Recent'[k] = dist_rb[(next - k) % 4]
            BY <1>2, <3>3, <3>4
          <5>2. k - 1 \in 1 .. 4
            OBVIOUS
          <5>3. QED
            BY <1>3, <3>3, <5>1, <5>2
        <4>3. QED
          BY <4>1, <4>2
      <3>6. Recent' \in Seq(Nat) /\ Len(Recent') = 4
        <4>1. \A k \in 1 .. 3 : Recent[k] \in Nat
          BY <1>3, ElementOfSeq
        <4>2. ASSUME NEW k \in 1 .. 4
              PROVE  Recent'[k] \in Nat
          <5>1. CASE k = 1
            BY <1>6, <3>5, <5>1
          <5>2. CASE k # 1
            <6>1. k \in 2 .. 4 /\ k - 1 \in 1 .. 3
              BY <5>2
            <6>2. QED
              BY <3>5, <4>1, <6>1
          <5>3. QED
            BY <5>1, <5>2
        <4>3. Recent' = [k \in 1 .. 4 |-> Recent'[k]]
          BY <3>4
        <4>4. [k \in 1 .. 4 |-> Recent'[k]] \in Seq(Nat) /\ Len([k \in 1 .. 4 |-> Recent'[k]]) = 4
          BY <4>2
        <4>5. QED
          BY <4>3, <4>4
      <3>7. Recent' = <<distance>> \o SubSeq(Recent, 1, 3)
        BY <1>3, <1>6, <3>5, <3>6, SequenceShifts
      <3>8. ~(distance > NewMaxDistance)
        BY <1>4, <1>6, <1>9
      <3>9. QED
        BY <1>3, <1>4, <1>5, <2>2, <2>6, <3>7, <3>8 DEF Meaning!Refer
    <2>7. QED
      BY <2>5, <2>6
  <1>10. QED
    BY <1>7, <1>8, <1>9 DEF Reference, WordReference

LEMMA ImplicitDistanceRefers ==
  ASSUME CommandsInvariant, ImplicitDistance
  PROVE  Meaning!Next
  <1>1. TypeOK /\ CommandInvariant /\ error_code = Success /\ Processing
    BY DEF CommandsInvariant, ImplicitDistance, Processing
  <1>2. distance_code = 0
    <2>1. distance_code \in {-1, 0}
      BY <1>1 DEF ImplicitDistance, CommandInvariant, InCommand
    <2>2. distance_code >= 0
      BY DEF ImplicitDistance
    <2>3. QED
      BY <2>1, <2>2
  <1>3. /\ state = "post_decode_literals" /\ distance_context' = 1
        /\ Reference(Symbol(0, 0), LastDistance, (dist_rb_idx - 1) % 4)
    BY <1>2 DEF ImplicitDistance
  <1>4. Symbol(0, 0) \in Symbols /\ Symbol(0, 0).code = 0
    BY DEF Symbols, Symbol
  <1>5. LastDistance \in 1 .. HugeDistance /\ (dist_rb_idx - 1) % 4 \in 0 .. 3
    BY <1>1, DistancesAre, ConstantsAre DEF HugeDistance
  <1>6. LastDistance = Meaning!Distance(Symbol(0, 0))
    BY <1>1, ShortDistancesMean
  <1>7. Meaning!Refer(Symbol(0, 0))
    BY <1>1, <1>3, <1>4, <1>5, <1>6, ReferenceRefers
  <1>8. QED
    BY <1>4, <1>7 DEF Meaning!Next

LEMMA ReadShortDistanceRefers ==
  ASSUME CommandsInvariant, NEW code \in ShortCodes, ReadShortDistance(code)
  PROVE  Meaning!Next
  <1>1. TypeOK /\ error_code = Success /\ Processing /\ state = "post_decode_literals"
    BY DEF CommandsInvariant, ReadShortDistance, Processing
  <1>2. /\ LastDistance \in 1 .. HugeDistance /\ (dist_rb_idx - 1) % 4 \in 0 .. 3
        /\ dist_rb_idx \in 0 .. 3
    BY <1>1, DistancesAre, ConstantsAre DEF HugeDistance, TypeOK
  <1>3. Symbol(code, 0) \in Symbols /\ Symbol(code, 0).code = code /\ code \in 0 .. 15
    BY ConstantsAre DEF Symbols, Symbol
  <1>4. CASE code = 0
    <2>1. /\ Reference(Symbol(0, 0), LastDistance, (dist_rb_idx - 1) % 4)
          /\ distance_context' = 1
      BY <1>4 DEF ReadShortDistance
    <2>2. LastDistance = Meaning!Distance(Symbol(0, 0))
      BY <1>1, ShortDistancesMean
    <2>3. Symbol(0, 0) \in Symbols /\ Symbol(0, 0).code = 0
      BY <1>3, <1>4
    <2>4. Meaning!Refer(Symbol(0, 0))
      BY <1>1, <1>2, <2>1, <2>2, <2>3, ReferenceRefers
    <2>5. QED
      BY <2>3, <2>4 DEF Meaning!Next
  <1>5. CASE code # 0
    <2>1. code \in 1 .. 15
      BY <1>3, <1>5
    <2>2. /\ Reference(Symbol(code, 0), ShortDistance(code), dist_rb_idx)
          /\ distance_context' = 0
      BY <1>5 DEF ReadShortDistance
    <2>3. ShortDistance(code) = Meaning!Distance(Symbol(code, 0))
      BY <1>1, <2>1, ShortDistancesMean
    <2>4. ShortDistance(code) \in 1 .. HugeDistance
      BY <1>1, <2>1, DistancesAre
    <2>5. Meaning!Refer(Symbol(code, 0))
      BY <1>1, <1>2, <1>3, <1>5, <2>2, <2>3, <2>4, ReferenceRefers
    <2>6. QED
      BY <1>3, <2>5 DEF Meaning!Next
  <1>6. QED
    BY <1>4, <1>5

LEMMA ReadDistanceRefers ==
  ASSUME CommandsInvariant, NEW distance \in Distances, ReadDistance(distance)
  PROVE  Meaning!Next
  <1>1. TypeOK /\ error_code = Success /\ Processing /\ state = "post_decode_literals"
    BY DEF CommandsInvariant, ReadDistance, Processing
  <1>2. distance \in 1 .. HugeDistance /\ dist_rb_idx \in 0 .. 3
    BY <1>1, ConstantsAre DEF HugeDistance, TypeOK
  <1>3. /\ Symbol(16, distance) \in Symbols /\ Symbol(16, distance).code = 16
        /\ Symbol(16, distance).distance = distance
    BY DEF Symbols, Symbol
  <1>4. distance = Meaning!Distance(Symbol(16, distance))
    BY <1>3 DEF Meaning!Distance, Meaning!Named
  <1>5. Reference(Symbol(16, distance), distance, dist_rb_idx) /\ distance_context' = 0
    BY DEF ReadDistance
  <1>6. Meaning!Refer(Symbol(16, distance))
    BY <1>1, <1>2, <1>3, <1>4, <1>5, ReferenceRefers
  <1>7. QED
    BY <1>3, <1>6 DEF Meaning!Next

LEMMA ReadLiteralMeans ==
  ASSUME CommandsInvariant, ReadLiteral
  PROVE  Meaning!Next
  <1>1. pos \in Nat
    BY DEF CommandsInvariant, TypeOK
  <1>2. pos' = pos + 1 /\ UNCHANGED <<dist_rb, dist_rb_idx, error_code, reference>>
    BY DEF ReadLiteral, ring, outcome
  <1>3. pos' > pos
    BY <1>1, <1>2
  <1>4. Recent' = Recent
    BY <1>2, RecentStays
  <1>5. QED
    BY <1>2, <1>3, <1>4 DEF Meaning!Next, Meaning!Literals

\* The other steps change none of what a distance means; an error of RingWritten keeps
\* the list, and no step follows it.
LEMMA OthersStutter ==
  ASSUME CommandsInvariant,
         \/ Begin \/ MetablockDone \/ FastEnds \/ SafeEnds \/ Switch \/ Command
         \/ EnterLiterals \/ RingWritten \/ ReadDistanceSymbol \/ Finished
         \/ UNCHANGED vars
  PROVE  UNCHANGED <<Recent, pos, reference>>
  <1>1. UNCHANGED <<dist_rb, dist_rb_idx, pos, reference>>
    <2>1. CASE Begin
      BY <2>1 DEF Begin, BeginMetablock
    <2>2. CASE Switch
      BY <2>2 DEF Switch, SwitchCommandBlock, SwitchLiteralBlock, SwitchDistanceBlock, ring,
                  progress
    <2>3. CASE Command
      BY <2>3 DEF Command, ReadCommand, ReadCommandSymbol, ring
    <2>4. CASE MetablockDone \/ FastEnds \/ SafeEnds \/ EnterLiterals
      BY <2>4 DEF MetablockDone, FastEnds, SafeEnds, EnterLiterals, ring, progress
    <2>5. CASE RingWritten
      BY <2>5 DEF RingWritten, progress
    <2>6. CASE ReadDistanceSymbol \/ Finished \/ UNCHANGED vars
      BY <2>6 DEF ReadDistanceSymbol, Finished, vars, ring, progress
    <2>7. QED
      BY <2>1, <2>2, <2>3, <2>4, <2>5, <2>6
  <1>2. \/ UNCHANGED error_code
        \/ error_code = Success /\ error_code' = "ERROR_FORMAT_BLOCK_LENGTH_1"
    <2>1. CASE Begin
      BY <2>1 DEF Begin, BeginMetablock
    <2>2. CASE Switch
      BY <2>2 DEF Switch, SwitchCommandBlock, SwitchLiteralBlock, SwitchDistanceBlock, outcome
    <2>3. CASE Command
      BY <2>3 DEF Command, ReadCommand, ReadCommandSymbol, outcome
    <2>4. CASE MetablockDone \/ FastEnds \/ SafeEnds \/ EnterLiterals
      BY <2>4 DEF MetablockDone, FastEnds, SafeEnds, EnterLiterals, outcome
    <2>5. CASE RingWritten
      BY <2>5 DEF RingWritten
    <2>6. CASE ReadDistanceSymbol \/ Finished \/ UNCHANGED vars
      BY <2>6 DEF ReadDistanceSymbol, Finished, vars, outcome
    <2>7. QED
      BY <2>1, <2>2, <2>3, <2>4, <2>5, <2>6
  <1>3. CASE UNCHANGED error_code
    BY <1>1, <1>3, RecentStays
  <1>4. CASE error_code = Success /\ error_code' = "ERROR_FORMAT_BLOCK_LENGTH_1"
    <2>1. /\ error_code \notin Errors \ {"ERROR_FORMAT_BLOCK_LENGTH_1"}
          /\ error_code' \notin Errors \ {"ERROR_FORMAT_BLOCK_LENGTH_1"}
      BY <1>4 DEF Errors, Success
    <2>2. Recent' = Recent
      BY <1>1, <2>1 DEF Recent
    <2>3. QED
      BY <1>1, <2>2
  <1>5. QED
    BY <1>2, <1>3, <1>4

LEMMA StepMeans ==
  CommandsInvariant /\ [Next]_vars => [Meaning!Next]_<<Recent, pos, reference>>
  <1> SUFFICES ASSUME CommandsInvariant, [Next]_vars
               PROVE  [Meaning!Next]_<<Recent, pos, reference>>
    OBVIOUS
  <1>1. CASE ReadLiteral
    BY <1>1, ReadLiteralMeans
  <1>2. CASE ImplicitDistance
    BY <1>2, ImplicitDistanceRefers
  <1>3. CASE \E code \in ShortCodes : ReadShortDistance(code)
    BY <1>3, ReadShortDistanceRefers
  <1>4. CASE \E distance \in Distances : ReadDistance(distance)
    BY <1>4, ReadDistanceRefers
  <1>5. CASE \/ Begin \/ MetablockDone \/ FastEnds \/ SafeEnds \/ Switch \/ Command
             \/ EnterLiterals \/ RingWritten \/ ReadDistanceSymbol \/ Finished
             \/ UNCHANGED vars
    BY <1>5, OthersStutter
  <1>6. QED
    BY <1>1, <1>2, <1>3, <1>4, <1>5 DEF Next

LEMMA StartMeans ==
  Init => Meaning!Init
  <1> SUFFICES ASSUME Init
               PROVE  Meaning!Init
    OBVIOUS
  <1>1. Recent = [k \in 1 .. 4 |-> dist_rb[(0 - k) % 4]]
    BY DEF Init, Recent, Errors, Success
  <1>2. \A k \in 0 .. 3 : dist_rb[k] = <<16, 15, 11, 4>>[k + 1]
    BY DEF Init
  <1>3. dist_rb[0] = 16 /\ dist_rb[1] = 15 /\ dist_rb[2] = 11 /\ dist_rb[3] = 4
    BY <1>2
  <1>4. \A k \in 1 .. 4 : (0 - k) % 4 = 4 - k
    OBVIOUS
  <1>5. Recent[1] = 4 /\ Recent[2] = 11 /\ Recent[3] = 15 /\ Recent[4] = 16
    <2>1. \A k \in 1 .. 4 : Recent[k] = dist_rb[4 - k]
      BY <1>1, <1>4
    <2>2. QED
      BY <1>3, <2>1
  <1>6. Recent = <<4, 11, 15, 16>>
    BY <1>1, <1>5
  <1>7. pos = 0 /\ reference = Meaning!NoReference
    BY DEF Init, Meaning!NoReference, Meaning!Named
  <1>8. QED
    BY <1>6, <1>7 DEF Meaning!Init

\* Every distance that the decoder reads is the one that its symbol stands for in the list
\* of recent distances: the ring with an index that goes back and forth implements it
\* (decode.rs:2009, 2057).
THEOREM RingMeansDistances ==
  Spec => DistancesSpec
  <1>1. Init => Meaning!Init
    BY StartMeans
  <1>2. CommandsInvariant /\ [Next]_vars => [Meaning!Next]_<<Recent, pos, reference>>
    BY StepMeans
  <1>3. QED
    BY <1>1, <1>2, InvariantHolds, PTL DEF Spec, DistancesSpec, Meaning!Spec
=============================================================================
