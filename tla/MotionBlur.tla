---------------------------- MODULE MotionBlur ----------------------------
(***************************************************************************)
(* The motion blur of a render: every frame file is replaced in place by a *)
(* weighted average of its neighbours, which come from a cache of decoded  *)
(* frames that holds no more than the window of one average.               *)
(*                                                                         *)
(* An image is kept as what it was made from: the numbers of the original  *)
(* frames that went into it.  One image is blended per step; the cache is  *)
(* only touched there.                                                     *)
(***************************************************************************)
EXTENDS Integers, FiniteSets

CONSTANTS
    MaxImages,  \* bound: images of a render
    Blends      \* blend_count

ASSUME MotionBlurAssumption ==
    MaxImages \in Nat /\ Blends \subseteq Nat \ {0, 1}

VARIABLES
    render,    \* the render: how many images, blend_count, unreadable images
    onDisk,    \* the image files
    decoded,   \* cache
    next,      \* the loop's index
    blended,   \* what went into the last average
    aborted    \* cancel_check raised

blurVars == <<render, onDisk, decoded, next, blended, aborted>>

Images == 0 .. MaxImages - 1
Used == 0 .. render.n - 1

BlurInit ==
    /\ render = [n |-> 0, blend |-> 0, broken |-> {}]
    /\ onDisk = [i \in Images |-> {i}]
    /\ decoded = [i \in {} |-> {}]
    /\ next = 0
    /\ blended = {}
    /\ aborted = FALSE

-----------------------------------------------------------------------------
(* apply_motion_blur *)

\* A render with at least two images, some of which cannot be decoded
BlurStarts ==
    /\ render.n = 0
    /\ render' \in [n : 2 .. MaxImages, blend : Blends, broken : SUBSET Images]
    /\ UNCHANGED <<onDisk, decoded, next, blended, aborted>>

Half == render.blend \div 2

\* The window of image i, cut off at both ends of the sequence.
Window(i) == {j \in Used : i - Half <= j /\ j <= i + Half}

\* Mutant: the cache is cut back to the image that was blended last.
Kept_OnlyNeighbour(i) == {j \in DOMAIN decoded : j >= i}

\* The images that no later window reaches are dropped.
Kept(i) == {j \in DOMAIN decoded : j >= i - Half}

\* The rest of the window is read from disk.
Decoded(i) ==
    [j \in Kept(i) \cup Window(i) |->
        IF j \in Kept(i) THEN decoded[j] ELSE onDisk[j]]

\* imread gives None for an image that cannot be decoded: it has no part in an
\* average and is not replaced.
Blend ==
    /\ ~aborted /\ next < render.n
    /\ LET cache == Decoded(next)
           parts == {cache[j] : j \in Window(next) \ render.broken}
       IN  /\ decoded' = cache
           /\ IF next \in render.broken THEN UNCHANGED <<onDisk, blended>>
              ELSE /\ blended' = parts
                   /\ onDisk' = [onDisk EXCEPT ![next] = UNION parts]
    /\ next' = next + 1
    /\ UNCHANGED <<render, aborted>>

\* cancel_check is asked at every tenth image.
BlurCancelled ==
    /\ ~aborted /\ next < render.n /\ next % 10 = 0
    /\ aborted' = TRUE
    /\ UNCHANGED <<render, onDisk, decoded, next, blended>>

BlurNext == BlurStarts \/ Blend \/ BlurCancelled

BlurSpec == BlurInit /\ [][BlurNext]_blurVars

-----------------------------------------------------------------------------
(* Properties *)

\* Every variable keeps to its type.
BlurTypeOK ==
    /\ render \in [n : 0 .. MaxImages, blend : Blends \cup {0},
                   broken : SUBSET Images]
    /\ onDisk \in [Images -> SUBSET Images]
    /\ DOMAIN decoded \subseteq Images
    /\ \A i \in DOMAIN decoded : decoded[i] \subseteq Images
    /\ next \in 0 .. MaxImages
    /\ blended \subseteq SUBSET Images
    /\ aborted \in BOOLEAN

\* Although the files are replaced under it, every average is made of original
\* images only, of all the readable ones in its window, with a cache that never
\* outgrows a window ("neighbours must be served from this cache (their on-disk
\* copy is already blended), never re-read from disk", timelapse.py:266-267).
BlurReadsOriginals ==
    /\ next > 0 /\ next - 1 \notin render.broken
           => blended = {{j} : j \in Window(next - 1) \ render.broken}
    /\ Cardinality(DOMAIN decoded) <= 2 * Half + 1
=============================================================================
