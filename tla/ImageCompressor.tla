--------------------------- MODULE ImageCompressor ---------------------------
(***************************************************************************)
(* What conversion-worker makes of an input: the decisions of              *)
(* pipeline/image-compressor.service.ts, as operators on what the          *)
(* decisions look at.  The encoders are sharp's: of a stream of bytes only *)
(* its size, whether it shows the input's pixels exactly, whether it is    *)
(* free of metadata and whether it is the input itself are kept, and what  *)
(* each encoder would return for an image is part of the image.            *)
(*                                                                         *)
(* Not all bytes that walks over chunks, segments and boxes visit are      *)
(* data: an image says whether its container can be walked (sound) and     *)
(* whether the walk meets anything but picture data (hidden).              *)
(***************************************************************************)
EXTENDS Integers

CONSTANTS MaxInputBytes, MaxPixels   \* WORKER_MAX_INPUT_BYTES, WORKER_MAX_PIXELS

IMAGE_FORMATS == {"jpeg", "png", "webp", "avif"}
Modes == {"LOSSLESS", "LOSSY"}

(* What an image is here: its container, its walk, and what each encoder   *)
(* would return for it.  One that was stripped before, as a result of mode *)
(* LOSSLESS is, carries nothing but the block with its orientation, as     *)
(* exifOrientationBlock writes it: stripping it again gives the same bytes. *)
Image ==
    {i \in [format : STRING, size : Nat \ {0}, pages : Nat, pixels : Nat,
            turned : BOOLEAN, tagged : BOOLEAN, hidden : BOOLEAN, stripped : BOOLEAN,
            sound : BOOLEAN, features : BOOLEAN, isPalette : BOOLEAN, fewColours : BOOLEAN,
            indexed : {"larger", "same", "different"},
            lossySize : Nat \ {0}, strippedSize : Nat \ {0}] :
       i.stripped => /\ i.turned /\ i.sound
                     /\ i.format = "jpeg" \/ (i.format = "webp" /\ i.features)}

Failed(code) == [ok |-> FALSE, failureCode |-> code]

Stream(size, exact) == [size |-> size, exact |-> exact, clean |-> TRUE, own |-> FALSE]

(* carriesMetadata: an orientation, EXIF, IPTC or XMP, or anything else    *)
(* carriesOnlyAllowedTypes does not allow.                                 *)
CarriesMetadata(image) == image.turned \/ image.tagged \/ image.hidden

(* The block with the orientation counts as clean: every stripped copy of  *)
(* a turned image has it.                                                  *)
Input(image) ==
    [size |-> image.size, exact |-> TRUE, clean |-> image.stripped \/ ~CarriesMetadata(image),
     own |-> TRUE]

-----------------------------------------------------------------------------
(* sharp's lossy encoder, which drops metadata and turns the pixels.       *)
EncodedLossy(image) == Stream(image.lossySize, FALSE)

BuysAnything(image, s) == s.size < image.size

\* LOSSY_MIN_SAVING is a tenth
BuysEnough(image, s) == 10 * s.size <= 9 * image.size

(* repackPalette: an indexed copy, if it is smaller and shows the same.    *)
RepackPalette(image, s) ==
    IF image.indexed = "same" THEN [s EXCEPT !.size = @ - 1] ELSE s

(* encodeLossless: a JPEG's or WebP's segments are copied but for metadata, *)
(* the orientation kept in a block of its own; a WebP that cannot be        *)
(* walked, or has no header to flag that block in, is left alone, and so is *)
(* every AVIF; a PNG is deflated again.                                     *)
Rewritten(image) ==
    IF CarriesMetadata(image) /\ ~image.stripped
    THEN Stream(image.strippedSize, TRUE) ELSE Input(image)

StripWebpMetadata(image) ==
    IF ~image.sound \/ (image.turned /\ ~image.features) THEN Input(image) ELSE Rewritten(image)

EncodeLossless(image) ==
    CASE image.format = "jpeg" -> Rewritten(image)
      [] image.format = "webp" -> StripWebpMetadata(image)
      [] image.format = "avif" -> Input(image)
      [] image.format = "png"  ->
           LET deflated == Stream(image.strippedSize, TRUE)
           IN IF image.fewColours THEN RepackPalette(image, deflated) ELSE deflated

(* encodeLossy                                                             *)
EncodeLossy(image) ==
    LET lossy == EncodedLossy(image)
        quantized == RepackPalette(image, lossy)
        lossless == EncodeLossless(image)
    IN CASE image.format = "jpeg" ->
              IF BuysEnough(image, lossy) THEN lossy ELSE lossless
         [] image.format = "png" ->
              IF /\ ~image.isPalette
                 /\ quantized.size < lossless.size /\ BuysEnough(image, quantized)
              THEN quantized ELSE lossless
         [] OTHER ->
              IF BuysEnough(image, lossy)
              THEN IF lossless.size <= lossy.size THEN lossless ELSE lossy
              ELSE IF ~lossless.own THEN lossless
              ELSE IF CarriesMetadata(image) THEN lossy ELSE lossless

Encode(image, mode) == IF mode = "LOSSY" THEN EncodeLossy(image) ELSE EncodeLossless(image)

(* compress, after its refusals: which stream is the result.               *)
KindBySize(image, s) == IF s.size < image.size THEN "SAVED" ELSE "NO_SAVINGS"

Kind(image, s) ==
    IF s.size < image.size THEN "SAVED"
    ELSE IF s.own \/ ~CarriesMetadata(image) THEN "NO_SAVINGS"
    ELSE "SANITIZED_LARGER"

Result(image, s) ==
    LET kind == Kind(image, s)
    IN [ok |-> TRUE, kind |-> kind, data |-> IF kind = "NO_SAVINGS" THEN Input(image) ELSE s]

(* A JPEG whose segments cannot be walked is refused wherever it is        *)
(* rewritten or looked through.                                            *)
Walked(image, mode) ==
    image.format = "jpeg" => image.sound \/ (mode = "LOSSY" /\ BuysEnough(image, EncodedLossy(image)))

Compress(image, mode) ==
    IF image.size > MaxInputBytes THEN Failed("INPUT_TOO_LARGE")
    ELSE IF image.format = "undecodable" THEN Failed("DECODE_FAILED")
    ELSE IF image.format \notin IMAGE_FORMATS THEN Failed("UNSUPPORTED_FORMAT")
    ELSE IF image.pages > 1 THEN Failed("ANIMATED_UNSUPPORTED")
    ELSE IF image.pixels > MaxPixels THEN Failed("PIXELS_EXCEEDED")
    ELSE IF ~Walked(image, mode) THEN Failed("DECODE_FAILED")
    ELSE Result(image, Encode(image, mode))
==============================================================================
