---------------------------- MODULE MCMediaGrow ----------------------------
(***************************************************************************)
(* Small instances of MediaGrow: a 300-block release image with DATA at    *)
(* block 100, and copies of it damaged in each way the code looks for.     *)
(* The exFAT volume is two boot regions of twelve blocks, then the FAT,    *)
(* which fills the space up to the cluster heap as the release builder     *)
(* lays it out.                                                            *)
(***************************************************************************)
EXTENDS MediaGrow

Part(name, start, end) == [name |-> name, start |-> start, end |-> end]

\* With 512-byte blocks the entry arrays take 32 blocks: 266 is the last
\* usable block of the image.
ReleaseImage ==
  [blocks |-> 300, volume |-> 167,
   entries |-> <<Part("EFI", 40, 99), Part("DATA", 100, 266)>>]

WithEntries(entries) == [ReleaseImage EXCEPT !.entries = entries]

\* DATA followed by another partition; no EFI; no DATA; two DATA entries, of
\* which the last one counts; DATA first in the array.
MCImages ==
  {ReleaseImage,
   WithEntries(<<Part("EFI", 40, 49), Part("DATA", 50, 239), Part("OTHER", 240, 266)>>),
   WithEntries(<<Part("OTHER", 40, 99), Part("DATA", 100, 266)>>),
   WithEntries(<<Part("EFI", 40, 99), Part("OTHER", 100, 266)>>),
   WithEntries(<<Part("DATA", 34, 36), Part("EFI", 40, 99), Part("DATA", 100, 266)>>),
   WithEntries(<<Part("DATA", 100, 266), Part("EFI", 40, 99)>>)}

\* An image whose Allocation Bitmap already takes two clusters.
LargeImage ==
  [blocks |-> 17000, volume |-> 16867,
   entries |-> <<Part("EFI", 40, 99), Part("DATA", 100, 16966)>>]

GoodMedium ==
  [present |-> TRUE, logicalPartition |-> FALSE, readOnly |-> FALSE,
   blockSize |-> 512, protective |-> TRUE, gpt |-> TRUE, exfat |-> TRUE,
   fatOffset |-> 24, bitmapChain |-> 1, writeCaching |-> FALSE]

\* Among them a FAT that overlaps the backup boot region, and one that reaches
\* into the cluster heap.
MCMedia ==
  {GoodMedium,
   [GoodMedium EXCEPT !.blockSize = 4096],
   [GoodMedium EXCEPT !.present = FALSE],
   [GoodMedium EXCEPT !.blockSize = 2048],
   [GoodMedium EXCEPT !.gpt = FALSE],
   [GoodMedium EXCEPT !.exfat = FALSE],
   [GoodMedium EXCEPT !.fatOffset = 23],
   [GoodMedium EXCEPT !.fatOffset = 25],
   [GoodMedium EXCEPT !.bitmapChain = 0],
   [GoodMedium EXCEPT !.bitmapChain = 2]}

CachedMedium == [GoodMedium EXCEPT !.writeCaching = TRUE]

\* 120 leaves no room for DATA, 220 none for its heap, 280 would shrink it, 332
\* leaves a tail of less than a cluster, the protective MBR of 16500 is past
\* U32Max, 17000 needs a longer bitmap chain.
MCSizes == {30, 120, 220, 280, 300, 332, 16500, 17000}

Starting(sizes, images, media) ==
  {[total |-> t, image |-> im, medium |-> m] : t \in sizes, im \in images, m \in media}

\* Media on which one of the two cluster limits ends the growth: the FAT's 10238
\* clusters at 512-byte blocks, U32Max - 2 clusters at 4096-byte blocks.
CappedStarts ==
  Starting({24000}, {LargeImage}, {[GoodMedium EXCEPT !.bitmapChain = 2]})
    \cup Starting({40000}, {ReleaseImage}, {[GoodMedium EXCEPT !.blockSize = 4096]})

\* Every damaged image and every damaged medium, a sound one with a write cache,
\* and media larger than the volume can become.
MCStarts ==
  Starting(MCSizes, MCImages, {GoodMedium})
    \cup Starting(MCSizes, {ReleaseImage}, MCMedia)
    \cup Starting({16500}, {ReleaseImage}, {CachedMedium})
    \cup CappedStarts

\* Copies onto a smaller medium and onto two larger ones.
CloneSizes == {280, 332, 24000}

SoundStarts == Starting({332}, {ReleaseImage}, {GoodMedium})
=============================================================================
