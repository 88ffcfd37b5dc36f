---------------------------- MODULE MCAdmission ----------------------------
\* Sizes Windows gives its partition, and the disks that may be plugged in.
EXTENDS Admission, TLC
SmallSizes == 2..4
SmallSticks == {{"ntfs"}, {"ntfs", "vfat", "image"}, {"image"}}
SlotSymmetry == Permutations(Slots)
=============================================================================
