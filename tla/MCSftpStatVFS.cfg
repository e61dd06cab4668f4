SPECIFICATION Spec
INVARIANT FreeSpaceWithinTotal
