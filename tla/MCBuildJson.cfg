CONSTANT devsize = 2
SPECIFICATION Spec
INVARIANT OwnedWhenPut
