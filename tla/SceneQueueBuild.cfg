SPECIFICATION Spec
CONSTANT N = 4
INVARIANT ComputesSceneGraph
