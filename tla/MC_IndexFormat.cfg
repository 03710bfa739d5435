SPECIFICATION Spec
INVARIANT EncodingCorrect
