SPECIFICATION FairInferSpec
CONSTANTS
  Load = load
  Store = store
  Top <- MCTop
  Element <- MCElement
  WeakInt = "weakint"
  Inputs <- MCInputs
  MaxAdds = 3
  MaxConstraints = 4
INVARIANT NothingLeftToInfer
PROPERTY InferenceEnds
PROPERTY KnownStaysKnown
CHECK_DEADLOCK FALSE
