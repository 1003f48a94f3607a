SPECIFICATION Spec
CONSTANTS
    w0 = w0
    w1 = w1
    Words <- MCWords
    Zero = w0
    Size = 5
INVARIANTS TypeOK
PROPERTIES ImplementsChannel
